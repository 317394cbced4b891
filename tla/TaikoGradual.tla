---------------------------- MODULE TaikoGradual ----------------------------
(***************************************************************************)
(* The gradual osu!taiko difficulty calculator,                            *)
(* src/taiko/difficulty/gradual.rs, next to the one-shot calculation of    *)
(* src/taiko/difficulty/mod.rs.                                            *)
(*                                                                         *)
(* Only hits (circles) give combo, a step of the calculator is a hit and   *)
(* everything before it. A map is a sequence of booleans: objects[i] says  *)
(* whether object i is a hit. Difficulty object d belongs to object d + 2. *)
(* All five skills process the same difficulty objects in the same order,  *)
(* one after the other; `cursor` counts how many they have processed,      *)
(* which is how far diff_objects_iter has moved.                           *)
(***************************************************************************)
EXTENDS Arithmetic, Sequences

CONSTANTS
  None,   (* Option::None                                                  *)
  Maps,   (* The maps to calculate: sequences of booleans.                 *)
  Skips   (* Arguments of nth; one beyond every map stands for usize::MAX. *)

VARIABLES
  objects,  (* The map.                                                    *)
  calc,     (* The calculator: idx, cursor, max_combo.                     *)
  answer    (* What the latest call returned.                              *)

vars == <<objects, calc, answer>>

(* The number of hits among the first n objects.                           *)
HitsIn[n \in 0 .. Len(objects)] ==
  IF n = 0 THEN 0 ELSE HitsIn[n - 1] + (IF objects[n] THEN 1 ELSE 0)

TotalHits == HitsIn[Len(objects)]

(* create_difficulty_objects: the first two objects have none.             *)
DiffCount == SaturatingSub(Len(objects), 2)

(* len(): total_hits - idx as usize; below zero it underflows.             *)
Remaining(c) == TotalHits - c.idx

Init ==
  /\ objects \in Maps
  /\ calc = [idx |-> 0, cursor |-> 0, max_combo |-> 0]
  /\ answer = None

(***************************************************************************)
(* next                                                                    *)
(***************************************************************************)

(* FirstTwoCombos after k of the first two objects (k in {1, 2}), as the   *)
(* match arms of next() and nth() assign it.                               *)
IsHit(i) == i <= Len(objects) /\ objects[i]

FirstCombos(c, k) ==
  IF k = 2 /\ IsHit(1) /\ IsHit(2) THEN 2
  ELSE IF IsHit(1) \/ (k = 2 /\ IsHit(2)) THEN 1
  ELSE c.max_combo

(* The next hit that the difficulty objects after `cursor` lead to, or 0.  *)
NextHit(c) ==
  LET ahead == {d \in c.cursor + 1 .. DiffCount : objects[d + 2]}
  IN  IF ahead = {} THEN 0 ELSE CHOOSE d \in ahead : \A e \in ahead : d <= e

(* The inner loop: process difficulty objects up to and including the next *)
(* hit; when the iterator runs dry first, everything left was processed    *)
(* for nothing.                                                            *)
ProcessHit(c) ==
  IF NextHit(c) = 0 THEN [c EXCEPT !.cursor = DiffCount]
  ELSE [c EXCEPT !.cursor = NextHit(c), !.max_combo = @ + 1]

HasNext(c) == IF c.idx >= 2 THEN NextHit(c) # 0 ELSE DiffCount > 0

NextWithoutIncrement(c) ==
  IF c.idx >= 2 THEN ProcessHit(c) ELSE [c EXCEPT !.max_combo = FirstCombos(c, c.idx + 1)]

NextOn(c) ==
  IF ~HasNext(c)
  THEN IF c.idx >= 2 THEN ProcessHit(c) ELSE c
  ELSE LET p == IF c.idx >= 2 THEN ProcessHit(c)
                ELSE [c EXCEPT !.max_combo = FirstCombos(c, c.idx + 1)]
       IN  [p EXCEPT !.idx = @ + 1]

(***************************************************************************)
(* nth                                                                     *)
(***************************************************************************)

(* usize arithmetic: an underflown len() is huge, so n decides alone.      *)
Wanted(c, n) ==
  IF Remaining(c) < 0 THEN n ELSE Least(n, SaturatingSub(Remaining(c), 1))

(* The match over (take, idx): how many of the first two objects to skip.  *)
SkippedFirstBoth(c, n) ==
  IF c.idx >= 2 THEN 0 ELSE Least(Wanted(c, n), 2)

SkippedFirst(c, n) ==
  IF c.idx >= 2 THEN 0 ELSE Least(Wanted(c, n), 2 - c.idx)

SkipFirst(c, n) ==
  LET k == SkippedFirst(c, n)
  IN  IF k = 0 THEN c
      ELSE [c EXCEPT !.idx = @ + k, !.max_combo = FirstCombos(c, c.idx + k)]

(* The outer loop of nth(); [calc, ok], where ok is FALSE once the inner   *)
(* loop has run out of difficulty objects, which ends nth() with None.     *)
SkipHits(c, k) ==
  LET skip[i \in 0 .. k] ==
        IF i = 0 THEN [calc |-> c, ok |-> TRUE]
        ELSE LET p == skip[i - 1].calc
             IN  IF ~skip[i - 1].ok THEN skip[i - 1]
                 ELSE IF NextHit(p) = 0 THEN [calc |-> ProcessHit(p), ok |-> FALSE]
                 ELSE [calc |-> [ProcessHit(p) EXCEPT !.idx = @ + 1], ok |-> TRUE]
  IN  skip[k]

SkipOn(c, n) ==
  SkipHits(SkipFirst(c, n), Wanted(c, n) - SkippedFirst(c, n))

NthOn(c, n) ==
  LET s == SkipOn(c, n) IN IF s.ok THEN NextOn(s.calc) ELSE s.calc

NthAnswers(c, n) == SkipOn(c, n).ok /\ HasNext(SkipOn(c, n).calc)

(***************************************************************************)
(* The calls                                                               *)
(***************************************************************************)

(* The attributes a call returns. (rake_factor keeps its default, which    *)
(* the one-shot calculation does not; it is not modelled.)                 *)
Attributes(c) == [max_combo |-> c.max_combo, cursor |-> c.cursor]

CallNext ==
  /\ calc' = NextOn(calc)
  /\ answer' = IF HasNext(calc) THEN Attributes(calc') ELSE None
  /\ UNCHANGED objects

CallNth(n) ==
  /\ calc' = NthOn(calc, n)
  /\ answer' = IF NthAnswers(calc, n) THEN Attributes(calc') ELSE None
  /\ UNCHANGED objects

Next == CallNext \/ \E n \in Skips : CallNth(n)

Spec == Init /\ [][Next]_vars

(***************************************************************************)
(* The one-shot calculation with passed_objects = k                        *)
(***************************************************************************)

(* create_difficulty_objects counts objects while fewer than k hits were   *)
(* seen: everything up to and including the k-th hit.                      *)
SeenObjects(k) ==
  IF k = 0 THEN 0
  ELSE IF k >= TotalHits /\ (k > TotalHits \/ TotalHits = 0) THEN Len(objects)
  ELSE CHOOSE n \in 1 .. Len(objects) : objects[n] /\ HitsIn[n] = k

RegularAttributes(k) ==
  [ max_combo |-> Least(k, TotalHits),
    cursor    |-> Least(DiffCount, SaturatingSub(SeenObjects(k), 2)) ]

(***************************************************************************)
(* Properties                                                              *)
(***************************************************************************)

(* The maps on which steps and hits coincide: they start with two hits and *)
(* are long enough for a difficulty object.                                *)
StartsWithHits == Len(objects) >= 3 /\ objects[1] /\ objects[2]

(* On any map the returned combo is the number of hits among the objects   *)
(* that were consumed: nothing is counted twice or left out by the         *)
(* separate treatment of the first two objects.                            *)
Consumed == IF calc.idx < 2 THEN calc.idx ELSE calc.cursor + 2

ComboCountsHits ==
  Len(objects) >= 3 => calc.max_combo = HitsIn[Consumed]

(* On any map of three or more objects, nth(n) leaves the calculator where *)
(* n + 1 calls of next() leave it, as long as len() did not underflow.     *)
AfterNexts(c, n) ==
  LET after[i \in 0 .. n] == IF i = 0 THEN c ELSE NextOn(after[i - 1])
  IN  after[n]

NthIsRepeatedNext ==
  (Len(objects) >= 3 /\ Remaining(calc) >= 0) =>
    \A n \in Skips :
      NthOn(calc, n) = AfterNexts(calc, Least(n, SaturatingSub(Remaining(calc), 1)) + 1)

(* How many more calls of next() return Some, from every state and on every*)
(* map: none when it has less than three objects, else as many as len()    *)
(* says and one more for each of the first two objects that is no hit,     *)
(* which answer without being counted. So len() is exact on a map of three *)
(* objects that starts with two hits.                                      *)
AnswersLeft ==
  IF Len(objects) < 3 THEN 0 ELSE Remaining(calc) + (2 - HitsIn[2])

LenTellsAnswers ==
  /\ AnswersLeft >= 0
  /\ \A k \in 0 .. Len(objects) : HasNext(AfterNexts(calc, k)) <=> k < AnswersLeft

(* Once None was answered nothing else ever is: not even nth() on a map    *)
(* whose len() underflowed finds another hit. (The answer is also None     *)
(* before the first call, where idx is 0.)                                 *)
NoneIsFinal ==
  [][ (answer = None /\ calc.idx > 0) => answer' = None ]_vars

HitFirst(x, otherwise) == IF StartsWithHits THEN x ELSE otherwise

Iterator ==
  INSTANCE GradualIterator WITH
    total    <- HitFirst(TotalHits, 0),
    regular  <- [k \in 0 .. HitFirst(TotalHits, 0) |-> RegularAttributes(k)],
    position <- HitFirst(calc.idx, 0),
    answer   <- HitFirst(answer, None)

(* On maps that start with two hits, the calculator implements the         *)
(* iterator its callers rely on. (Other maps are taken for an iterator     *)
(* without steps, which asks nothing of them.)                             *)
ImplementsIterator == Iterator!Spec
=============================================================================
