----------------------------- MODULE OsuGradual -----------------------------
(***************************************************************************)
(* The gradual osu!standard difficulty calculator,                         *)
(* src/osu/difficulty/gradual.rs, next to the one-shot calculation of      *)
(* src/osu/difficulty/mod.rs it has to agree with.                         *)
(*                                                                         *)
(* Hit objects are their numbers 1 .. nObjects; what an object contributes *)
(* to a counter, a skill or the score simulation is a function of the      *)
(* object and of what was fed before it, so it is enough to keep WHICH     *)
(* objects were fed and in which order:                                    *)
(*   counted[i]     how often object i was added to the attribute counters *)
(*   processed[s]   the difficulty objects skill s processed, in order     *)
(*   scored         the objects the legacy score simulator and the nested  *)
(*                  score saw, in order                                    *)
(* Difficulty object d (1 .. nObjects - 1) belongs to hit object d + 1.    *)
(***************************************************************************)
EXTENDS Arithmetic, Sequences

CONSTANTS
  None,           (* Option::None                                          *)
  MaxObjects,     (* Bound on the number of hit objects of a map.          *)
  MaxScored,      (* Bound on the length of the log of simulated objects,  *)
                  (* which a map cut off by passed_objects(0) outgrows.    *)
  PassedObjects,  (* Values of the builder's passed_objects.               *)
  Skips           (* Arguments of nth; one beyond MaxObjects stands for    *)
                  (* usize::MAX.                                           *)

ASSUME MaxObjectsAssumption == MaxObjects \in Nat
ASSUME MaxScoredAssumption == MaxScored \in Nat /\ MaxScored >= MaxObjects
ASSUME PassedObjectsAssumption == PassedObjects \subseteq Nat
ASSUME SkipsAssumption == Skips \subseteq Nat

VARIABLES
  nObjects,  (* map.hit_objects.len()                                      *)
  take,      (* difficulty.get_passed_objects()                            *)
  calc,      (* The calculator: idx, counted, processed, scored.           *)
  answer     (* What the latest call returned.                             *)

vars == <<nObjects, take, calc, answer>>

Skills == {"aim", "aim_no_sliders", "speed", "flashlight", "memory", "reading"}

(* The skills next() feeds: every one of OsuSkills but the reading skill.  *)
NextSkills == Skills \ {"reading"}

(* The attributes of a map of n objects and d difficulty objects.          *)
AttributesOf(n, d) ==
  [ counted   : [1 .. n -> Nat],
    processed : [Skills -> Seq(1 .. d)],
    scored    : Seq(1 .. n) ]

ASSUME NoneAssumption == \A n, d \in 0 .. MaxObjects : None \notin AttributesOf(n, d)

(***************************************************************************)
(* Construction                                                            *)
(***************************************************************************)

(* create_difficulty_objects: all or nothing, whatever `take` is beyond 0. *)
DiffCount == IF take = 0 THEN 0 ELSE SaturatingSub(nObjects, 1)

(* The number of calls of next() that return attributes.                   *)
StepsOfMap == IF nObjects = 0 THEN 0 ELSE DiffCount + 1

(* new() resets the counters and counts the first object.                  *)
Fresh(n) ==
  [ idx       |-> 0,
    counted   |-> [i \in 1 .. n |-> IF i = 1 THEN 1 ELSE 0],
    processed |-> [s \in Skills |-> <<>>],
    scored    |-> <<>> ]

Init ==
  /\ nObjects \in 0 .. MaxObjects
  /\ take \in PassedObjects
  /\ calc = Fresh(nObjects)
  /\ answer = None

(* ExactSizeIterator::len (a usize: negative would be an underflow).       *)
RemainingDiffObjects(c) == DiffCount - c.idx

Remaining(c) == DiffCount + 1 - c.idx

(***************************************************************************)
(* next                                                                    *)
(***************************************************************************)

(* The head of next(): the object at idx, if there is one, is simulated    *)
(* before it is known whether there is anything left to process.           *)
SimulateZeroBased(c) ==
  IF c.idx < nObjects /\ Len(c.scored) < MaxScored
  THEN [c EXCEPT !.scored = Append(@, c.idx)]
  ELSE c

Simulate(c) ==
  IF c.idx < nObjects /\ Len(c.scored) < MaxScored
  THEN [c EXCEPT !.scored = Append(@, c.idx + 1)]
  ELSE c

(* next() returns None when the difficulty object is missing or the map is *)
(* empty.                                                                  *)
HasNext(c) == IF c.idx > 0 THEN c.idx - 1 < DiffCount ELSE nObjects > 0

(* Process the difficulty object of the object at idx, and count it.       *)
ProcessNext(c) ==
  IF c.idx = 0 THEN c
  ELSE [c EXCEPT
         !.processed = [s \in Skills |-> IF s \in NextSkills
                                         THEN Append(@[s], c.idx) ELSE @[s]],
         !.counted[c.idx + 1] = @ + 1]

NextWithoutIncrement(c) ==
  LET s == Simulate(c) IN IF HasNext(c) THEN ProcessNext(s) ELSE s

NextIncrementsFirst(c) ==
  LET s == Simulate(c)
  IN  IF HasNext(c) THEN [ProcessNext(s) EXCEPT !.idx = @ + 1] ELSE [s EXCEPT !.idx = @ + 1]

NextOn(c) ==
  LET s == Simulate(c)
  IN  IF HasNext(c) THEN [ProcessNext(s) EXCEPT !.idx = c.idx + 1] ELSE s

(* The attributes a call returns. (The CC V3 fields that the one-shot      *)
(* calculation adds in its post-processing keep their defaults here; they  *)
(* are not modelled.)                                                      *)
Attributes(c) ==
  [ counted   |-> c.counted,
    processed |-> c.processed,
    scored    |-> c.scored ]

(***************************************************************************)
(* nth: skip, then next                                                    *)
(***************************************************************************)

(* How many objects nth(n) skips: the last one is always left for next().  *)
WantedAll(c, n) == Least(n, Remaining(c))
Wanted(c, n) == Least(n, SaturatingSub(Remaining(c), 1))

(* The first object has no difficulty object and is skipped by itself.     *)
SkipsFirst(c, n) == IF c.idx = 0 /\ Wanted(c, n) > 0 THEN 1 ELSE 0

(* Where `skip_iter` starts, fixed before the first object is skipped.     *)
SkipFromIdx(c) == c.idx
SkipFrom(c) == SaturatingSub(c.idx, 1)

(* The difficulty objects of skip_iter.take(take), and the idx after them. *)
SkipLoops(c, n) ==
  Least(Wanted(c, n) - SkipsFirst(c, n), SaturatingSub(DiffCount, SkipFrom(c)))

SkipEnd(c, n) == c.idx + SkipsFirst(c, n) + SkipLoops(c, n)

SkipOn(c, n) ==
  LET from == SkipFrom(c)
      upto == from + SkipLoops(c, n)
  IN  [ idx       |-> SkipEnd(c, n),
        counted   |-> [i \in 1 .. nObjects |->
                        c.counted[i] + (IF i - 1 \in from + 1 .. upto THEN 1 ELSE 0)],
        processed |-> [s \in Skills |-> c.processed[s] \o Interval(from + 1, upto)],
        scored    |-> c.scored \o Interval(c.idx + 1, Least(SkipEnd(c, n), nObjects)) ]

NthOn(c, n) == NextOn(SkipOn(c, n))

(***************************************************************************)
(* The calls. Each takes &mut self: nothing runs in between.               *)
(***************************************************************************)

CallNext ==
  /\ calc' = NextOn(calc)
  /\ answer' = IF HasNext(calc) THEN Attributes(calc') ELSE None
  /\ UNCHANGED <<nObjects, take>>

CallNth(n) ==
  /\ calc' = NthOn(calc, n)
  /\ answer' = IF HasNext(SkipOn(calc, n)) THEN Attributes(calc') ELSE None
  /\ UNCHANGED <<nObjects, take>>

Next == CallNext \/ \E n \in Skips : CallNth(n)

Spec == Init /\ [][Next]_vars

(***************************************************************************)
(* The one-shot calculation with passed_objects = k                        *)
(***************************************************************************)
RegularAttributes(k) ==
  [ counted   |-> [i \in 1 .. nObjects |-> IF i <= k THEN 1 ELSE 0],
    processed |-> [s \in Skills |-> Interval(1, SaturatingSub(Least(nObjects, k), 1))],
    scored    |-> Interval(1, Least(nObjects, k)) ]

(* The part of the attributes that both calculations derive the same way:  *)
(* the counters, the legacy scores and every skill but reading.            *)
Shared(a) ==
  [ counted   |-> a.counted,
    processed |-> [s \in NextSkills |-> a.processed[s]],
    scored    |-> a.scored ]

(***************************************************************************)
(* Properties                                                              *)
(***************************************************************************)
AttributesType == AttributesOf(nObjects, DiffCount)

CalculatorType ==
  [ idx       : 0 .. StepsOfMap,
    counted   : [1 .. nObjects -> Nat],
    processed : [Skills -> Seq(1 .. DiffCount)],
    scored    : Seq(1 .. nObjects) ]

(* The calculator's fields keep their types: idx stays within the map and  *)
(* no skill, counter or simulator is ever handed an object outside it.     *)
TypeOK ==
  /\ nObjects \in 0 .. MaxObjects
  /\ take \in PassedObjects
  /\ calc \in CalculatorType
  /\ answer = None \/ answer \in AttributesType

(* Whatever mix of next() and nth() led there, the counters, the legacy    *)
(* scores and the skills (reading aside) of a returned value are those of  *)
(* the one-shot calculation for the idx objects passed so far.             *)
AgreesWithRegular ==
  answer # None => Shared(answer) = Shared(RegularAttributes(calc.idx))

(* The calculator that n calls of next() lead to.                          *)
AfterNexts(c, n) ==
  LET after[i \in 0 .. n] == IF i = 0 THEN c ELSE NextOn(after[i - 1])
  IN  after[n]

(* nth(n) is n + 1 calls of next(), the skipped ones never beyond the last *)
(* step (doc of OsuGradualPerformance::nth: n = 0 processes one object,    *)
(* n = 1 two, and so on), as far as the counters, the legacy scores and    *)
(* the skills that next() feeds go.                                        *)
NthIsRepeatedNext ==
  \A n \in Skips :
    LET steps == Least(n, SaturatingSub(Remaining(calc), 1)) + 1
        one   == NthOn(calc, n)
        many  == AfterNexts(calc, steps)
    IN  /\ one.idx = many.idx
        /\ Shared(Attributes(one)) = Shared(Attributes(many))

(* len() tells how many more calls of next() return Some, from every state *)
(* and on every map: exactly as many, but on a map without objects one     *)
(* less. It never underflows.                                              *)
AnswersLeft == Remaining(calc) - (IF nObjects = 0 THEN 1 ELSE 0)

LenTellsAnswers ==
  /\ AnswersLeft >= 0
  /\ \A k \in 0 .. MaxObjects : HasNext(AfterNexts(calc, k)) <=> k < AnswersLeft

(* Once the objects are used up, a call leaves what was accumulated alone  *)
(* (a map cut off by passed_objects(0) aside, which still has objects for  *)
(* the score simulation).                                                  *)
ExhaustedCallsChangeNothing ==
  [][ (answer' = None /\ take > 0) => calc' = calc ]_vars

Iterator ==
  INSTANCE GradualIterator WITH
    total    <- StepsOfMap,
    regular  <- [k \in 0 .. StepsOfMap |-> Shared(RegularAttributes(k))],
    position <- calc.idx,
    answer   <- IF answer = None THEN None ELSE Shared(answer)

(* The calculator implements the iterator its callers rely on.             *)
ImplementsIterator == Iterator!Spec

(***************************************************************************)
(* Claims of the repository that the code does not keep                    *)
(***************************************************************************)

(* src/osu/difficulty/gradual.rs:346 and :360 assert that a value from *)
(* next() equals the value of nth() and of the one-shot calculation. The   *)
(* reading skill is part of it.                                            *)
ReadingAgreesWithRegular ==
  answer # None =>
    answer.processed["reading"] = RegularAttributes(calc.idx).processed["reading"]
=============================================================================
