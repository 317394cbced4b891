------------------------------- MODULE Gradual -------------------------------
(***************************************************************************)
(* The gradual calculators of any mode: the enums GradualDifficulty and    *)
(* GradualPerformance of src/any, which hold a calculator of one mode and  *)
(* pass every call on to it.                                               *)
(*                                                                         *)
(* A map has one mode. The calculators of the other modes are there with   *)
(* an empty map and never called. A performance calculator owns a          *)
(* difficulty calculator: each of its calls is a call of nth, whose        *)
(* attributes go to the performance calculator of the mode together with   *)
(* the number of objects passed.                                           *)
(***************************************************************************)
EXTENDS OsuGradual, FiniteSets

CONSTANTS
  Modes,      (* The modes of the maps.                                    *)
  TaikoMaps,  (* Maps of osu!taiko: which of their objects are hits.       *)
  CatchMaps,  (* Maps of osu!catch: what their conversion records. It ends *)
              (* with a palpable object, a juice stream with its tail.     *)
  ManiaMaps   (* Maps of osu!mania: circles and holds.                     *)

ASSUME ModesAssumption == Modes \subseteq {"osu", "taiko", "catch", "mania"}
ASSUME TaikoMapsAssumption == TaikoMaps \subseteq Seq(BOOLEAN)
ASSUME TaikoNoneAssumption == None \notin [max_combo : Nat, cursor : Nat]
ASSUME CatchMapsAssumption ==
  CatchMaps \subseteq
    {m \in Seq({"fruit", "droplet", "tiny"}) : m = <<>> \/ m[Len(m)] # "tiny"}
ASSUME ManiaMapsAssumption == ManiaMaps \subseteq Seq([circle : BOOLEAN, ticks : Nat])

VARIABLES
  mode,    (* The mode of the map.                                         *)
  wrapped, (* Is it a performance calculator that is called?               *)
  passed,  (* The passed_objects the latest performance was calculated for.*)
  taikoMap, taikoCalc, taikoAnswer,
  catchMap, catchCalc, catchAnswer,
  maniaMap, maniaCalc, maniaAnswer

taikoVars == <<taikoMap, taikoCalc, taikoAnswer>>
catchVars == <<catchMap, catchCalc, catchAnswer>>
maniaVars == <<maniaMap, maniaCalc, maniaAnswer>>
gradualVars == <<vars, taikoVars, catchVars, maniaVars, mode, wrapped, passed>>

Taiko ==
  INSTANCE TaikoGradual WITH
    Maps <- TaikoMaps, objects <- taikoMap, calc <- taikoCalc, answer <- taikoAnswer

Catch ==
  INSTANCE CatchGradual WITH
    Maps <- CatchMaps, objects <- catchMap, calc <- catchCalc, answer <- catchAnswer

Mania ==
  INSTANCE ManiaGradual WITH
    Maps <- ManiaMaps, objects <- maniaMap, calc <- maniaCalc, answer <- maniaAnswer

(* new_with_mode. Only osu! and osu!mania look at passed_objects.          *)
GradualInit ==
  /\ mode \in Modes
  /\ wrapped \in BOOLEAN
  /\ passed = None
  /\ nObjects \in IF mode = "osu" THEN 0 .. MaxObjects ELSE {0}
  /\ taikoMap \in IF mode = "taiko" THEN TaikoMaps ELSE {<<>>}
  /\ catchMap \in IF mode = "catch" THEN CatchMaps ELSE {<<>>}
  /\ maniaMap \in IF mode = "mania" THEN ManiaMaps ELSE {<<>>}
  /\ take \in PassedObjects
  /\ mode \in {"taiko", "catch"} => take = CHOOSE k \in PassedObjects : TRUE
  /\ Init /\ Taiko!Init /\ Catch!Init /\ Mania!Init

(* The calculator that is called, and what it answered.                    *)
Position ==
  CASE mode = "osu"   -> calc.idx
    [] mode = "taiko" -> taikoCalc.idx
    [] mode = "catch" -> catchCalc.idx
    [] mode = "mania" -> maniaCalc.idx

Answer ==
  CASE mode = "osu"   -> answer
    [] mode = "taiko" -> taikoAnswer
    [] mode = "catch" -> catchAnswer
    [] mode = "mania" -> maniaAnswer

(* GradualDifficulty::next and nth                                         *)
DifficultyNext ==
  \/ mode = "osu"   /\ CallNext       /\ UNCHANGED <<taikoVars, catchVars, maniaVars>>
  \/ mode = "taiko" /\ Taiko!CallNext /\ UNCHANGED <<vars, catchVars, maniaVars>>
  \/ mode = "catch" /\ Catch!CallNext /\ UNCHANGED <<vars, taikoVars, maniaVars>>
  \/ mode = "mania" /\ Mania!CallNext /\ UNCHANGED <<vars, taikoVars, catchVars>>

DifficultyNth(n) ==
  \/ mode = "osu"   /\ CallNth(n)       /\ UNCHANGED <<taikoVars, catchVars, maniaVars>>
  \/ mode = "taiko" /\ Taiko!CallNth(n) /\ UNCHANGED <<vars, catchVars, maniaVars>>
  \/ mode = "catch" /\ Catch!CallNth(n) /\ UNCHANGED <<vars, taikoVars, maniaVars>>
  \/ mode = "mania" /\ Mania!CallNth(n) /\ UNCHANGED <<vars, taikoVars, catchVars>>

(* The builder of the performance: `.difficulty(..)` brings the settings,  *)
(* passed_objects(idx) then replaces theirs.                               *)
PassedBySettings(settings, idx) == settings
Passed(settings, idx) == idx

(* GradualPerformance::nth; next(state) is nth(state, 0) and last(state)   *)
(* is nth(state, usize::MAX). The `?` leaves before anything is calculated.*)
PerformanceNth(n) ==
  /\ wrapped
  /\ DifficultyNth(n)
  /\ UNCHANGED <<mode, wrapped>>
  /\ passed' = IF Answer' = None THEN None ELSE Passed(take, Position')

PerformanceNext == PerformanceNth(0)

GradualNext ==
  /\ ~wrapped
  /\ DifficultyNext
  /\ UNCHANGED <<mode, wrapped, passed>>

GradualNth(n) ==
  /\ ~wrapped
  /\ DifficultyNth(n)
  /\ UNCHANGED <<mode, wrapped, passed>>

GradualStep ==
  \/ GradualNext
  \/ PerformanceNext
  \/ \E n \in Skips : GradualNth(n) \/ PerformanceNth(n)

(* `for attrs in iter`, or a score that is followed to its end: the caller *)
(* keeps asking for the next object.                                       *)
GradualSpec ==
  GradualInit /\ [][GradualStep]_gradualVars /\ WF_gradualVars(GradualNext \/ PerformanceNext)

(***************************************************************************)
(* Properties (those of the osu!standard calculator are in OsuGradual)     *)
(***************************************************************************)

(* The calculators of the other modes implement the iterator their callers *)
(* rely on, every answer being that of the one-shot calculation for the    *)
(* objects passed so far: osu!taiko on maps that start with two hits. On   *)
(* no map of osu!taiko anything but None follows None.                     *)
ModesImplementIterator ==
  /\ Taiko!ImplementsIterator
  /\ Taiko!NoneIsFinal
  /\ Catch!ImplementsIterator
  /\ Mania!ImplementsIterator

(* In every mode nth(n) leaves the calculator where n + 1 calls of next()  *)
(* leave it, the skipped ones never beyond the last step.                  *)
NthsAreRepeatedNexts ==
  CASE mode = "osu"   -> NthIsRepeatedNext
    [] mode = "taiko" -> Taiko!NthIsRepeatedNext
    [] mode = "catch" -> Catch!NthIsRepeatedNext
    [] mode = "mania" -> Mania!NthIsRepeatedNext

(* In every mode and on every map len() tells how many more calls of next()*)
(* return Some: len() itself on maps with objects, one less on maps without*)
(* (osu!, osu!catch, osu!mania), and in osu!taiko one more for each of the *)
(* first two objects that is no hit, but none on maps shorter than three.  *)
(* The last answer of osu!catch has counted the whole map.                 *)
LensTellAnswers ==
  CASE mode = "osu"   -> LenTellsAnswers
    [] mode = "taiko" -> Taiko!LenTellsAnswers
    [] mode = "catch" -> Catch!LenTellsAnswers /\ Catch!LastIsTheWholeMap
    [] mode = "mania" -> Mania!LenTellsAnswers

ObjectsIn(attributes) ==
  CASE mode = "osu"   -> Cardinality({i \in 1 .. nObjects : attributes.counted[i] > 0})
    [] mode = "taiko" -> attributes.max_combo
    [] mode = "catch" -> attributes.count.fruits + attributes.count.droplets
    [] mode = "mania" -> attributes.n_objects

(* The attributes a performance is calculated from count exactly as many   *)
(* objects as it is told were passed, so that the hits generated for the   *)
(* score are those of these objects; and on any map of osu!taiko the combo *)
(* is the number of hits among the objects that were consumed.             *)
PerformanceCountsItsObjects ==
  /\ passed # None /\ (mode = "taiko" => Taiko!StartsWithHits) => passed = ObjectsIn(Answer)
  /\ Taiko!ComboCountsHits

(* A caller that keeps asking for the next object is answered None in the  *)
(* end, for good, in every mode and whether it asks for difficulties or    *)
(* for performances.                                                       *)
IterationsEnd == <>[](Answer = None)

(***************************************************************************)
(* Claims of the repository that the code does not keep                    *)
(***************************************************************************)

(* src/taiko/performance/gradual.rs:133 "Returns the amount of remaining   *)
(* objects.": the number is not negative, so the subtraction in len() must *)
(* not underflow.                                                          *)
LenNeverUnderflows == Taiko!Remaining(taikoCalc) >= 0
=============================================================================
