----------------------------- MODULE ScoreState ------------------------------
(***************************************************************************)
(* Performance calculators generating the score state of a play:           *)
(* src/{osu,taiko,catch,mania}/performance/mod.rs.                         *)
(*                                                                         *)
(* A calculator starts with a map and the caller's options. generate_state *)
(* replaces the map by its difficulty attributes, has a generator produce  *)
(* the hit results, and stores them as if the caller had given them, so    *)
(* that the calculation and further calls see the same play. The caller    *)
(* may change options and generate again at any time.                      *)
(***************************************************************************)
EXTENDS HitResults

CONSTANTS
  Modes,     (* A subset of {"osu", "taiko", "catch", "mania"}.            *)
  Beatmap,   (* For each mode a sequence with what each object adds to the *)
             (* counts of the difficulty attributes.                       *)
  Requests,  (* For each mode the options that callers start with.         *)
  Accuracies, Misses, Passed,  (* What callers change options to.          *)
  MaxChanges (* Bound on how often they do.                                *)

(* The counts that attributes keep of their map.                           *)
AttrFields ==
  [ osu   |-> {"objects", "sliders", "large"},
    taiko |-> {"hits"},
    catch |-> {"fruits", "droplets", "tiny"},
    mania |-> {"objects", "holds"} ]

JudgementsOf == [osu |-> 3, taiko |-> 2, catch |-> 4, mania |-> 5]

(* What callers may set: numbers, and an accuracy that is a percentage.    *)
MaybeNat == Nat \cup {None}
IsOptions(m, p) ==
  /\ p \in [ given     : [1 .. JudgementsOf[m] -> MaybeNat],
             misses    : MaybeNat,
             combo     : MaybeNat,
             acc       : (0 .. AccSteps) \cup {None},
             best_case : BOOLEAN,
             generator : {None, "Closest", "Fast", "IgnoreAccuracy"},
             passed    : Nat,
             ticks     : [1 .. 3 -> MaybeNat],
             lazer     : BOOLEAN,
             classic   : BOOLEAN ]

ASSUME ModesAssumption == Modes \subseteq {"osu", "taiko", "catch", "mania"}
ASSUME BeatmapAssumption == \A m \in Modes : Beatmap[m] \in Seq([AttrFields[m] -> Nat])
ASSUME RequestsAssumption == \A m \in Modes : \A p \in Requests[m] : IsOptions(m, p)
ASSUME InputsAssumption ==
  /\ Accuracies \subseteq 0 .. AccSteps /\ Misses \subseteq Nat /\ Passed \subseteq Nat
  /\ MaxChanges \in Nat

VARIABLES
  mode,     (* The mode of the calculator.                                 *)
  content,  (* map_or_attrs: NoAttrs while it is the map.                  *)
  perf,     (* The options, those of generate_state included.              *)
  asked,    (* The options when generate_state was last called.            *)
  state,    (* What it returned, or Nothing, or Panic.                     *)
  changes   (* How many options were changed.                              *)

vars == <<mode, content, perf, asked, state, changes>>

NoAttrs == [attrs |-> FALSE]
Nothing == [generated |-> FALSE]
Panic   == [generated |-> FALSE, panic |-> TRUE]

Catch == INSTANCE CatchHitResults

(***************************************************************************)
(* Attributes                                                              *)
(***************************************************************************)

(* The counts of the objects that passed_objects lets in.                  *)
Calculated(m, passed) ==
  LET n == Least(passed, Len(Beatmap[m]))
      count(f) == LET upTo[k \in 0 .. n] == IF k = 0 THEN 0 ELSE upTo[k - 1] + Beatmap[m][k][f]
                  IN  upTo[n]
  IN  [f \in AttrFields[m] |-> count(f)]

(* Attributes, once inserted, stay.                                        *)
InsertAttrs(m, c, p) == IF c = NoAttrs THEN Calculated(m, p.passed) ELSE c

MaxCombo(m, a) ==
  CASE m = "osu"   -> a.objects + a.sliders + a.large
    [] m = "taiko" -> a.hits
    [] m = "catch" -> a.fruits + a.droplets
    [] m = "mania" -> 0

(***************************************************************************)
(* The Inspect structs                                                     *)
(***************************************************************************)
IsClassic(p) == ~p.lazer \/ p.classic

TotalHits(m, a, p) ==
  CASE m = "osu"   -> Least(p.passed, a.objects)
    [] m = "taiko" -> Least(p.passed, a.hits)
    [] m = "catch" -> a.fruits + a.droplets
    [] m = "mania" -> Least(p.passed, a.objects) + (IF IsClassic(p) THEN 0 ELSE a.holds)

InspectMisses(m, a, p) == IF p.misses = None THEN 0 ELSE Least(p.misses, TotalHits(m, a, p))

(* Large ticks, small ticks and slider ends: how many there are for the    *)
(* origin of the score, and how many were hit.                             *)
MaxTicks(a, p) ==
  CASE ~p.lazer              -> <<0, 0, 0>>
    [] p.lazer /\ ~p.classic -> <<a.large, 0, a.sliders>>
    [] p.lazer /\ p.classic  -> <<a.sliders + a.large, a.sliders, 0>>

TickHits(a, p) ==
  [t \in 1 .. 3 |-> IF p.ticks[t] = None THEN MaxTicks(a, p)[t] ELSE Least(p.ticks[t], MaxTicks(a, p)[t])]

TickScore(ticks) == 30 * ticks[1] + 10 * ticks[2] + 150 * ticks[3]

Inspect(m, a, p) ==
  [ given      |-> p.given,
    total      |-> TotalHits(m, a, p),
    misses     |-> InspectMisses(m, a, p),
    acc        |-> p.acc,
    best_case  |-> p.best_case,
    weight     |-> CASE m = "osu"   -> <<300, 100, 50>>
                     [] m = "taiko" -> <<2, 1>>
                     [] m = "mania" -> <<IF IsClassic(p) THEN 60 ELSE 61, 60, 40, 20, 10>>,
    unit       |-> IF m = "osu" THEN 50 ELSE 1,
    tick_score |-> IF m = "osu" THEN TickScore(TickHits(a, p)) ELSE 0,
    tick_max   |-> IF m = "osu" THEN TickScore(MaxTicks(a, p)) ELSE 0 ]

InspectCatch(a, p) ==
  [ given  |-> p.given,
    n      |-> <<a.fruits, a.droplets, a.tiny>>,
    misses |-> InspectMisses("catch", a, p),
    acc    |-> p.acc ]

(***************************************************************************)
(* generate_state                                                          *)
(***************************************************************************)

(* Without a choice, osu!taiko takes Closest and the others take Fast.     *)
Generator(m, p) ==
  IF p.generator # None THEN p.generator ELSE IF m = "taiko" THEN "Closest" ELSE "Fast"

(* Every generator ignores an accuracy that is not there.                  *)
IgnoresAccuracy(m, p) == p.acc = None \/ Generator(m, p) = "IgnoreAccuracy"

HitResultsOf(m, i, g) ==
  CASE m = "osu"   /\ g = "Fast"    -> OsuFast(i)
    [] m = "osu"   /\ g = "Closest" -> OsuClosest(i)
    [] m = "taiko" /\ g = "Fast"    -> TaikoFast(i)
    [] m = "taiko" /\ g = "Closest" -> TaikoClosest(i)
    [] m = "mania" /\ g = "Fast"    -> ManiaFast(i)
    [] m = "mania" /\ g = "Closest" -> ManiaClosest(i)

(* osu!standard and osu!mania then add what is missing up to total_hits.   *)
FillOsu(i, hits) ==
  Add(hits, Preferred(i, IF Missing(i) = {} THEN Judgements(i) ELSE Missing(i)),
            Greatest(0, Left(i, hits)))

FillMania(i, hits) ==
  Add(hits, IF Missing(i) = {} THEN LastResort(i) ELSE Preferred(i, Missing(i)),
            Greatest(0, Left(i, hits)))

Filled(m, i, hits) ==
  CASE m = "osu"   -> FillOsu(i, hits)
    [] m = "mania" -> FillMania(i, hits)
    [] m = "taiko" -> hits

GeneratedHits(m, i, p) ==
  IF IgnoresAccuracy(m, p) THEN IgnoreAccuracy(i) ELSE HitResultsOf(m, i, Generator(m, p))

CatchHits(c, p) ==
  IF IgnoresAccuracy("catch", p) THEN Catch!CatchIgnoreAccuracy(c) ELSE Catch!CatchFast(c)

Hits(m, a, p) ==
  IF m = "catch" THEN CatchHits(InspectCatch(a, p), p)
  ELSE Filled(m, Inspect(m, a, p), GeneratedHits(m, Inspect(m, a, p), p))

Combo(m, a, p) ==
  LET possible == SaturatingSub(MaxCombo(m, a), InspectMisses(m, a, p))
  IN  CASE p.combo = None                   -> possible
        [] p.combo # None /\ m = "catch"    -> p.combo
        [] p.combo # None /\ m # "catch"    -> Least(p.combo, possible)

Generated(m, a, p) ==
  [ generated |-> TRUE,
    hits      |-> Hits(m, a, p),
    misses    |-> InspectMisses(m, a, p),
    combo     |-> Combo(m, a, p),
    ticks     |-> IF m = "osu" THEN TickHits(a, p) ELSE p.ticks ]

(* osu!mania has no combo to store, and only osu!standard has ticks.       *)
StoreOnlyGiven(m, p, s) ==
  [p EXCEPT !.given = [k \in DOMAIN p.given |-> IF p.given[k] = None THEN None ELSE s.hits[k]],
            !.misses = s.misses]

Store(m, p, s) ==
  [p EXCEPT !.given = s.hits, !.misses = s.misses,
            !.combo = IF m = "mania" THEN @ ELSE s.combo, !.ticks = s.ticks]

(* Underflow: `remain - num_provided` of optimize_two_missing.             *)
Underflows(m, a, p) ==
  m = "mania" /\ ~IgnoresAccuracy(m, p) /\ Generator(m, p) = "Closest" /\ Overgiven(Inspect(m, a, p))

(***************************************************************************)
(* The specification                                                       *)
(***************************************************************************)
Init ==
  /\ mode \in Modes
  /\ content = NoAttrs
  /\ perf \in Requests[mode]
  /\ asked = perf
  /\ state = Nothing
  /\ changes = 0

GenerateState ==
  LET attrs == InsertAttrs(mode, content, perf)
  IN  /\ state # Panic
      /\ ~Underflows(mode, attrs, perf)
      /\ content' = attrs
      /\ state' = Generated(mode, attrs, perf)
      /\ perf' = Store(mode, perf, state')
      /\ asked' = perf
      /\ UNCHANGED <<mode, changes>>

(* A build with overflow checks panics.                                    *)
GenerateStatePanics ==
  LET attrs == InsertAttrs(mode, content, perf)
  IN  /\ state # Panic
      /\ Underflows(mode, attrs, perf)
      /\ content' = attrs
      /\ state' = Panic
      /\ asked' = perf
      /\ UNCHANGED <<mode, perf, changes>>

(* The setters: accuracy, misses and passed_objects.                       *)
Change(p) ==
  /\ state # Panic
  /\ changes < MaxChanges
  /\ perf' = p
  /\ changes' = changes + 1
  /\ UNCHANGED <<mode, content, asked, state>>

SetAccuracy == \E a \in Accuracies : Change([perf EXCEPT !.acc = a])
SetMisses   == \E n \in Misses : Change([perf EXCEPT !.misses = n])
SetPassed   == \E n \in Passed : Change([perf EXCEPT !.passed = n])

Next == GenerateState \/ GenerateStatePanics \/ SetAccuracy \/ SetMisses \/ SetPassed

Spec == Init /\ [][Next]_vars

(***************************************************************************)
(* Properties                                                              *)
(***************************************************************************)
IsGenerated == state # Nothing /\ state # Panic

Sum(hits) == SumFunction(hits)
AllGiven(p) == \A k \in DOMAIN p.given : p.given[k] # None
Numbers(p) == SumFunction([k \in DOMAIN p.given |-> IF p.given[k] = None THEN 0 ELSE p.given[k]])
AskedTotal == TotalHits(mode, content, asked)
AskedRemain == AskedTotal - InspectMisses(mode, content, asked)

AsksForClosest == ~IgnoresAccuracy(mode, asked) /\ Generator(mode, asked) = "Closest"

(* Three kinds of requests whose hits need not add up. Given an accuracy,  *)
(* osu!taiko takes two numbers that are too small as they are, and         *)
(* osu!catch leaves its pools open if one of the four numbers is missing.  *)
KeepsTooFew ==
  /\ mode = "taiko" /\ ~IgnoresAccuracy(mode, asked)
  /\ AllGiven(asked) /\ Numbers(asked) < AskedRemain

LeavesPoolsOpen == mode = "catch" /\ ~IgnoresAccuracy(mode, asked) /\ ~AllGiven(asked)

(* Closest in osu!mania keeps 200s, 100s and 50s that are too many, unless *)
(* there is nothing left to hit.                                           *)
KeepsTooMany ==
  /\ mode = "mania" /\ AsksForClosest /\ Cardinality(Missing(asked)) > 2
  /\ AskedRemain > 0 /\ Given(asked, 3 .. 5) > AskedRemain

(* The 300s that are given are dropped where Closest in osu!mania chooses  *)
(* the 320s and leaves no room for them.                                   *)
MayDrop(k) ==
  mode = "mania" /\ AsksForClosest /\ asked.given[1] = None /\ k = 2

(* The numbers a caller gives are kept if they fit and leave one to be     *)
(* generated, save for those 300s. (osu!catch raises given fruits to fill  *)
(* its pool.)                                                              *)
GivenAreKept ==
  IsGenerated /\ mode # "catch" /\ ~AllGiven(asked) /\ Numbers(asked) <= AskedRemain =>
    \A k \in DOMAIN asked.given :
      asked.given[k] # None /\ ~MayDrop(k) => state.hits[k] = asked.given[k]

(* Hits and misses add up to the number of objects, in whatever order      *)
(* options were changed and states generated, and the numbers given are    *)
(* kept. Of the three kinds of requests for which they do not, too few     *)
(* hits are exactly those given; too many exceed the objects and hold the  *)
(* 200s, 100s and 50s given; and open pools never hold more fruits and     *)
(* droplets than there are, and all tiny droplets unless their misses were *)
(* given.                                                                  *)
HitsAddUp ==
  /\ GivenAreKept
  /\ IsGenerated /\ mode # "catch" =>
       /\ KeepsTooFew  => state.hits = asked.given
       /\ KeepsTooMany => /\ Sum(state.hits) + state.misses > AskedTotal
                          /\ \A k \in 3 .. 5 : asked.given[k] # None => state.hits[k] = asked.given[k]
       /\ ~KeepsTooFew /\ ~KeepsTooMany => Sum(state.hits) + state.misses = AskedTotal
  /\ IsGenerated /\ mode = "catch" =>
       /\ state.hits[1] + state.hits[2] + state.misses <= AskedTotal
       /\ ~LeavesPoolsOpen => state.hits[1] + state.hits[2] + state.misses = AskedTotal
       /\ ~LeavesPoolsOpen \/ asked.given[4] = None => state.hits[3] + state.hits[4] = content.tiny

WasStored == perf = [Store(mode, asked, state) EXCEPT !.acc = perf.acc]

(* generate_state creates the state "that will be used for performance     *)
(* calculation", for every mode and request.                               *)
StateIsUsed == IsGenerated /\ WasStored => Generated(mode, content, perf) = state

(* The calculation generates again, from the stored numbers: that gives the*)
(* same state, even if the accuracy was changed, unless osu!catch left its *)
(* pools open or osu!mania kept too many hits. Then it gives another one,  *)
(* whose hits add up; and that one is generated from then on.              *)
Repeatable ==
  IsGenerated /\ WasStored =>
    LET again == Generated(mode, content, perf)
    IN  /\ ~LeavesPoolsOpen /\ ~KeepsTooMany => again = state
        /\ Generated(mode, content, Store(mode, perf, again)) = again

(* All hit results of a request: `total` hits that agree with what was     *)
(* given.                                                                  *)
Possible(i) ==
  LET fixed == Clamp(i, BestFirst(i))
  IN  {hits \in [Judgements(i) -> 0 .. Remain(i)] :
         /\ Sum(hits) = Remain(i)
         /\ \A k \in Judgements(i) : i.given[k] # None => hits[k] = fixed[k]}

NoneIsCloser ==
  LET i == Inspect(mode, content, asked)
  IN  \A hits \in Possible(i) : Distance(i, state.hits) <= Distance(i, hits)

Attainable(i) == i.acc * AccMax(i) <= AccSteps * (i.weight[1] * Remain(i) + i.tick_score)

(* Closest "guarantees that there are no other results that are closer to  *)
(* the target accuracy": true of osu!taiko, and of osu!standard if the     *)
(* accuracy does not exceed what the misses leave.                         *)
ClosestIsClosest ==
  IsGenerated /\ AsksForClosest =>
    CASE mode = "taiko" -> NoneIsCloser
      [] mode = "osu"   -> Attainable(Inspect(mode, content, asked)) => NoneIsCloser
      [] mode \in {"catch", "mania"} -> TRUE

(* The guarantee as documented, for every accuracy.                        *)
ClosestGuarantee == IsGenerated /\ AsksForClosest /\ mode # "catch" => NoneIsCloser

ScoreWith(p, hits) == ScoreOf(Inspect(mode, content, p), hits)
ScoreFor(p) == ScoreWith(p, Hits(mode, content, p))

(* BestCase is never worse than WorstCase for the same request. (Unless    *)
(* every number is given and there is an accuracy: then Fast adds what is  *)
(* missing to the 50s for BestCase, to the best judgement for WorstCase.)  *)
PriorityOrders ==
  /\ IsGenerated
  /\ mode # "catch"
  /\ IgnoresAccuracy(mode, asked) \/ ~AllGiven(asked)
  /\ asked.best_case
  => ScoreWith(asked, state.hits) >= ScoreFor([asked EXCEPT !.best_case = FALSE])

(* A higher accuracy never gives a lower score, from Fast unless the       *)
(* number of the lowest judgement was given, and from Closest in osu!taiko.*)
MoreAccuracyMoreScore ==
  /\ IsGenerated
  /\ mode # "catch"
  /\ ~IgnoresAccuracy(mode, asked)
  /\ \/ mode = "taiko"
     \/ Generator(mode, asked) = "Fast" /\ asked.given[Len(asked.given)] = None
  => \A a \in Accuracies :
       a >= asked.acc => ScoreFor([asked EXCEPT !.acc = a]) >= ScoreWith(asked, state.hits)
=============================================================================
