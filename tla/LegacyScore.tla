---------------------------- MODULE LegacyScore -----------------------------
(***************************************************************************)
(* The legacy (ScoreV1) score simulation of osu!standard:                  *)
(* src/osu/legacy_score_simulator/gradual.rs, which is fed one object at a *)
(* time and has to keep track of breaks on the way, next to                *)
(* src/osu/legacy_score_simulator/mod.rs, which sees the first k objects   *)
(* and the whole list of breaks at once.                                   *)
(*                                                                         *)
(* Times are whole milliseconds and casts to i32 saturate at I32Max, which *)
(* is scaled down to the scores of small maps.                             *)
(***************************************************************************)
EXTENDS Arithmetic, Sequences, FiniteSets, FiniteSetsExt

CONSTANTS
  Maps,         (* The maps: starts, kinds and breaks, see IsMap.          *)
  Difficulties, (* Values of hp + od + cs.                                 *)
  I32Max        (* i32::MAX.                                               *)

VARIABLES
  map,  (* The map.                                                        *)
  sim,  (* The gradual simulator.                                          *)
  pc    (* "idle", or "breaks" inside the loop of simulate_next().         *)

vars == <<map, sim, pc>>

HitObjects ==
  [kind : {"circle"}]
    \cup [kind : {"slider"}, nested : Seq({"tick", "repeat"})]
    \cup [kind : {"spinner"}, possible : Nat, required : Nat]

(* The decoder sorts the objects; a break ends no sooner than it starts,   *)
(* but breaks are neither sorted nor kept apart.                           *)
IsMap(m) ==
  /\ m.starts \in Seq(Int)
  /\ \A i, j \in 1 .. Len(m.starts) : i <= j => m.starts[i] <= m.starts[j]
  /\ m.kinds \in Seq(HitObjects) /\ Len(m.kinds) = Len(m.starts)
  /\ m.breaks \in Seq([start : Int, end : Int])
  /\ \A b \in 1 .. Len(m.breaks) : m.breaks[b].start <= m.breaks[b].end

ASSUME MapsAssumption ==
  /\ \A m \in Maps : IsMap(m)
  /\ Difficulties \subseteq Nat
  /\ I32Max \in Nat

(* The sum of a sequence, added up from its first element on.              *)
Total(s) ==
  LET upTo[i \in 0 .. Len(s)] == IF i = 0 THEN 0 ELSE upTo[i - 1] + s[i]
  IN  upTo[Len(s)]

(* A float cast to i32 saturates.                                          *)
AsI32(x) == Least(x, I32Max)

(***************************************************************************)
(* Hit objects, as the simulators see them                                 *)
(***************************************************************************)

(* One unrolled_recursion call.                                            *)
Judged(score, multiplied, increase) ==
  [score |-> score, multiplied |-> multiplied, increase |-> increase, bonus |-> FALSE]

Bonus(score) == [score |-> score, multiplied |-> FALSE, increase |-> FALSE, bonus |-> TRUE]

(* What half spin i of a spinner earns, if anything, when `required` half  *)
(* spins come before the first bonus.                                      *)
HalfSpin(i, required) ==
  IF i > required /\ (i - required) % 2 = 0 THEN <<Bonus(1100)>>
  ELSE IF i > 1 /\ i % 2 = 0 THEN <<Bonus(100)>>
  ELSE <<>>

(* Half spin 0 never earns anything.                                       *)
HalfSpins(spinner) ==
  LET upTo[i \in 0 .. spinner.possible] ==
        IF i = 0 THEN <<>> ELSE upTo[i - 1] \o HalfSpin(i, spinner.required + 3)
  IN  upTo[spinner.possible]

(* simulate_hit: a circle, a slider (head, then a nested "tick" or         *)
(* "repeat" each, the tail among the repeats) or a spinner.                *)
Judgements(h) ==
  CASE h.kind = "circle" -> <<Judged(300, TRUE, TRUE)>>
    [] h.kind = "slider" ->
         <<Judged(30, FALSE, TRUE)>>
           \o [i \in 1 .. Len(h.nested) |->
                Judged(IF h.nested[i] = "tick" THEN 10 ELSE 30, FALSE, TRUE)]
           \o <<Judged(300, TRUE, FALSE)>>
    [] h.kind = "spinner" -> HalfSpins(h) \o <<Judged(300, TRUE, TRUE)>>

NoScore == [combo |-> 0, accuracy |-> 0, bonus |-> 0, factors |-> <<>>]

(* LegacyScoreSimulatorInner::unrolled_recursion: a combo factor is noted  *)
(* before the combo grows.                                                 *)
Judge(s, j) ==
  [s EXCEPT !.combo    = IF j.increase THEN @ + 1 ELSE @,
            !.accuracy = IF j.bonus THEN @ ELSE @ + j.score,
            !.bonus    = IF j.bonus THEN @ + j.score ELSE @,
            !.factors  = IF j.multiplied
                           THEN Append(@, SaturatingSub(s.combo, 1) * (j.score \div 25))
                           ELSE @]

SimulateHit(s, h) ==
  LET js == Judgements(h)
      upTo[i \in 0 .. Len(js)] == IF i = 0 THEN s ELSE Judge(upTo[i - 1], js[i])
  IN  upTo[Len(js)]

(***************************************************************************)
(* The gradual simulator                                                   *)
(***************************************************************************)

(* `elapsed` is elapsed_curr_break, 0 for None; `next_break` is the break  *)
(* that breaks.peek() sees.                                                *)
Init ==
  /\ map \in Maps
  /\ sim = [ next_break |-> 1, elapsed |-> 0, prelim |-> 0,
             object_count |-> 0, start_time |-> 0, score |-> NoScore ]
  /\ pc = "idle"

Time == map.starts[sim.object_count + 1]

HasBreak == sim.next_break <= Len(map.breaks)
Break == map.breaks[sim.next_break]

(* simulate_next(obj) is called for the next object, if there is one.      *)
SimulateNext ==
  /\ pc = "idle"
  /\ sim.object_count < Len(map.starts)
  /\ pc' = "breaks"
  /\ UNCHANGED <<map, sim>>

(* One round of the loop in prepare_score_multiplier: a break that is over *)
(* is added up, ...                                                        *)
PassBreakOnce ==
  /\ pc = "breaks" /\ HasBreak
  /\ Break.start < Time /\ Break.end < Time
  /\ sim' = [sim EXCEPT !.elapsed = Break.end - Break.start, !.next_break = @ + 1]
  /\ UNCHANGED <<map, pc>>

PassBreakForever ==
  /\ pc = "breaks" /\ HasBreak
  /\ Break.start < Time /\ Break.end < Time
  /\ sim' = [sim EXCEPT !.prelim = Break.end - Break.start, !.elapsed = 0]
  /\ UNCHANGED <<map, pc>>

PassBreak ==
  /\ pc = "breaks" /\ HasBreak
  /\ Break.start < Time /\ Break.end < Time
  /\ sim' = [sim EXCEPT !.prelim = @ + Break.end - Break.start,
                        !.elapsed = 0,
                        !.next_break = @ + 1]
  /\ UNCHANGED <<map, pc>>

(* ... a break the object falls into is measured up to the object; the     *)
(* loop goes round again with the same break, ...                          *)
InsideBreak ==
  /\ pc = "breaks" /\ HasBreak
  /\ Break.start < Time /\ Break.end >= Time
  /\ sim' = [sim EXCEPT !.elapsed = Least(Break.end, Time) - Break.start]
  /\ UNCHANGED <<map, pc>>

(* ... and the loop ends at a break yet to come or without one. Then the   *)
(* object is counted and judged.                                           *)
Finish ==
  /\ pc = "breaks"
  /\ HasBreak => Break.start >= Time
  /\ sim' = [sim EXCEPT
              !.object_count = @ + 1,
              !.start_time = IF sim.object_count = 0 THEN Time ELSE @,
              !.score = SimulateHit(@, map.kinds[sim.object_count + 1])]
  /\ pc' = "idle"
  /\ UNCHANGED map

Next == SimulateNext \/ PassBreak \/ InsideBreak \/ Finish

Spec == Init /\ [][Next]_vars

(* simulate_next() runs to its end once called: its loop is ordinary code. *)
FairSpec == Spec /\ WF_vars(PassBreak \/ InsideBreak \/ Finish)

BreakLen == sim.prelim + sim.elapsed

(* The drain length of score_multiplier(), in milliseconds, after object k *)
GradualDrain == map.starts[sim.object_count] - sim.start_time - BreakLen

(* drain_len: the drain length in whole seconds, truncated towards zero.   *)
Seconds(ms) == IF ms >= 0 THEN ms \div 1000 ELSE -((-ms) \div 1000)

(* calculate_difficulty_peppy_stars: (difficulty + ratio) * 5 / 38 rounded *)
(* to the nearest integer, ties to even, where ratio is 8 * count / drain  *)
(* between 0 and 16 and 16 without drain.                                  *)
PeppyStars(difficulty, count, drain) ==
  IF drain < 0 THEN RoundTiesEven(difficulty * 5, 38)
  ELSE IF count >= 2 * drain THEN RoundTiesEven((difficulty + 16) * 5, 38)
  ELSE RoundTiesEven((difficulty * drain + 8 * count) * 5, 38 * drain)

GradualMultiplierBeforeCounting(difficulty) ==
  PeppyStars(difficulty, sim.object_count - 1, Seconds(GradualDrain))

GradualMultiplier(difficulty) ==
  PeppyStars(difficulty, sim.object_count, Seconds(GradualDrain))

(* All factors are multiplied and added up as floats, then cast once.      *)
GradualComboScore(difficulty) ==
  AsI32(GradualMultiplier(difficulty) * Total(sim.score.factors))

(***************************************************************************)
(* The one-shot simulator                                                  *)
(***************************************************************************)

(* How long the first n breaks are together, ...                           *)
FirstBreaks(n) == Total([i \in 1 .. n |-> map.breaks[i].end - map.breaks[i].start])

(* ... and the breaks taken while they end before time t.                  *)
RegularBreakLen(t) ==
  LET taken == {n \in 0 .. Len(map.breaks) : \A i \in 1 .. n : map.breaks[i].end < t}
  IN  FirstBreaks(Max(taken))

RegularDrain(k) ==
  map.starts[k] - map.starts[1] - RegularBreakLen(map.starts[k])

RegularScore(k) ==
  LET upTo[i \in 0 .. k] == IF i = 0 THEN NoScore ELSE SimulateHit(upTo[i - 1], map.kinds[i])
  IN  upTo[k]

(* Every factor is multiplied and cast by itself, then added to an i64.    *)
RegularMultiplier(k, difficulty) ==
  PeppyStars(difficulty, k, Seconds(RegularDrain(k)))

RegularComboScore(k, difficulty) ==
  LET factors    == RegularScore(k).factors
      multiplier == RegularMultiplier(k, difficulty)
  IN  Total([i \in 1 .. Len(factors) |-> AsI32(multiplier * factors[i])])

(* calculate_spinner_score (src/osu/utils/legacy_score.rs) does not walk   *)
(* through the half spins: it takes the full spins of a spinner and how many*)
(* of them are beyond what a bonus requires.                               *)
FullSpins(spinner) == spinner.possible \div 2

Halved(n) == IF n >= 0 THEN n \div 2 ELSE -((-n) \div 2)
BonusSpins(spinner) == Halved(spinner.possible - (spinner.required + 3))

(***************************************************************************)
(* Properties                                                              *)
(***************************************************************************)

(* An object is inside a break when it starts after the break did and not  *)
(* after its end.                                                          *)
ObjectInBreak ==
  \E i \in 1 .. Len(map.starts), b \in 1 .. Len(map.breaks) :
    map.breaks[b].start < map.starts[i] /\ map.starts[i] <= map.breaks[b].end

Counted == pc = "idle" /\ sim.object_count > 0

(* What each break covers up to time t.                                    *)
BreakTime(t) ==
  Total([i \in 1 .. Len(map.breaks) |->
           Greatest(0, Least(map.breaks[i].end, t) - map.breaks[i].start)])

BreaksAreOrdered ==
  \A b, c \in 1 .. Len(map.breaks) : b <= c => map.breaks[b].start <= map.breaks[c].start

(* The break time the simulator collects piece by piece is never more than *)
(* the time the map's breaks cover up to the current object, also when that*)
(* object lies inside a break, and all of it, once the loop ends, if the   *)
(* breaks come in order. Whatever their order, a call that has returned    *)
(* leaves the drain length that the whole list of breaks gives.            *)
DrainAgrees ==
  /\ pc = "breaks" =>
       /\ BreakLen <= BreakTime(Time)
       /\ (BreaksAreOrdered /\ (HasBreak => Break.start >= Time)) => BreakLen = BreakTime(Time)
  /\ Counted => GradualDrain = RegularDrain(sim.object_count)

JudgementsOf(spinner, score) ==
  {i \in 0 .. spinner.possible : HalfSpin(i, spinner.required + 3) = <<Bonus(score)>>}

(* As long as no cast saturates, multiplying and casting every factor by   *)
(* itself gives the combo score that casting the whole sum once gives,     *)
(* under each simulator's own multiplier. The closed form of the nested    *)
(* score knows exactly as many bonus spins as the simulation awards large  *)
(* bonuses. With an odd number of required half spins these fall on full   *)
(* spins and take the place of their small bonuses, so that every full spin*)
(* is paid once; with an even number they fall on the half spins between   *)
(* and are paid beside the small bonus of every full spin.                 *)
ScoresAgree ==
  /\ Counted => \A d \in Difficulties :
       RegularComboScore(sim.object_count, d) <= I32Max =>
         GradualComboScore(d) = RegularComboScore(sim.object_count, d)
  /\ \A i \in 1 .. Len(map.kinds) :
       LET h     == map.kinds[i]
           large == Cardinality(JudgementsOf(h, 1100))
           small == Cardinality(JudgementsOf(h, 100))
       IN  h.kind = "spinner" =>
             /\ large = Greatest(BonusSpins(h), 0)
             /\ h.required % 2 = 1 => small + large = FullSpins(h)
             /\ h.required % 2 = 0 => small = FullSpins(h)

(* On a map without objects inside breaks a call of simulate_next()        *)
(* returns.                                                                *)
SimulationReturns == (pc = "breaks" /\ ~ObjectInBreak) ~> pc = "idle"

(***************************************************************************)
(* Claims of the repository that the code does not keep                    *)
(***************************************************************************)

(* The comment at src/osu/legacy_score_simulator/gradual.rs:92 asks        *)
(* whether objects during a break need handling and says probably yes:     *)
(* then the call returns for such objects as well.                         *)
ObjectsInBreaksAreHandled == pc = "breaks" ~> pc = "idle"
=============================================================================
