----------------------------- MODULE HitResults ------------------------------
(***************************************************************************)
(* Generating hit results, the part that osu!standard, osu!taiko and       *)
(* osu!mania share: src/{osu,taiko,mania}/performance/hitresult_generator. *)
(*                                                                         *)
(* Each mode has a list of judgements, best first: 300, 100, 50 in         *)
(* osu!standard, 300, 100 in osu!taiko and 320, 300, 200, 100, 50 in       *)
(* osu!mania. Hit results are a sequence with a number for each of them.   *)
(* What a generator is asked for, its Inspect struct, is a record i:       *)
(*   given      a number or None for each judgement                        *)
(*   total      inspect.total_hits()                                       *)
(*   misses     inspect.misses(), at most total                            *)
(*   acc        the accuracy, in steps of 1 / AccSteps, or None            *)
(*   best_case  whether the hitresult_priority is BestCase                 *)
(*   weight     what each judgement is worth in the accuracy               *)
(*   unit       by how much the Fast generator divides the weights         *)
(*   tick_score, tick_max   what ticks and slider ends add to the accuracy *)
(* Accuracies are exact fractions here and doubles in the code.            *)
(***************************************************************************)
EXTENDS Arithmetic, Sequences, FiniteSetsExt, Functions

CONSTANTS
  None,     (* Option::None                                                *)
  AccSteps  (* Accuracies are multiples of 1 / AccSteps.                   *)

ASSUME AccStepsAssumption == AccSteps \in Nat \ {0}
ASSUME NoneAssumption == None \notin Nat

Remain(i) == i.total - i.misses
Judgements(i) == DOMAIN i.given
Lowest(i) == Len(i.given)
Missing(i) == {k \in Judgements(i) : i.given[k] = None}

ScoreOf(i, hits) == SumFunction([k \in Judgements(i) |-> i.weight[k] * hits[k]])

(* accuracy() is (score + tick_score) / AccMax; the accuracy asked for     *)
(* corresponds to a score of acc * AccMax / AccSteps.                      *)
AccMax(i) == i.weight[1] * i.total + i.tick_max

(* How far hit results are from that accuracy, times AccMax * AccSteps.    *)
Distance(i, hits) ==
  LET d == i.acc * AccMax(i) - AccSteps * (ScoreOf(i, hits) + i.tick_score)
  IN  IF d >= 0 THEN d ELSE -d

(* The first of several numbered distances that none is less than, and of  *)
(* several numbered hit results the first one that no other is closer than.*)
FirstLeast(distance) ==
  LET least == Min({distance[x] : x \in DOMAIN distance})
  IN  Min({x \in DOMAIN distance : distance[x] = least})

FirstClosest(i, hits) == hits[FirstLeast([x \in DOMAIN hits |-> Distance(i, hits[x])])]

(***************************************************************************)
(* Priorities                                                              *)
(***************************************************************************)

(* The judgements in the order in which the priority prefers them. (The    *)
(* order is its own inverse.)                                              *)
BestFirst(i) == [k \in Judgements(i) |-> k]
ByPriority(i) == IF i.best_case THEN BestFirst(i) ELSE [k \in Judgements(i) |-> Lowest(i) + 1 - k]

PreferredSwapped(i, ks) == IF i.best_case THEN Max(ks) ELSE Min(ks)
Preferred(i, ks) == IF i.best_case THEN Min(ks) ELSE Max(ks)

Add(hits, k, n) == [hits EXCEPT ![k] = @ + n]

(* The numbers given, in some order, each clamped to what is left; nothing *)
(* for the missing ones. (Clamped to all there is, they add up to more.)   *)
ClampAlone(i, order) ==
  [k \in Judgements(i) |-> IF i.given[k] = None THEN 0 ELSE Least(i.given[k], Remain(i))]

Clamp(i, order) ==
  LET used[n \in 0 .. Lowest(i)] ==
        IF n = 0 THEN 0
        ELSE used[n - 1] +
          (IF i.given[order[n]] = None THEN 0
           ELSE Least(i.given[order[n]], Remain(i) - used[n - 1]))
  IN  [k \in Judgements(i) |-> used[order[k]] - used[order[k] - 1]]

Left(i, hits) == Remain(i) - SumFunction(hits)

(***************************************************************************)
(* IgnoreAccuracy                                                          *)
(***************************************************************************)

(* What is left goes to the preferred missing judgement, or to the         *)
(* preferred one if none is missing.                                       *)
IgnoreAccuracy(i) ==
  LET hits == Clamp(i, ByPriority(i))
      rest == IF Missing(i) = {} THEN Judgements(i) ELSE Missing(i)
  IN  Add(hits, Preferred(i, rest), Left(i, hits))

(***************************************************************************)
(* Fast                                                                    *)
(***************************************************************************)

(* How much more than the lowest judgement a judgement is worth.           *)
Increase(i, k) == (i.weight[k] - i.weight[Lowest(i)]) \div i.unit

(* What is left to gain over the lowest judgement: unsigned, so that an    *)
(* accuracy below what the lowest judgement gives must not wrap around.    *)
ToGainWrapping(target, baseline) == IF target >= baseline THEN target - baseline ELSE 10 ^ 6
ToGain(target, baseline) == SaturatingSub(target, baseline)

(* The room for judgement k after `used` hits for the ones before it: some *)
(* is kept for the given ones that follow.                                 *)
Room(i, prelim, used, k) == Remain(i) - used - SumFunctionOnSet(prelim, k + 1 .. Lowest(i))

(* With two or more missing, everything is the lowest judgement at first;  *)
(* what is left to gain is spent greedily from the best judgement on.      *)
Spend(i, prelim) ==
  LET target   == RoundTiesEven(
                    Greatest(0, i.acc * AccMax(i) - AccSteps * (ScoreOf(i, prelim) + i.tick_score)),
                    AccSteps * i.unit)
      baseline == (i.weight[Lowest(i)] \div i.unit) * Left(i, prelim)
      step[k \in 0 .. Lowest(i)] ==
        IF k = 0 THEN [used |-> 0, delta |-> ToGain(target, baseline)]
        ELSE LET before == step[k - 1]
                 take   == Least(Room(i, prelim, before.used, k),
                             IF i.given[k] # None THEN i.given[k]
                             ELSE IF k = Lowest(i) THEN Remain(i)
                             ELSE before.delta \div Increase(i, k))
             IN  [ used  |-> before.used + take,
                   delta |-> IF i.given[k] # None THEN before.delta
                             ELSE SaturatingSub(before.delta, Increase(i, k) * take) ]
  IN  [k \in Judgements(i) |-> step[k].used - step[k - 1].used]

Greedy(i) == Spend(i, Clamp(i, BestFirst(i)))

(* With one missing it is what the others leave.                           *)
Completed(i) ==
  LET hits == Clamp(i, BestFirst(i))
  IN  IF Missing(i) = {} THEN hits ELSE Add(hits, Preferred(i, Missing(i)), Left(i, hits))

(* Hits still left at the end go to the preferred missing judgement, or    *)
(* else to the one the priority likes least.                               *)
LastResort(i) == IF i.best_case THEN Lowest(i) ELSE 1

FillUp(i, hits) ==
  Add(hits, IF Missing(i) = {} THEN LastResort(i) ELSE Preferred(i, Missing(i)), Left(i, hits))

(***************************************************************************)
(* The generators of osu!taiko                                             *)
(***************************************************************************)
TaikoFast(i) == IF Cardinality(Missing(i)) <= 1 THEN Completed(i) ELSE Greedy(i)

(* Solve for judgements hi and lo, the other ones being fixed: the two     *)
(* integers around the exact number of hi.                                 *)
SolveRoundingDown(i, fixed, hi, lo) ==
  LET rest == Left(i, fixed)
      all  == Add(fixed, lo, rest)
      n    == i.acc * AccMax(i) - AccSteps * (ScoreOf(i, all) + i.tick_score)
      d    == AccSteps * (i.weight[hi] - i.weight[lo])
  IN  Add(Add(all, lo, -Least(rest, Greatest(0, Floor(n, d)))), hi, Least(rest, Greatest(0, Floor(n, d))))

Solve(i, fixed, hi, lo) ==
  LET rest     == Left(i, fixed)
      all      == Add(fixed, lo, rest)
      n        == i.acc * AccMax(i) - AccSteps * (ScoreOf(i, all) + i.tick_score)
      d        == AccSteps * (i.weight[hi] - i.weight[lo])
      clamp(x) == Least(rest, Greatest(0, x))
  IN  FirstClosest(i, [x \in clamp(Floor(n, d)) .. clamp(Ceil(n, d)) |->
                         Add(Add(all, lo, -x), hi, x)])

TaikoClosest(i) ==
  IF Cardinality(Missing(i)) <= 1 THEN Completed(i) ELSE Solve(i, <<0, 0>>, 1, 2)

(***************************************************************************)
(* The generators of osu!standard                                          *)
(***************************************************************************)
OsuFast(i) ==
  LET hits == IF Cardinality(Missing(i)) <= 1 THEN Completed(i) ELSE Greedy(i)
  IN  FillUp(i, hits)

(* With all three missing, every number of 300s between two bounds is      *)
(* tried. The bounds may cross: then nothing is tried, and everything is   *)
(* a 50.                                                                   *)
OsuClosestOfAll(i) ==
  LET target == i.acc * AccMax(i) - AccSteps * i.tick_score
      min300 == Greatest(0, Floor(target - AccSteps * 50 * Remain(i), AccSteps * 250))
      max300 == Least(Remain(i), 1 + Greatest(0, Ceil(target, AccSteps * 300)))
  IN  IF min300 > max300 THEN <<0, 0, Remain(i)>>
      ELSE FirstClosest(i, [x \in min300 .. max300 |-> Solve(i, <<x, 0, 0>>, 2, 3)])

OsuClosest(i) ==
  LET fixed == Clamp(i, BestFirst(i))
      hi    == Min(Missing(i))
      lo    == Max(Missing(i))
  IN  CASE Cardinality(Missing(i)) <= 1 -> Completed(i)
        [] Cardinality(Missing(i)) = 2  -> Solve(i, fixed, hi, lo)
        [] OTHER                        -> OsuClosestOfAll(i)

(*************************************************************************)
(* osu!mania, src/mania/performance/hitresult_generator. The judgements 320, *)
(* 300, 200, 100 and 50 weigh 61 (60 for classic scores), 60, 40, 20 and 10. *)
(*************************************************************************)

ManiaFast(i) ==
  CASE Missing(i) = {}              -> Clamp(i, BestFirst(i))
    [] Cardinality(Missing(i)) = 1  -> Completed(i)
    [] OTHER                        -> FillUp(i, Greedy(i))

(***************************************************************************)
(* Closest                                                                 *)
(***************************************************************************)

(* The accuracy asked for as a whole score: a rounded one, which is what   *)
(* the search gets closest to.                                             *)
TargetScore(i) == RoundTiesEven(i.acc * AccMax(i), AccSteps)

Abs(n) == IF n >= 0 THEN n ELSE -n

Given(i, ks) == SumFunction([k \in ks |-> IF i.given[k] = None THEN 0 ELSE i.given[k]])

FirstNearest(i, hits) ==
  hits[FirstLeast([j \in DOMAIN hits |-> Abs(ScoreOf(i, hits[j]) - TargetScore(i))])]

(* Two missing: the given numbers are taken as they are, the other two     *)
(* share what is left. More given than there are hits is an underflow.     *)
Overgiven(i) ==
  Remain(i) > 0 /\ Cardinality(Missing(i)) = 2 /\ Given(i, Judgements(i)) > Remain(i)

OptimizeTwoMissing(i) ==
  LET hi    == Min(Missing(i))
      lo    == Max(Missing(i))
      rest  == Remain(i) - Given(i, Judgements(i))
      fixed == [k \in Judgements(i) |-> IF i.given[k] = None THEN 0 ELSE i.given[k]]
      n     == TargetScore(i) - ScoreOf(i, fixed) - i.weight[lo] * rest
      d     == i.weight[hi] - i.weight[lo]
      clamp(x) == Least(rest, Greatest(0, x))
      tried == IF d = 0 THEN <<rest \div 2>>
               ELSE <<0, clamp(Floor(n, d)), clamp(Ceil(n, d)), rest>>
  IN  FirstNearest(i, [j \in DOMAIN tried |-> Add(Add(fixed, hi, tried[j]), lo, rest - tried[j])])

(* The last three judgements (200, 100, 50) with `remain` hits left for    *)
(* them and `target` of the score; x of the better and remain - x of the   *)
(* worse of two.                                                           *)
Split(remain, target, hi, lo) ==
  LET x == Least(remain, Greatest(0, RoundTiesEven(target - lo * remain, hi - lo)))
  IN  <<x, remain - x>>

(* All three missing: as for osu!standard, bounds that cross leave every   *)
(* hit a 50.                                                               *)
LastThree(remain, target) ==
  LET min200 == Greatest(0, Floor(target - 20 * remain, 20))
      max200 == Least(remain, Greatest(0, Ceil(target, 40)) + 1)
      hits(x) == LET s == Split(SaturatingSub(remain, x), target - 40 * x, 20, 10)
                 IN  <<x, s[1], s[2]>>
      dist    == [x \in min200 .. max200 |->
                   Abs(40 * hits(x)[1] + 20 * hits(x)[2] + 10 * hits(x)[3] - target)]
  IN  IF min200 > max200 THEN <<0, 0, remain>> ELSE hits(FirstLeast(dist))

OptimizeLastThree(n200, n100, n50, remain, target) ==
  LET two == IF n200 # None THEN Split(SaturatingSub(remain, n200), target - 40 * n200, 20, 10)
             ELSE IF n100 # None THEN Split(SaturatingSub(remain, n100), target - 20 * n100, 40, 10)
             ELSE Split(SaturatingSub(remain, n50), target - 10 * n50, 40, 20)
  IN  CASE n200 # None /\ n100 # None /\ n50 # None -> <<n200, n100, n50>>
        [] n200 # None /\ n100 # None /\ n50 = None -> <<n200, n100, SaturatingSub(remain, n200 + n100)>>
        [] n200 # None /\ n100 = None /\ n50 # None -> <<n200, SaturatingSub(remain, n200 + n50), n50>>
        [] n200 = None /\ n100 # None /\ n50 # None -> <<SaturatingSub(remain, n100 + n50), n100, n50>>
        [] n200 # None /\ n100 = None /\ n50 = None -> <<n200, two[1], two[2]>>
        [] n200 = None /\ n100 # None /\ n50 = None -> <<two[1], n100, two[2]>>
        [] n200 = None /\ n100 = None /\ n50 # None -> <<two[1], two[2], n50>>
        [] OTHER                                    -> LastThree(remain, target)

(* The numbers tried for 320s or 300s: the given one or those between two  *)
(* bounds, with room kept for what is given of the last three.             *)
Tried(given, room, target, remain, weight) ==
  IF given # None THEN {Least(given, room)}
  ELSE Least(room, Greatest(0, Floor(target - 10 * remain, weight[1])))
         .. Least(room, Greatest(0, Ceil(target, weight[2])) + 1)

NearestPair(i, hits) ==
  LET pairs == DOMAIN hits
      dist  == [p \in pairs |-> Abs(ScoreOf(i, hits[p]) - TargetScore(i))]
      least == Min({dist[p] : p \in pairs})
      best  == {p \in pairs : dist[p] = least}
  IN  hits[CHOOSE p \in best : \A q \in best : p[1] < q[1] \/ (p[1] = q[1] /\ p[2] <= q[2])]

(* Three or more missing: every pair of a 320s and a 300s number, in       *)
(* order, the first of the closest ones. Without room for what is given    *)
(* there is no such pair, and the given numbers stay as they are.          *)
OptimizeThreePlusMissing(i) ==
  LET kept == Given(i, 3 .. 5)
      room(remain) == SaturatingSub(remain, kept)
      first == Tried(i.given[1], room(Remain(i)), TargetScore(i), Remain(i),
                     <<i.weight[1] - 10, i.weight[1]>>)
      second(x) == Tried(i.given[2], room(Remain(i) - x), TargetScore(i) - i.weight[1] * x,
                         Remain(i) - x, <<50, 60>>)
      pairs == {p \in first \X (0 .. Remain(i)) : p[2] \in second(p[1])}
      hits  == [p \in pairs |-> <<p[1], p[2]>> \o
                   OptimizeLastThree(i.given[3], i.given[4], i.given[5], Remain(i) - p[1] - p[2],
                                     TargetScore(i) - i.weight[1] * p[1] - 60 * p[2])]
      asGiven == [k \in 1 .. 5 |-> IF i.given[k] # None THEN i.given[k]
                                   ELSE IF k = 5 THEN Remain(i) ELSE 0]
  IN  IF Remain(i) < kept THEN asGiven ELSE NearestPair(i, hits)

ManiaClosest(i) ==
  CASE Remain(i) = 0                -> <<0, 0, 0, 0, 0>>
    [] Remain(i) > 0 /\ Cardinality(Missing(i)) <= 1 -> Completed(i)
    [] Remain(i) > 0 /\ Cardinality(Missing(i)) = 2  -> OptimizeTwoMissing(i)
    [] OTHER                        -> OptimizeThreePlusMissing(i)
=============================================================================
