--------------------------- MODULE CatchHitResults ---------------------------
(***************************************************************************)
(* The hit result generators of osu!catch,                                 *)
(* src/catch/performance/hitresult_generator. There are two pools: the     *)
(* fruits and droplets, each caught or missed, and the tiny droplets, each *)
(* caught or one of the tiny droplet misses.                               *)
(*                                                                         *)
(* Hit results are <<fruits, droplets, tiny_droplets, tiny_droplet_misses  *)
(* >>; an Inspect record c has                                             *)
(*   given   a number or None for each of the four                         *)
(*   n       how many fruits, droplets and tiny droplets the map has       *)
(*   misses  inspect.misses(), at most n[1] + n[2]                         *)
(*   acc     the accuracy, in steps of 1 / AccSteps, or None               *)
(***************************************************************************)
EXTENDS Arithmetic, Sequences

CONSTANTS
  None,     (* Option::None                                                *)
  AccSteps  (* Accuracies are multiples of 1 / AccSteps.                   *)

Pool(c) == c.n[1] + c.n[2]
TotalObjects(c) == Pool(c) + c.n[3]
Catchable(c) == Pool(c) - c.misses

Given(c, k) == c.given[k] # None

(* A pool that falls short of its total is filled up, one that exceeds it  *)
(* is cut down, the second number first in both cases.                     *)
BalanceFruits(c, fruits, droplets) ==
  LET sum        == fruits + droplets + c.misses
      more       == Least(droplets + (Pool(c) - sum), c.n[2])
      fewer      == SaturatingSub(droplets, sum - Pool(c))
  IN  CASE sum < Pool(c) ->
             <<Least(fruits + SaturatingSub(Pool(c), fruits + more + c.misses), c.n[1]), more>>
        [] sum = Pool(c) -> <<fruits, droplets>>
        [] sum > Pool(c) ->
             <<SaturatingSub(fruits, SaturatingSub(fruits + fewer + c.misses, Pool(c))), fewer>>

BalanceTiny(c, tiny, tinyMisses) ==
  LET sum    == tiny + tinyMisses
      more   == Least(tiny + (c.n[3] - sum), c.n[3])
      fewer  == SaturatingSub(tinyMisses, sum - c.n[3])
  IN  CASE sum < c.n[3] -> <<more, SaturatingSub(c.n[3], more)>>
        [] sum = c.n[3] -> <<tiny, tinyMisses>>
        [] sum > c.n[3] -> <<SaturatingSub(tiny, SaturatingSub(tiny + fewer, c.n[3])), fewer>>

(***************************************************************************)
(* IgnoreAccuracy                                                          *)
(***************************************************************************)

(* First what was given, then the missing ones from what is left: the      *)
(* fruits before the droplets, the tiny droplets before their misses.      *)
CatchIgnoreAccuracy(c) ==
  LET fruits0   == IF Given(c, 1) THEN Least(Least(c.given[1], c.n[1]), Catchable(c)) ELSE 0
      droplets0 == IF Given(c, 2) THEN Least(Least(c.given[2], c.n[2]), Catchable(c) - fruits0) ELSE 0
      tiny0     == IF Given(c, 3) THEN Least(c.given[3], c.n[3]) ELSE 0
      misses0   == IF Given(c, 4) THEN Least(c.given[4], c.n[3] - tiny0) ELSE 0
      fruits    == IF Given(c, 1) THEN fruits0
                   ELSE Least(Catchable(c) - droplets0, c.n[1])
      droplets  == IF Given(c, 2) THEN droplets0
                   ELSE Least(Catchable(c) - fruits, c.n[2])
      tiny      == IF Given(c, 3) THEN tiny0 ELSE c.n[3] - misses0
      misses    == IF Given(c, 4) THEN misses0 ELSE c.n[3] - tiny
  IN  BalanceFruits(c, fruits, droplets) \o BalanceTiny(c, tiny, misses)

(***************************************************************************)
(* Fast                                                                    *)
(***************************************************************************)
CatchesNeeded(c) == RoundTiesEven(c.acc * TotalObjects(c), AccSteps)

(* The given numbers, each clamped; tiny droplet misses are not.           *)
Provided(c, k) == IF Given(c, k) THEN Least(c.given[k], c.n[k]) ELSE 0
ProvidedTinyMisses(c) == IF Given(c, 4) THEN c.given[4] ELSE 0
ClampedFruits(c) == Least(Provided(c, 1), Catchable(c))
ClampedDroplets(c) == Least(Provided(c, 2), Catchable(c) - ClampedFruits(c))

(* One number missing: it follows from its pool, or, for the tiny          *)
(* droplets, from the accuracy.                                            *)
OneMissing(c) ==
  LET fruits   == IF Given(c, 1) THEN ClampedFruits(c)
                  ELSE Least(SaturatingSub(Pool(c), ClampedDroplets(c) + c.misses), c.n[1])
      droplets == IF Given(c, 2) THEN ClampedDroplets(c)
                  ELSE Least(SaturatingSub(Pool(c), ClampedFruits(c) + c.misses), c.n[2])
      tiny     == IF Given(c, 3) THEN Provided(c, 3)
                  ELSE Least(SaturatingSub(CatchesNeeded(c), ClampedFruits(c) + ClampedDroplets(c)), c.n[3])
      misses   == IF Given(c, 4) THEN ProvidedTinyMisses(c)
                  ELSE SaturatingSub(c.n[3], Provided(c, 3))
  IN  <<fruits, droplets, tiny, misses>>

(* Two or more missing: the catches that the accuracy needs are spent on   *)
(* the missing fruits, droplets and tiny droplets in this order; `spare`   *)
(* is what is left of them.                                                *)
ThenTiny(c, fruits, droplets, spare) ==
  LET tiny   == IF Given(c, 3) THEN Provided(c, 3) ELSE Least(spare, c.n[3])
      misses == IF Given(c, 4) THEN ProvidedTinyMisses(c) ELSE SaturatingSub(c.n[3], tiny)
  IN  <<fruits, droplets, tiny, misses>>

(* A given number of fruits that leaves the pool short of objects is       *)
(* raised.                                                                 *)
ThenRaise(c, fruits, droplets, spare) ==
  LET short  == SaturatingSub(Pool(c), fruits + droplets + c.misses)
      raised == IF Given(c, 1) /\ ~Given(c, 2) THEN Least(c.n[1], fruits + short) ELSE fruits
  IN  ThenTiny(c, raised, droplets, SaturatingSub(spare, raised - fruits))

ThenDroplets(c, fruits, spare) ==
  LET droplets ==
        CASE Given(c, 2) -> ClampedDroplets(c)
          [] ~Given(c, 2) /\ ~Given(c, 1) -> Least(spare, Least(c.n[2], Catchable(c) - fruits))
          [] ~Given(c, 2) /\ Given(c, 1) ->
               Least(SaturatingSub(Pool(c), fruits + c.misses), c.n[2])
  IN  ThenRaise(c, fruits, droplets, IF Given(c, 2) THEN spare ELSE SaturatingSub(spare, droplets))

FruitsFirst(c, spare) ==
  LET caught == Least(spare, Least(c.n[1], Catchable(c) - ClampedDroplets(c)))
  IN  IF Given(c, 1) THEN ThenDroplets(c, ClampedFruits(c), spare)
      ELSE ThenDroplets(c, caught, spare - caught)

ManyMissing(c) ==
  FruitsFirst(c, SaturatingSub(CatchesNeeded(c),
                               ClampedFruits(c) + ClampedDroplets(c) + Provided(c, 3)))

CatchFast(c) ==
  LET missing == {k \in 1 .. 4 : ~Given(c, k)}
  IN  CASE TotalObjects(c) = 0 -> <<0, 0, 0, 0>>
        [] TotalObjects(c) > 0 /\ missing = {} ->
             BalanceFruits(c, ClampedFruits(c), ClampedDroplets(c))
               \o BalanceTiny(c, Provided(c, 3), ProvidedTinyMisses(c))
        [] TotalObjects(c) > 0 /\ (\E k \in 1 .. 4 : missing = {k}) -> OneMissing(c)
        [] OTHER -> ManyMissing(c)
=============================================================================
