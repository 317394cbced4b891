------------------------------ MODULE Suspicion ------------------------------
(***************************************************************************)
(* Whether a map is too suspicious to be calculated, TooSuspicious::new in *)
(* src/model/beatmap/suspicious.rs. The code's limits are far above what   *)
(* can be checked, so a record of limits is a parameter: objects,          *)
(* taikoObjects, length, second, tenSeconds, repeats, pos and cutoff.      *)
(***************************************************************************)
EXTENDS Arithmetic, Sequences, FiniteSetsExt

NotSuspicious == "none"

TooManyObjects(mode, objects, limit) ==
  Len(objects) > IF mode = "taiko" THEN limit.taikoObjects ELSE limit.objects
TooLong(objects, limit) ==
  Len(objects) >= 2 /\ objects[Len(objects)].time - objects[1].time > limit.length

(* too_dense: `hands` times as many objects are allowed to follow object i.*)
TooDenseAtTheEnd(objects, i, limit, hands) ==
  LET Follows(per, time) ==
        i + per * hands = Len(objects) /\ objects[i + per * hands].time - objects[i].time < time
  IN  Follows(limit.second, 1000) \/ Follows(limit.tenSeconds, 10000)
TooDense(objects, i, limit, hands) ==
  LET Follows(per, time) ==
        i + per * hands <= Len(objects) /\ objects[i + per * hands].time - objects[i].time < time
  IN  Follows(limit.second, 1000) \/ Follows(limit.tenSeconds, 10000)

Hands(mode, cs) ==
  CASE mode = "taiko" -> 2
    [] mode = "mania" -> Greatest(1, cs \div 2)
    [] OTHER          -> 1

(* suspicious_slider: both is a red flag, either one is counted.           *)
Repeating(h, limit) == h.kind = "slider" /\ h.repeats > limit.repeats
FarAway(h, limit) == h.kind = "slider" /\ Greatest(h.x, -h.x) > limit.pos

RedFlag(h, limit) == Repeating(h, limit) /\ FarAway(h, limit)

(* SliderState::eval                                                       *)
EvalSliders(objects, limit) ==
  LET far == {i \in DOMAIN objects : FarAway(objects[i], limit) /\ ~Repeating(objects[i], limit)}
      repeating == {i \in DOMAIN objects : Repeating(objects[i], limit) /\ ~FarAway(objects[i], limit)}
  IN  IF Cardinality(far) > limit.cutoff THEN "SliderPositions"
      ELSE IF Cardinality(repeating) > limit.cutoff THEN "SliderRepeats"
      ELSE NotSuspicious

(* The checks of a mode, object by object: density in all but osu!catch,   *)
(* sliders in osu!standard and osu!catch.                                  *)
CheckMode(mode, objects, cs, limit) ==
  LET dense == {i \in DOMAIN objects : mode # "catch" /\ TooDense(objects, i, limit, Hands(mode, cs))}
      flags == {i \in DOMAIN objects : mode \in {"osu", "catch"} /\ RedFlag(objects[i], limit)}
  IN  IF dense \cup flags # {}
      THEN IF Min(dense \cup flags) \in dense THEN "Density" ELSE "RedFlag"
      ELSE IF mode \in {"osu", "catch"} THEN EvalSliders(objects, limit)
      ELSE NotSuspicious

TooSuspicious(mode, objects, cs, limit) ==
  IF TooManyObjects(mode, objects, limit) THEN "ObjectCount"
  ELSE IF TooLong(objects, limit) THEN "Length"
  ELSE CheckMode(mode, objects, cs, limit)
=============================================================================
