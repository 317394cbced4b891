-------------------------- MODULE BeatmapAttributes --------------------------
(***************************************************************************)
(* src/model/beatmap/attributes: how the difficulty values of a map, the   *)
(* user's values, the mods and the clock rate become the attributes and    *)
(* hit windows a calculation uses. Times are in milliseconds.              *)
(***************************************************************************)
EXTENDS DifficultySettings

DefaultValue == Whole(5)

\* attribute.rs ------------------------------------------------------------

GetRaw(a) == IF a.kind = "None" THEN DefaultValue ELSE a.v

\* BeatmapAttribute::overwrite
Overwrite(a, b) == IF b.kind = "None" THEN a ELSE b

\* A mutant: a fixed value is mutated like any other.
TryMutateFixed(a, factor, most) ==
  IF a.kind = "None" THEN Attribute("Value", Least(Times(DefaultValue, factor), most))
  ELSE [a EXCEPT !.v = Least(Times(@, factor), most)]

\* BeatmapAttribute::try_mutate with the closures of apply_mods: Value and
\* Given are multiplied and capped, Fixed is left alone
TryMutate(a, factor, most) ==
  CASE a.kind = "None"  -> Attribute("Value", Least(Times(DefaultValue, factor), most))
    [] a.kind = "Fixed" -> a
    [] OTHER -> [a EXCEPT !.v = Least(Times(@, factor), most)]

\* BeatmapAttribute::try_set: only the map's value, never the user's
TrySet(a, v) == IF v # None /\ a.kind \in {"None", "Value"} THEN Attribute("Value", v) ELSE a

\* builder.rs --------------------------------------------------------------

NewBuilder == [mode |-> "osu", is_convert |-> FALSE, ar |-> Unset, cs |-> Unset, hp |-> Unset,
               od |-> Unset, mods |-> NoMods, clock_rate |-> None]

\* BeatmapAttributesBuilder::map
WithMap(b, map) ==
  [b EXCEPT !.mode = map.mode, !.is_convert = map.is_convert,
            !.ar = Attribute("Value", Clamp(map.ar, Whole(0), Whole(10))),
            !.od = Attribute("Value", Clamp(map.od, Whole(0), Whole(10))),
            !.cs = Attribute("Value", map.cs), !.hp = Attribute("Value", map.hp)]

\* BeatmapAttributesBuilder::difficulty
WithDifficulty(b, d) ==
  [b EXCEPT !.ar = Overwrite(@, d.ar), !.cs = Overwrite(@, d.cs), !.hp = Overwrite(@, d.hp),
            !.od = Overwrite(@, d.od), !.mods = d.mods, !.clock_rate = GetClockRate(d)]

\* difficulty.rs -----------------------------------------------------------

\* the values DifficultyAdjust sets; only in osu! and osu!catch AR and CS too
AdjustValues(b) ==
  LET sets(attr) == IF attr \in {"ar", "cs"} /\ b.mods.ruleset \notin {"osu", "catch"} THEN None
                    ELSE Adjusted(b.mods, attr)
  IN  [b EXCEPT !.ar = TrySet(@, sets("ar")), !.cs = TrySet(@, sets("cs")),
                !.hp = TrySet(@, sets("hp")), !.od = TrySet(@, sets("od"))]

\* Easy knows no cap: 1000 is more than any value a map or a user can give
Halve(a) == TryMutate(a, Frac(1, 2), Whole(1000))
Raise(a) == TryMutate(a, Frac(7, 5), Whole(10))
RaiseSize(a) == TryMutate(a, Frac(13, 10), Whole(10))

EasyValues(b) ==
  [b EXCEPT !.ar = Halve(@), !.cs = Halve(@), !.hp = Halve(@),
            !.od = IF b.mode = "mania" THEN @ ELSE Halve(@)]

HardRockValues(b) ==
  [b EXCEPT !.hp = Raise(@),
            !.od = IF b.mode = "mania" THEN @ ELSE Raise(@),
            !.cs = IF b.mode \in {"osu", "catch"} THEN RaiseSize(@) ELSE @,
            !.ar = IF b.mode \in {"osu", "catch"} THEN Raise(@) ELSE @]

\* BeatmapDifficulty::apply_mods: set, then adjust
ApplyMods(b) ==
  LET set == IF b.mods.kind = "Lazer" THEN AdjustValues(b) ELSE b
  IN  CASE HasMod(b.mods, "Easy") -> EasyValues(set)
        [] ~HasMod(b.mods, "Easy") /\ HasMod(b.mods, "HardRock") -> HardRockValues(set)
        [] OTHER -> set

\* ModStatus::new
ModStatus(mods) == CASE HasMod(mods, "HardRock") -> "HardRock"
                     [] ~HasMod(mods, "HardRock") /\ HasMod(mods, "Easy") -> "Easy"
                     [] OTHER -> "Neither"

\* BeatmapAttributesBuilder::build
Build(b) ==
  LET d == ApplyMods(b)
  IN  [ar |-> d.ar, cs |-> d.cs, hp |-> d.hp, od |-> d.od, mode |-> b.mode,
       is_convert |-> b.is_convert, clock_rate |-> OrElse(b.clock_rate, ClockRate(b.mods)),
       status |-> ModStatus(b.mods),
       classic |-> HasMod(b.mods, "Classic") /\ ~HasMod(b.mods, "ScoreV2")]

\* ext.rs and hit_windows.rs ------------------------------------------------

Window(min, mid, max) == [min |-> Whole(min), mid |-> Whole(mid), max |-> Whole(max)]
ArWindow     == Window(1800, 1200, 450)
OsuWindows   == [great |-> Window(80, 50, 20), ok |-> Window(140, 100, 60), meh |-> Window(200, 150, 100)]
TaikoWindows == [great |-> Window(50, 35, 20), ok |-> Window(120, 80, 50)]
ManiaWindows == [perfect |-> [min |-> Frac(224, 10), mid |-> Frac(194, 10), max |-> Frac(139, 10)],
                 great |-> Window(64, 49, 34), good |-> Window(97, 82, 67),
                 ok |-> Window(127, 112, 97), meh |-> Window(151, 136, 121)]

\* difficulty_range: linear between min, mid and max
DifficultyRange(w, d) ==
  LET x == Over(Minus(d, Whole(5)), Whole(5))
  IN  Plus(w.mid, Times(x, IF Less(Whole(5), d) THEN Minus(w.max, w.mid) ELSE Minus(w.mid, w.min)))

\* inverse_difficulty_range
InverseDifficultyRange(w, value) ==
  LET off  == Minus(value, w.mid)
      upper == Sign(off) = Sign(Minus(w.max, w.mid))
      side == IF upper THEN Minus(w.max, w.mid) ELSE Minus(w.mid, w.min)
  IN  Plus(Times(Over(off, side), Whole(5)), Whole(5))

\* a value seen through a window that is `factor` times as long
Scaled(w, v, factor) == InverseDifficultyRange(w, Times(DifficultyRange(w, v), factor))

\* mod.rs -------------------------------------------------------------------

StatusFactor(status) == CASE status = "Neither" -> Whole(1) [] status = "Easy" -> Frac(10, 14)
                          [] status = "HardRock" -> Frac(14, 10)
GreatWindow(mode) == CASE mode = "osu" -> OsuWindows.great [] mode = "taiko" -> TaikoWindows.great
                       [] mode = "mania" -> ManiaWindows.perfect

\* BeatmapAttributes::ar, ::od: the values before the clock rate; of a Fixed
\* value, the one the clock rate turns into it
Ar(a) == IF a.ar.kind = "Fixed" /\ a.mode \in {"osu", "catch"}
         THEN Scaled(ArWindow, a.ar.v, a.clock_rate) ELSE GetRaw(a.ar)
Od(a) == IF a.od.kind = "Fixed" /\ a.mode # "catch"
         THEN Scaled(GreatWindow(a.mode), a.od.v,
                     IF a.mode = "mania" THEN StatusFactor(a.status) ELSE a.clock_rate)
         ELSE GetRaw(a.od)

\* BeatmapAttributes::apply_clock_rate
ApplyClockRate(a) ==
  LET scaled(attr, w, factor) == IF attr.kind = "Fixed" THEN attr.v
                                 ELSE Scaled(w, GetRaw(attr), Over(Whole(1), factor))
  IN  [ar |-> IF a.mode \in {"osu", "catch"} THEN scaled(a.ar, ArWindow, a.clock_rate) ELSE GetRaw(a.ar),
       od |-> IF a.mode = "catch" THEN GetRaw(a.od)
              ELSE scaled(a.od, GreatWindow(a.mode),
                          IF a.mode = "mania" THEN StatusFactor(a.status) ELSE a.clock_rate),
       cs |-> GetRaw(a.cs), hp |-> GetRaw(a.hp)]

\* the approach window of hit_windows()
ArHitWindow(a) == IF a.ar.kind = "Fixed" THEN DifficultyRange(ArWindow, a.ar.v)
                  ELSE Over(DifficultyRange(ArWindow, GetRaw(a.ar)), a.clock_rate)

\* `set_difficulty` of hit_windows(): cut to whole milliseconds before the rate
OdHitWindow(a, w) ==
  LET raw == DifficultyRange(w, GetRaw(a.od))
      before == IF a.od.kind = "Fixed" THEN Times(raw, a.clock_rate) ELSE raw
  IN  Over(Minus(Whole(Floor(before)), Frac(1, 2)), a.clock_rate)

\* the mania windows of hit_windows(), which know no clock rate
ManiaHitWindow(a, name) ==
  LET od      == GetRaw(a.od)
      narrow  == RoundTiesEven(od) > 4
      convert == [great |-> IF narrow THEN 34 ELSE 47, good |-> IF narrow THEN 67 ELSE 77,
                  ok |-> 97, meh |-> 121]
      least   == [great |-> 34, good |-> 67, ok |-> 97, meh |-> 121]
      inverted == Clamp(Minus(Whole(10), od), Whole(0), Whole(10))
      length  == CASE ~a.classic -> Floor(DifficultyRange(ManiaWindows[name], od))
                   [] a.classic /\ name = "perfect" -> 16
                   [] a.classic /\ name # "perfect" /\ a.is_convert -> convert[name]
                   [] OTHER -> Floor(Plus(Whole(least[name]), Times(Whole(3), inverted)))
  IN  Plus(Whole(length), Frac(1, 2))

\* BeatmapAttributes::hit_windows
HitWindows(a) ==
  LET od(windows) == [name \in DOMAIN windows |-> OdHitWindow(a, windows[name])]
  IN  CASE a.mode = "osu"   -> [ar |-> ArHitWindow(a), od |-> od(OsuWindows)]
        [] a.mode = "taiko" -> [ar |-> None, od |-> od(TaikoWindows)]
        [] a.mode = "catch" -> [ar |-> ArHitWindow(a), od |-> << >>]
        [] a.mode = "mania" -> [ar |-> None, od |-> [name \in DOMAIN ManiaWindows |-> ManiaHitWindow(a, name)]]
=============================================================================
