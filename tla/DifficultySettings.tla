------------------------- MODULE DifficultySettings -------------------------
(*************************************************************************)
(* The settings every calculation takes.                                 *)
(*                                                                       *)
(* First src/model/mods.rs: the mods of a play in their three            *)
(* representations. Legacy is a bit set, Intermode a set of acronyms and *)
(* Lazer a collection of mods of one ruleset, each with its settings. A  *)
(* value is [kind, ruleset, set]: `set` maps every contained mod to its  *)
(* settings, which only Lazer mods have; None is an absent setting.      *)
(*                                                                       *)
(* Then src/any/difficulty/mod.rs: `Difficulty`, built by consuming      *)
(* setters, and its round trip through `InspectDifficulty`               *)
(* (any/difficulty/inspect.rs). An attribute of the map                  *)
(* (model/beatmap/attributes/attribute.rs) is Unset, or a value that is  *)
(* taken from the map ("Value"), given by the user before mods ("Given") *)
(* or given as the final one ("Fixed").                                  *)
(*************************************************************************)
EXTENDS Rational, FiniteSets

CONSTANT None

\* the tables of mania_keys, one for each representation: the key mods in the
\* order they are asked for, each with as many keys as its place
LazerKeys     == <<"1K", "2K", "3K", "4K", "5K", "6K", "7K", "8K", "9K", "10K">>
LegacyKeys    == <<"1K", "2K", "3K", "4K", "5K", "6K", "7K", "8K", "9K">>

\* A mutant: acronyms know no more key mods than bits do.
IntermodeKeysOfBits == LegacyKeys
IntermodeKeys == <<"1K", "2K", "3K", "4K", "5K", "6K", "7K", "8K", "9K", "10K">>

\* the mods that have a bit of their own (GameModsLegacy of rosu_mods)
Bits == {"NoFail", "Easy", "TouchDevice", "Hidden", "HardRock", "DoubleTime",
         "Relax", "HalfTime", "Nightcore", "Flashlight", "SpunOut", "Autopilot",
         "ScoreV2", "Mirror"} \cup {LegacyKeys[n] : n \in DOMAIN LegacyKeys}

\* the questions of impl_has_mod!, and those that bits answer too ("+", not "-")
Asked == {"NoFail", "Easy", "TouchDevice", "DoubleTime", "Hidden", "HardRock", "Relax",
          "Flashlight", "SpunOut", "Autopilot", "ScoreV2", "Blinds", "Classic",
          "Invert", "HoldOff", "Traceable"}
AskedOfBits == Asked \ {"Blinds", "Classic", "Invert", "HoldOff", "Traceable"}

LegacyMods(names)    == [kind |-> "Legacy", ruleset |-> None, set |-> [m \in names |-> None]]
IntermodeMods(names) == [kind |-> "Intermode", ruleset |-> None, set |-> [m \in names |-> None]]
LazerMods(ruleset, set) == [kind |-> "Lazer", ruleset |-> ruleset, set |-> set]
NoMods == LegacyMods({})

\* the functions impl_has_mod! makes: nf(), ez(), hr(), cl(), sv2() ...
HasMod(mods, m) == m \in DOMAIN mods.set /\ (mods.kind = "Legacy" => m \in AskedOfBits)

Setting(mods, m) == IF mods.kind = "Lazer" /\ m \in DOMAIN mods.set THEN mods.set[m] ELSE None
OrElse(option, default) == IF option = None THEN default ELSE option

\* the rate a rate-adjusting mod has unless it is set otherwise
DefaultRate(m) == IF m \in {"DoubleTime", "Nightcore"} THEN Frac(3, 2) ELSE Frac(3, 4)

\* the held ones among the mods clock_rate looks for, and among those that
\* legacy_clock_rate of rosu_mods does
RateMods(mods) ==
  DOMAIN mods.set \cap (IF mods.kind = "Lazer" THEN {"DoubleTime", "HalfTime", "Nightcore", "Daycore"}
                        ELSE {"DoubleTime", "Nightcore", "HalfTime", "Daycore"})

\* GameMods::clock_rate
ClockRate(mods) ==
  IF RateMods(mods) = {} THEN Whole(1)
  ELSE LET m == CHOOSE r \in RateMods(mods) : TRUE
           speed == OrElse(Setting(mods, m), DefaultRate(m))
       IN  IF mods.kind # "Lazer" \/ m \in {"DoubleTime", "HalfTime"} THEN speed
           ELSE Times(DefaultRate(m), Over(speed, DefaultRate(m)))

DifficultyAdjust(mods) == Setting(mods, "DifficultyAdjust")
Adjusted(mods, attr) == IF DifficultyAdjust(mods) = None THEN None ELSE DifficultyAdjust(mods)[attr]

\* GameMods::hardrock_offsets
HardrockOffsets(mods) ==
  OrElse(IF mods.ruleset = "catch" THEN Adjusted(mods, "hardrock_offsets") ELSE None,
         HasMod(mods, "HardRock"))

\* GameMods::no_slider_head_acc
NoSliderHeadAcc(mods, lazer) ==
  CASE mods.kind = "Lazer" -> IF HasMod(mods, "Classic") /\ mods.ruleset = "osu"
                              THEN OrElse(mods.set["Classic"], TRUE) ELSE ~lazer
    [] mods.kind = "Intermode" -> HasMod(mods, "Classic") \/ ~lazer
    [] mods.kind = "Legacy" -> ~lazer

\* GameMods::reflection
Reflection(mods) ==
  IF mods.kind # "Lazer" THEN IF HasMod(mods, "HardRock") THEN "Vertical" ELSE "None"
  ELSE CASE HasMod(mods, "HardRock") /\ mods.ruleset = "osu" -> "Vertical"
         [] "Mirror" \in DOMAIN mods.set /\ mods.ruleset = "osu" -> OrElse(Setting(mods, "Mirror"), "Horizontal")
         [] "Mirror" \in DOMAIN mods.set /\ mods.ruleset = "catch" -> "Horizontal"
         [] OTHER -> "None"

\* GameMods::mania_keys: the first mod of the table that is held
ManiaKeys(mods) ==
  LET table == CASE mods.kind = "Lazer"     -> LazerKeys
                 [] mods.kind = "Intermode" -> IntermodeKeys
                 [] mods.kind = "Legacy"    -> LegacyKeys
      held  == {n \in DOMAIN table : table[n] \in DOMAIN mods.set}
  IN  IF held = {} THEN None ELSE CHOOSE n \in held : \A k \in held : n <= k

\* scroll_speed, like random_seed, attraction_strength, deflate_start_scale and
\* hd_only_fade_approach_circles the setting of one Lazer mod
ScrollSpeed(mods) == IF mods.ruleset = "taiko" THEN Adjusted(mods, "scroll_speed") ELSE None

\* From<&GameModsIntermode>: the bits, if every mod has one
FromIntermode(names) == IF names \subseteq Bits THEN LegacyMods(names) ELSE IntermodeMods(names)

(*************************************************************************)
(* Difficulty                                                            *)
(*************************************************************************)

Unset == [kind |-> "None"]
Attribute(kind, v) == [kind |-> kind, v |-> v]
MapAttributes == {"ar", "cs", "hp", "od"}

\* Difficulty::new
NewDifficulty == [mods |-> NoMods, passed_objects |-> None, clock_rate |-> None,
                  ar |-> Unset, cs |-> Unset, hp |-> Unset, od |-> Unset,
                  hardrock_offsets |-> None, lazer |-> None]

\* ar, cs, hp, od: clamped to -20 .. 20
UserAttribute(v, fixed) ==
  Attribute(IF fixed THEN "Fixed" ELSE "Given", Clamp(v, Whole(-20), Whole(20)))

\* clock_rate: clamped to 0.01 .. 100
UserClockRate(rate) == Clamp(rate, <<1, 100>>, Whole(100))

\* the setter of one setting; `input` is its argument, [v, fixed] for the four
\* attributes
SettingOf(name, input) ==
  CASE name \in MapAttributes -> UserAttribute(input.v, input.fixed)
    [] name = "clock_rate" -> UserClockRate(input)
    [] OTHER -> input
SetDifficulty(d, name, input) == [d EXCEPT ![name] = SettingOf(name, input)]

\* the getters
GetClockRate(d) == OrElse(d.clock_rate, ClockRate(d.mods))
GetLazer(d) == OrElse(d.lazer, TRUE)

\* Difficulty::inspect: the fields as they are
Inspect(d) == d

\* InspectDifficulty::into_difficulty: every field that is set goes through its
\* setter again; a Value is no user's value
IntoDifficulty(i) ==
  LET given(f) == IF f \in MapAttributes THEN i[f].kind \in {"Given", "Fixed"} ELSE i[f] # None
      input(f) == IF f \in MapAttributes THEN [v |-> i[f].v, fixed |-> i[f].kind = "Fixed"] ELSE i[f]
  IN  [f \in DOMAIN NewDifficulty |->
         IF given(f) THEN SettingOf(f, input(f)) ELSE NewDifficulty[f]]

\* A Difficulty that setters can build: no other values than theirs
IsDifficulty(d) ==
  /\ d = [s \in DOMAIN NewDifficulty |-> d[s]]
  /\ d.mods # None
  /\ d.clock_rate # None => d.clock_rate = UserClockRate(d.clock_rate)
  /\ \A attr \in MapAttributes :
       d[attr] = Unset \/ \E fixed \in BOOLEAN : d[attr] = UserAttribute(d[attr].v, fixed)
=============================================================================
