-------------------------- MODULE PerformanceBuilder --------------------------
(***************************************************************************)
(* The life of a performance calculator (src/any/performance/mod.rs and    *)
(* src/{osu,taiko,catch,mania}/performance/mod.rs): created from a map or  *)
(* from attributes, given options one call at a time, possibly moved to    *)
(* another mode, asked for a score state, and finally calculated.          *)
(*                                                                         *)
(*   perf      the calculator: its mode, its map or attributes, its        *)
(*             difficulty settings and its fields                          *)
(*   generic   it is a `Performance`; otherwise the calculator of a mode   *)
(*   made      how it came to be: "Performance" or the calculator of a     *)
(*             mode, which may hold a map of any mode                      *)
(*   given     what the user last gave for every option (the ghost the     *)
(*             properties compare the fields with)                         *)
(*   returned  what the last call answered                                 *)
(***************************************************************************)
EXTENDS BeatmapAttributes

(*************************************************************************)
(* Which option of the mode-generic `Performance` reaches which field of *)
(* the performance calculator of each mode, and which fields of an       *)
(* osu!standard calculator the calculators of the other modes take over  *)
(* (TryFrom<OsuPerformance>).                                            *)
(*************************************************************************)

Modes == {"osu", "taiko", "catch", "mania"}

Same(names) == [n \in names |-> n]

\* these names become others, those stay the same
Renamed(others, names) ==
  [n \in DOMAIN others \cup names |-> IF n \in DOMAIN others THEN others[n] ELSE n]

HitOptions == {"large_tick_hits", "small_tick_hits", "slider_end_hits", "n_geki", "n_katu",
               "n300", "n100", "n50", "misses"}
ScoreOptions == HitOptions \cup {"combo", "legacy_total_score"}
Options == ScoreOptions \cup {"accuracy", "hitresult_priority", "hitresult_generator"}

\* the fields a calculator has a setter for, mode by mode
OsuFields   == {"combo", "hitresult_priority", "hitresult_generator", "large_tick_hits",
                "small_tick_hits", "slider_end_hits", "n300", "n100", "n50", "misses",
                "legacy_total_score", "accuracy"}
TaikoFields == {"combo", "hitresult_priority", "hitresult_generator", "n300", "n100", "misses", "accuracy"}
CatchFields == {"combo", "fruits", "droplets", "tiny_droplets", "tiny_droplet_misses", "misses",
                "hitresult_generator", "accuracy"}
ManiaFields == {"accuracy", "hitresult_priority", "hitresult_generator", "n320", "n300", "n200",
                "n100", "n50", "misses"}

\* the settings a calculator passes on to its Difficulty, mode by mode
CommonSettings == {"mods", "passed_objects", "clock_rate", "hp", "od"}
OsuSettings   == CommonSettings \cup {"ar", "cs", "lazer"}
TaikoSettings == CommonSettings
CatchSettings == CommonSettings \cup {"ar", "cs", "hardrock_offsets"}
ManiaSettings == CommonSettings \cup {"lazer"}

\* what the setters of Performance forward to; an option outside the domain is
\* ignored in that mode
FieldOf(mode) ==
  CASE mode = "osu"   -> Same(Options \ {"n_geki", "n_katu"})
    [] mode = "taiko" -> Same(TaikoFields)
    [] mode = "catch" -> Renamed([n300 |-> "fruits", n100 |-> "droplets", n50 |-> "tiny_droplets",
                                  n_katu |-> "tiny_droplet_misses"],
                                 {"misses", "combo", "accuracy", "hitresult_generator"})
    [] mode = "mania" -> Renamed([n_geki |-> "n320", n_katu |-> "n200"],
                                 {"n300", "n100", "n50", "misses", "accuracy",
                                  "hitresult_priority", "hitresult_generator"})
Takes(mode) == DOMAIN FieldOf(mode)

ForwardedSettings(mode) ==
  CommonSettings
    \cup (IF mode \in {"osu", "catch"} THEN {"ar", "cs"} ELSE {})
    \cup (IF mode = "catch" THEN {"hardrock_offsets"} ELSE {})
    \cup (IF mode \in {"osu", "mania"} THEN {"lazer"} ELSE {})
SettingsOf(mode) == CASE mode = "osu" -> OsuSettings [] mode = "taiko" -> TaikoSettings
                      [] mode = "catch" -> CatchSettings [] mode = "mania" -> ManiaSettings

\* what a setter stores
Stored(option, input) == IF option = "accuracy" THEN Clamp(input, Whole(0), Whole(100)) ELSE input

\* the fields of a calculator that nothing was set on: from_map_or_attrs
OsuNew   == [f \in OsuFields |-> IF f = "hitresult_priority" THEN "BestCase" ELSE None]
TaikoNew == [f \in TaikoFields |-> IF f = "hitresult_priority" THEN "BestCase" ELSE None]
CatchNew == [f \in CatchFields |-> None]
ManiaNew == [f \in ManiaFields |-> IF f = "hitresult_priority" THEN "BestCase" ELSE None]
NewFields(mode) == CASE mode = "osu" -> OsuNew [] mode = "taiko" -> TaikoNew
                     [] mode = "catch" -> CatchNew [] mode = "mania" -> ManiaNew

\* A mutant: the tiny droplets are left behind.
CatchForgetsTinyDroplets ==
  Renamed([fruits |-> "n300", droplets |-> "n100"], {"combo", "accuracy", "misses"})

\* TryFrom<OsuPerformance>: the field of the osu! calculator each field of the
\* new one is taken from; the others start anew
TaikoTakesOver == Same({"combo", "accuracy", "n300", "n100", "misses", "hitresult_priority"})
CatchTakesOver == Renamed([fruits |-> "n300", droplets |-> "n100", tiny_droplets |-> "n50"],
                          {"combo", "accuracy", "misses"})
ManiaTakesOver == Same({"n300", "n100", "n50", "misses", "accuracy", "hitresult_priority"})
TakesOver(mode) == CASE mode = "taiko" -> TaikoTakesOver [] mode = "catch" -> CatchTakesOver
                     [] mode = "mania" -> ManiaTakesOver

TakeOver(fields, mode) ==
  [f \in DOMAIN NewFields(mode) |->
     IF f \in DOMAIN TakesOver(mode) THEN fields[TakesOver(mode)[f]] ELSE NewFields(mode)[f]]

\* A mutant: mania's geki and katu are swapped.
FromScoreStateSwapped(mode) ==
  CASE mode = "osu"   -> Same(ScoreOptions \ {"n_geki", "n_katu"})
    [] mode = "taiko" -> Same({"combo", "n300", "n100", "misses"})
    [] mode = "catch" -> Renamed([fruits |-> "n300", droplets |-> "n100", tiny_droplets |-> "n50",
                                  tiny_droplet_misses |-> "n_katu"], {"combo", "misses"})
    [] mode = "mania" -> Renamed([n320 |-> "n_katu", n200 |-> "n_geki"],
                                 {"n300", "n100", "n50", "misses"})

\* From<ScoreState> for the score states of the modes: what each of their
\* numbers is taken from
FromScoreState(mode) ==
  CASE mode = "osu"   -> Same(ScoreOptions \ {"n_geki", "n_katu"})
    [] mode = "taiko" -> Same({"combo", "n300", "n100", "misses"})
    [] mode = "catch" -> Renamed([fruits |-> "n300", droplets |-> "n100", tiny_droplets |-> "n50",
                                  tiny_droplet_misses |-> "n_katu"], {"combo", "misses"})
    [] mode = "mania" -> Renamed([n320 |-> "n_geki", n200 |-> "n_katu"],
                                 {"n300", "n100", "n50", "misses"})

\* the fields the setters `state` and `hitresults` of a mode overwrite
OsuState   == {"combo", "legacy_total_score", "large_tick_hits", "small_tick_hits",
               "slider_end_hits", "n300", "n100", "n50", "misses"}
TaikoState == {"combo", "n300", "n100", "misses"}
CatchState == {"combo", "fruits", "droplets", "tiny_droplets", "tiny_droplet_misses", "misses"}
ManiaState == {"n320", "n300", "n200", "n100", "n50", "misses"}
StateOf(mode) == CASE mode = "osu" -> OsuState [] mode = "taiko" -> TaikoState
                   [] mode = "catch" -> CatchState [] mode = "mania" -> ManiaState
WithState(fields, mode, state) ==
  [f \in DOMAIN fields |->
     IF f \in StateOf(mode) THEN state[FromScoreState(mode)[f]] ELSE fields[f]]

\* From<OsuScoreState> for ScoreState and its siblings: a number the mode does
\* not have is 0
ToScoreState(mode) ==
  CASE mode = "osu"   -> Same(OsuState)
    [] mode = "taiko" -> Same(TaikoState)
    [] mode = "catch" -> Renamed([n300 |-> "fruits", n100 |-> "droplets", n50 |-> "tiny_droplets",
                                  n_katu |-> "tiny_droplet_misses"], {"combo", "misses"})
    [] mode = "mania" -> Renamed([n_geki |-> "n320", n_katu |-> "n200"],
                                 {"n300", "n100", "n50", "misses"})
ToState(fields, mode) ==
  [o \in ScoreOptions |->
     CASE o \in DOMAIN ToScoreState(mode) -> fields[ToScoreState(mode)[o]]
       [] o \notin DOMAIN ToScoreState(mode) /\ o = "legacy_total_score" -> None
       [] OTHER -> 0]

\* ScoreState::total_hits
TotalHits(state, mode) ==
  state["n300"] + state["n100"] + state["misses"]
    + (IF mode # "taiko" THEN state["n50"] ELSE 0)
    + (IF mode \in {"catch", "mania"} THEN state["n_katu"] ELSE 0)
    + (IF mode = "mania" THEN state["n_geki"] ELSE 0)

\* OsuScoreState::total_hits and its siblings, on the fields of the mode
FieldHits(fields, mode) ==
  CASE mode = "osu"   -> fields["n300"] + fields["n100"] + fields["n50"] + fields["misses"]
    [] mode = "taiko" -> fields["n300"] + fields["n100"] + fields["misses"]
    [] mode = "catch" -> fields["fruits"] + fields["droplets"] + fields["tiny_droplets"]
                           + fields["tiny_droplet_misses"] + fields["misses"]
    [] mode = "mania" -> fields["n320"] + fields["n300"] + fields["n200"] + fields["n100"]
                           + fields["n50"] + fields["misses"]

(*************************************************************************)
(* The calculator                                                        *)
(*************************************************************************)

CONSTANTS
  Maps,        \* the maps: [mode, is_convert, suspicious, ar, cs, hp, od]
  Inputs,      \* for every option, the arguments of its setter
  States,      \* the score states given through `state`
  Settings,    \* the Difficulty values given through `difficulty`
  MaxCombo,    \* the combo of the map
  MaxCalls     \* bound on the calls after the creation

ASSUME MapsAssumption ==
  Maps \subseteq [mode : Modes, is_convert : BOOLEAN, suspicious : BOOLEAN,
                  ar : Fraction, cs : Fraction, hp : Fraction, od : Fraction]

\* hit results are u32, and there always are mods
ASSUME InputsAssumption ==
  /\ \A o \in HitOptions : Inputs[o] \subseteq Nat
  /\ None \notin Inputs["mods"]
ASSUME StatesAssumption == \A state \in States : \A o \in HitOptions : state[o] \in Nat
ASSUME SettingsAssumption == \A d \in Settings : IsDifficulty(d)
ASSUME NoneAssumption == None # NoMods

VARIABLES perf, generic, made, given, calls, returned
vars == <<perf, generic, made, given, calls, returned>>

SettingNames == DOMAIN NewDifficulty
NothingGiven ==
  [x \in Options \cup SettingNames |-> IF x \in Options THEN None ELSE NewDifficulty[x]]
Silent == [kind |-> "self"]

MapContent(map) == [kind |-> "Map", map |-> map]
AttrsContent(mode, settings) == [kind |-> "Attrs", mode |-> mode, settings |-> settings]
HoldsMap == perf.content.kind = "Map"

\* from_map_or_attrs: nothing set
FromMapOrAttrs(mode, content) ==
  [mode |-> mode, content |-> content, difficulty |-> NewDifficulty, fields |-> NewFields(mode)]

Contents == {MapContent(map) : map \in Maps} \cup {AttrsContent(m, NewDifficulty) : m \in Modes}
ModeOf(content) == IF content.kind = "Map" THEN content.map.mode ELSE content.mode

Init ==
  /\ given = NothingGiven /\ calls = 0 /\ returned = Silent
  /\ \/ \E content \in Contents :               \* Performance::new
          /\ generic = TRUE /\ made = "Performance"
          /\ perf = FromMapOrAttrs(ModeOf(content), content)
     \/ \E mode \in Modes : \E content \in Contents :   \* OsuPerformance::new, ...
          /\ content.kind = "Attrs" => content.mode = mode
          /\ generic = FALSE /\ made = "mode"
          /\ perf = FromMapOrAttrs(mode, content)

\* a call on a calculator that was neither consumed nor left by a panic
Call(answer) == /\ returned.kind \notin {"attributes", "error", "panic"}
                /\ calls < MaxCalls
                /\ calls' = calls + 1
                /\ returned' = answer

\* ------------------------------------------------------------------ options

\* the setters of hit results, combo, accuracy, priority and generator
SetOption(o) ==
  /\ Call(Silent)
  /\ \E input \in Inputs[o] :
       IF o \in Takes(perf.mode)
       THEN /\ perf' = [perf EXCEPT !.fields[FieldOf(perf.mode)[o]] = Stored(o, input)]
            /\ given' = [given EXCEPT ![o] = Stored(o, input)]
       ELSE UNCHANGED <<perf, given>>
  /\ UNCHANGED <<generic, made>>

\* the setters that are passed on to the Difficulty
SetSetting(s) ==
  /\ Call(Silent)
  /\ \E input \in Inputs[s] :
       IF s \in SettingsOf(perf.mode) /\ (generic => s \in ForwardedSettings(perf.mode))
       THEN /\ perf' = [perf EXCEPT !.difficulty = SetDifficulty(@, s, input)]
            /\ given' = [given EXCEPT ![s] = SettingOf(s, input)]
       ELSE UNCHANGED <<perf, given>>
  /\ UNCHANGED <<generic, made>>

\* `difficulty`: all settings at once, here through their inspection
UseDifficulty ==
  /\ Call(Silent)
  /\ \E d \in Settings \cup {perf.difficulty} :
       /\ perf' = [perf EXCEPT !.difficulty = IntoDifficulty(Inspect(d))]
       /\ given' = [x \in DOMAIN given |-> IF x \in SettingNames THEN d[x] ELSE given[x]]
  /\ UNCHANGED <<generic, made>>

\* `state`: every hit result and the combo at once
UseState ==
  /\ Call(Silent)
  /\ \E s \in States :
       /\ perf' = [perf EXCEPT !.fields = WithState(@, perf.mode, s)]
       /\ given' = [x \in DOMAIN given |->
                      IF x \in ScoreOptions \cap Takes(perf.mode) THEN s[x] ELSE given[x]]
  /\ UNCHANGED <<generic, made>>

\* --------------------------------------------------------------------- mode

\* Beatmap::convert_ref, convert_mut
CanConvert(map, mode) == map.mode = mode \/ (map.mode = "osu" /\ ~map.is_convert)
ConvertError(map) == IF map.is_convert THEN "AlreadyConverted" ELSE "Convert"
Converted(map, mode, mods) ==
  IF map.mode = mode THEN map
  ELSE [map EXCEPT !.mode = mode, !.is_convert = TRUE,
                   !.cs = IF mode = "mania" THEN Whole(OrElse(ManiaKeys(mods), 7)) ELSE @]

\* OsuPerformance::try_convert_map and TryFrom<OsuPerformance>
CanMove(mode) == HoldsMap /\ CanConvert(perf.content.map, mode)
MovedTo(mode) ==
  [mode |-> mode, difficulty |-> perf.difficulty, fields |-> TakeOver(perf.fields, mode),
   content |-> MapContent(Converted(perf.content.map, mode, perf.difficulty.mods))]

\* what the new calculator has no field for is forgotten
Forget(mode) ==
  [x \in DOMAIN given |->
     IF x \in Options /\ (x \notin Takes(mode) \/ x = "hitresult_generator") THEN None ELSE given[x]]

\* OsuPerformance::try_mode, mode_or_ignore: a move to osu! does nothing
OsuMoves(mode) == mode # "osu" /\ CanMove(mode)
OsuAccepts(mode) == mode = "osu" \/ CanMove(mode)

\* Performance::try_mode, mode_or_ignore: only an osu! calculator moves. The
\* answer of an osu! calculator is a Performance, unless it is the error.
TryMode(mode, ignore) ==
  LET moves   == perf.mode = "osu" /\ OsuMoves(mode)
      accepts == IF perf.mode = "osu" THEN OsuAccepts(mode) ELSE mode = perf.mode
  IN  /\ generic \/ perf.mode = "osu"
      /\ Call([kind |-> IF accepts \/ ignore THEN "Ok" ELSE "Err"])
      /\ perf' = IF moves THEN MovedTo(mode) ELSE perf
      /\ given' = IF moves THEN Forget(mode) ELSE given
      /\ generic' = (generic \/ accepts \/ ignore)
      /\ UNCHANGED made

\* -------------------------------------------------------------- calculation

\* MapOrAttrs::insert_attrs and checked_insert_attrs: the map is converted to
\* the calculator's mode, then judged, then replaced by its attributes
InsertError(checked) ==
  CASE HoldsMap /\ ~CanConvert(perf.content.map, perf.mode) -> ConvertError(perf.content.map)
    [] HoldsMap /\ CanConvert(perf.content.map, perf.mode) /\ checked /\ perf.content.map.suspicious
         -> "Suspicion"
    [] OTHER -> None
\* A mutant: attributes are calculated anew every time.
InsertedAgain == AttrsContent(perf.mode, perf.difficulty)
Inserted == IF HoldsMap THEN AttrsContent(perf.mode, perf.difficulty) ELSE perf.content

\* the unsafe fn generate_state: the generator's hit results and the combo are
\* stored as if the user had given them. HitResults.tla models the generators;
\* here misses stay what they are and every other field gets a number of its own.
FieldNames == <<"n320", "n300", "n200", "n100", "n50", "fruits", "droplets", "tiny_droplets",
                "tiny_droplet_misses", "large_tick_hits", "small_tick_hits", "slider_end_hits">>
Generated(f) == IF f = "misses" THEN OrElse(perf.fields["misses"], 0)
                ELSE 100 + CHOOSE i \in DOMAIN FieldNames : FieldNames[i] = f
HitFields == {FieldOf(perf.mode)[o] : o \in HitOptions \cap Takes(perf.mode)}
GeneratedCombo ==
  LET missed == OrElse(perf.fields["misses"], 0)
      most   == IF missed > MaxCombo THEN 0 ELSE MaxCombo - missed
      combo  == OrElse(perf.fields["combo"], most)
  IN  IF perf.mode # "catch" /\ combo > most THEN most ELSE combo
GeneratedFields ==
  [f \in DOMAIN perf.fields |->
     CASE f \in HitFields -> Generated(f) [] f = "combo" -> GeneratedCombo [] OTHER -> perf.fields[f]]

StoreState ==
  /\ perf' = [perf EXCEPT !.content = Inserted, !.fields = GeneratedFields]
  /\ given' = [x \in DOMAIN given |-> IF x \in ScoreOptions \ {"legacy_total_score"}
                                      THEN None ELSE given[x]]

\* generate_state, checked_generate_state: an error of a `Performance` that is
\* no suspicion is a panic ("no conversion required")
GenerateState(checked) ==
  LET error == InsertError(checked)
  IN  IF error = None
      THEN /\ Call([kind |-> "state", state |-> ToState(GeneratedFields, perf.mode)])
           /\ StoreState
           /\ UNCHANGED <<generic, made>>
      ELSE /\ Call([kind |-> IF generic /\ error # "Suspicion" THEN "panic" ELSE "Err"])
           /\ UNCHANGED <<perf, given, generic, made>>

\* calculate, checked_calculate: the same, and the calculator is consumed
Calculate(checked) ==
  LET error == InsertError(checked)
  IN  /\ Call([kind |-> IF error = None THEN "attributes"
                        ELSE IF generic /\ error # "Suspicion" THEN "panic" ELSE "error"])
      /\ IF error = None THEN StoreState ELSE UNCHANGED <<perf, given>>
      /\ UNCHANGED <<generic, made>>

Next ==
  \/ \E o \in Options : SetOption(o)
  \/ \E s \in SettingNames : SetSetting(s)
  \/ UseDifficulty
  \/ UseState
  \/ \E mode \in Modes, ignore \in BOOLEAN : TryMode(mode, ignore)
  \/ \E checked \in BOOLEAN : GenerateState(checked)
  \/ \E checked \in BOOLEAN : Calculate(checked)

Spec == Init /\ [][Next]_vars

-----------------------------------------------------------------------------
\* the attributes the difficulty calculation of the held map starts from
CanBuild == HoldsMap /\ CanConvert(perf.content.map, perf.mode)
AttributesWith(mods) ==
  LET map == Converted(perf.content.map, perf.mode, mods)
  IN  Build(WithDifficulty(WithMap(NewBuilder, map), [perf.difficulty EXCEPT !.mods = mods]))
BuiltAttributes == AttributesWith(perf.difficulty.mods)

\* Whatever was set before and after, and whichever mode the calculator moved
\* to, every option the calculator has a field for holds what the user gave it
\* last (any/performance/mod.rs, the setters of the modes and their TryFrom).
OptionsReachTheCalculator ==
  /\ \A o \in Takes(perf.mode) :
       given[o] # None => perf.fields[FieldOf(perf.mode)[o]] = given[o]
  /\ \A s \in SettingNames : perf.difficulty[s] = given[s]

\* The three places that know the approach time and the great hit window agree:
\* hit_windows(), the getters before the clock rate, and the attributes after it
\* (attributes/mod.rs, ext.rs).
WindowsMatchAttributes ==
  CanBuild =>
    LET a     == BuiltAttributes
        final == ApplyClockRate(a)
        cut(t) == Minus(Whole(Floor(t)), Frac(1, 2))
    IN  /\ a.mode \in {"osu", "catch"} =>
             /\ HitWindows(a).ar = DifficultyRange(ArWindow, final.ar)
             /\ HitWindows(a).ar = Over(DifficultyRange(ArWindow, Ar(a)), a.clock_rate)
        /\ a.mode \in {"osu", "taiko"} =>
             HitWindows(a).od["great"] =
               Over(cut(DifficultyRange(GreatWindow(a.mode), Od(a))), a.clock_rate)
        /\ a.mode = "mania" => Scaled(ManiaWindows.perfect, Od(a), Over(Whole(1), StatusFactor(a.status))) = final.od

\* A value the user fixed is the value the calculation sees, whatever the map,
\* the mods and the clock rate; one he gave wins over DifficultyAdjust
\* (attributes/attribute.rs, difficulty.rs), and the hit windows follow.
UserValuesWin ==
  /\ WindowsMatchAttributes
  /\ CanBuild =>
    LET final    == ApplyClockRate(BuiltAttributes)
        mods     == perf.difficulty.mods
        plain    == [mods EXCEPT !.set = [m \in DOMAIN mods.set \ {"DifficultyAdjust"} |-> mods.set[m]]]
        unadjusted == ApplyClockRate(AttributesWith(plain))
    IN  \A attr \in MapAttributes :
          /\ given[attr].kind = "Fixed" => final[attr] = given[attr].v
          /\ given[attr].kind = "Given" => final[attr] = unadjusted[attr]

\* What a calculation does with the reflection: osu! turns everything that way,
\* osu!catch only looks whether it is horizontal (catch/convert.rs:78).
Reflected(mods) == CASE perf.mode = "osu"   -> Reflection(mods)
                     [] perf.mode = "catch" -> Reflection(mods) = "Horizontal"
                     [] OTHER               -> "not asked"

\* The mods a collection for one ruleset can hold (rosu_mods), and those that
\* exclude each other: two that set the rate, or Hard Rock and Mirror.
KeyMods == {LazerKeys[n] : n \in DOMAIN LazerKeys}
KnownMods == Bits \cup Asked \cup KeyMods \cup {"Daycore", "DifficultyAdjust"}
RulesetMods(ruleset) ==
  KnownMods \ ( (IF ruleset = "osu" THEN {} ELSE {"TouchDevice", "SpunOut", "Autopilot", "Blinds", "Traceable"})
           \cup (IF ruleset = "mania" THEN {"Relax"} ELSE {"Invert", "HoldOff"} \cup KeyMods)
           \cup (IF ruleset = "taiko" THEN {"Mirror"} ELSE {}))
GoTogether(names) ==
  /\ Cardinality(names \cap {"DoubleTime", "Nightcore", "HalfTime", "Daycore"}) <= 1
  /\ ~({"HardRock", "Mirror"} \subseteq names)

\* Mods without settings mean the same in every representation that can express
\* them: the same answer to every question about a mod, the same clock rate, hard
\* rock offsets, keys, slider head accuracy and attributes (model/mods.rs). This is
\* asked of the mods of every calculator and, as long as it has no other settings
\* but lazer, of these with any one mod added that goes with them. Two questions
\* differ: dt(), which nothing calls, as the bits of Nightcore hold the one of
\* DoubleTime; and the reflection of Mirror, which Lazer mods of osu! and osu!catch
\* make horizontal and which bits and acronyms are deaf to.
ModKindsAgree ==
  LET held  == DOMAIN perf.difficulty.mods.set
      lazer == GetLazer(perf.difficulty)
      kinds(names) == {FromIntermode(names), IntermodeMods(names)}
                        \cup (IF names \subseteq Bits THEN {LegacyMods(names)} ELSE {})
                        \cup (IF names \subseteq RulesetMods(perf.mode)
                             THEN {LazerMods(perf.mode, [m \in names |-> None])} ELSE {})
      unset == perf.difficulty = [NewDifficulty EXCEPT !.mods  = perf.difficulty.mods,
                                                       !.lazer = perf.difficulty.lazer]
  IN  \A names \in {held} \cup (IF unset THEN {held \cup {m} : m \in KnownMods} ELSE {}) :
        GoTogether(names) =>
          LET acronyms   == IntermodeMods(names)
              attributes == AttributesWith(acronyms)
              straight   == Reflected(IntermodeMods(names \ {"Mirror"}))
          IN  \A mods \in kinds(names) :
                /\ \A m \in Asked \ {"DoubleTime"} : HasMod(mods, m) <=> HasMod(acronyms, m)
                /\ ClockRate(mods) = ClockRate(acronyms)
                /\ HardrockOffsets(mods) = HardrockOffsets(acronyms)
                /\ ManiaKeys(mods) = ManiaKeys(acronyms)
                /\ perf.mode = "osu" => NoSliderHeadAcc(mods, lazer) = NoSliderHeadAcc(acronyms, lazer)
                /\ Reflected(mods) = IF mods.kind # "Lazer" \/ "Mirror" \notin names THEN straight
                                     ELSE CASE perf.mode = "osu"   -> "Horizontal"
                                            [] perf.mode = "catch" -> TRUE
                                            [] OTHER               -> straight
                /\ CanBuild => AttributesWith(mods) = attributes

\* A generated state fed back through `state` changes nothing, and the generic
\* state counts as many hits as that of the mode (any/score_state.rs).
StatesRoundTrip ==
  returned.kind = "state" =>
    /\ WithState(perf.fields, perf.mode, returned.state) = perf.fields
    /\ TotalHits(returned.state, perf.mode) = FieldHits(perf.fields, perf.mode)

\* No calculator ever panics ("unreachable", any/performance/mod.rs:71).
NeverPanics == returned.kind # "panic"

\* Attributes are never exchanged for a map or for other attributes, a map only
\* changes by a conversion from osu!, and a call that fails leaves the
\* calculator as it was (MapOrAttrs, try_convert_map). A calculator that was made
\* through `Performance` is always one of its map's mode, so that the "no
\* conversion required" panics are out of its reach.
ContentOnlyMovesForward ==
  [][/\ made' = "Performance" => returned'.kind # "panic"
     /\ perf.content.kind = "Attrs" => perf'.content = perf.content
     /\ HoldsMap /\ HoldsMap' /\ perf'.content # perf.content =>
          perf.content.map.mode = "osu" /\ ~perf.content.map.is_convert /\ perf'.mode # "osu"
     /\ returned'.kind \in {"Err", "error", "panic"} => perf' = perf
     /\ HoldsMap /\ ~HoldsMap' => perf'.content.settings = perf'.difficulty]_vars
=============================================================================
