---------------------- MODULE PerformanceBuilderProofs ----------------------
(***************************************************************************)
(* Proofs about the performance calculators (PerformanceBuilder), for      *)
(* every set of maps, inputs, score states and settings: what the caller   *)
(* gave reaches the calculator, attributes replace a map for good and are  *)
(* those of the calculator's mode, and a generated state given back        *)
(* changes nothing.                                                        *)
(***************************************************************************)
EXTENDS PerformanceBuilder, TLAPS

(***************************************************************************)
(* Settings                                                                *)
(***************************************************************************)

(* Clamping twice is clamping once.                                        *)
LEMMA ClampTwice ==
  ASSUME NEW v, NEW low, NEW high, ~Less(high, low)
  PROVE  Clamp(Clamp(v, low, high), low, high) = Clamp(v, low, high)
<1> DEFINE less(a, b) == Less(a, b)
<1>1. /\ Clamp(v, low, high) = IF less(high, IF less(v, low) THEN low ELSE v) THEN high
                               ELSE IF less(v, low) THEN low ELSE v
      /\ \A x : Clamp(x, low, high) = IF less(high, IF less(x, low) THEN low ELSE x) THEN high
                                      ELSE IF less(x, low) THEN low ELSE x
  BY DEF Clamp, Least, Most
<1>2. ~less(high, low)
  OBVIOUS
<1> HIDE DEF less
<1>3. CASE Clamp(v, low, high) = high
  BY <1>1, <1>2, <1>3
<1>4. CASE Clamp(v, low, high) = low
  BY <1>1, <1>2, <1>4
<1>5. CASE Clamp(v, low, high) = v /\ ~less(v, low) /\ ~less(high, v)
  BY <1>1, <1>5
<1>6. \/ Clamp(v, low, high) = high \/ Clamp(v, low, high) = low
      \/ Clamp(v, low, high) = v /\ ~less(v, low) /\ ~less(high, v)
  BY <1>1
<1> QED BY <1>3, <1>4, <1>5, <1>6

(* A value that went through its setter goes through it unchanged.         *)
LEMMA SettersAreIdempotent ==
  /\ \A v, fixed : UserAttribute(UserAttribute(v, fixed).v, fixed) = UserAttribute(v, fixed)
  /\ \A rate : UserClockRate(UserClockRate(rate)) = UserClockRate(rate)
<1>1. ~Less(Whole(20), Whole(-20)) /\ ~Less(Whole(100), <<1, 100>>)
  BY DEF Less, Whole
<1>2. \A v : Clamp(Clamp(v, Whole(-20), Whole(20)), Whole(-20), Whole(20))
               = Clamp(v, Whole(-20), Whole(20))
  BY <1>1, ClampTwice
<1>3. \A v : Clamp(Clamp(v, <<1, 100>>, Whole(100)), <<1, 100>>, Whole(100))
               = Clamp(v, <<1, 100>>, Whole(100))
  BY <1>1, ClampTwice
<1>4. \A v, fixed : UserAttribute(v, fixed).v = Clamp(v, Whole(-20), Whole(20))
  BY DEF UserAttribute, Attribute
<1>5. ASSUME NEW v, NEW fixed
      PROVE  UserAttribute(UserAttribute(v, fixed).v, fixed) = UserAttribute(v, fixed)
  BY <1>2, <1>4 DEF UserAttribute
<1> QED BY <1>3, <1>5 DEF UserClockRate

(* `difficulty` takes the settings of another calculator as they are.      *)
LEMMA InspectionKeepsSettings ==
  ASSUME NEW d, IsDifficulty(d)
  PROVE  IntoDifficulty(Inspect(d)) = d
<1> DEFINE given_(f) == IF f \in MapAttributes THEN d[f].kind \in {"Given", "Fixed"} ELSE d[f] # None
           input(f) == IF f \in MapAttributes THEN [v |-> d[f].v, fixed |-> d[f].kind = "Fixed"]
                       ELSE d[f]
           field(f) == IF given_(f) THEN SettingOf(f, input(f)) ELSE NewDifficulty[f]
<1>1. IntoDifficulty(Inspect(d)) = [f \in SettingNames |-> field(f)]
  BY DEF IntoDifficulty, Inspect, SettingNames
<1>2. ASSUME NEW f \in MapAttributes PROVE field(f) = d[f]
  <2>1. CASE d[f] = Unset
    <3>1. ~given_(f) /\ NewDifficulty[f] = Unset
      BY <1>2, <2>1 DEF Unset, MapAttributes, NewDifficulty
    <3> QED BY <2>1, <3>1
  <2>2. ASSUME NEW fixed \in BOOLEAN, d[f] = UserAttribute(d[f].v, fixed) PROVE field(f) = d[f]
    <3>1. /\ d[f].kind = IF fixed THEN "Fixed" ELSE "Given"
      BY <2>2 DEF UserAttribute, Attribute
    <3>2. given_(f) /\ (d[f].kind = "Fixed" <=> fixed)
      BY <1>2, <3>1
    <3>3. SettingOf(f, input(f)) = UserAttribute(input(f).v, input(f).fixed)
      <4>1. \A i : SettingOf(f, i) = UserAttribute(i.v, i.fixed)
        BY <1>2 DEF SettingOf, MapAttributes
      <4> HIDE DEF input
      <4> QED BY <4>1
    <3>4. input(f).v = d[f].v /\ (input(f).fixed = (d[f].kind = "Fixed"))
      BY <1>2
    <3>5. UserAttribute(d[f].v, d[f].kind = "Fixed") = UserAttribute(d[f].v, fixed)
      BY <3>2 DEF UserAttribute
    <3> QED BY <2>2, <3>2, <3>3, <3>4, <3>5
  <2> QED BY <1>2, <2>1, <2>2 DEF IsDifficulty
<1>3. field("clock_rate") = d["clock_rate"]
  <2>1. field("clock_rate") = IF d["clock_rate"] # None THEN UserClockRate(d["clock_rate"]) ELSE None
    BY DEF MapAttributes, SettingOf, NewDifficulty
  <2> QED BY <2>1 DEF IsDifficulty
<1>4. ASSUME NEW f \in {"mods", "passed_objects", "hardrock_offsets", "lazer"}
      PROVE  field(f) = d[f]
  <2>1. f \notin MapAttributes /\ f # "clock_rate"
    BY DEF MapAttributes
  <2>2. field(f) = IF d[f] # None THEN d[f] ELSE NewDifficulty[f]
    BY <2>1 DEF SettingOf
  <2>3. f # "mods" => NewDifficulty[f] = None
    BY <1>4 DEF NewDifficulty
  <2> QED BY <2>2, <2>3 DEF IsDifficulty
<1>5. \A f \in SettingNames : field(f) = d[f]
  BY <1>2, <1>3, <1>4 DEF SettingNames, NewDifficulty, MapAttributes
<1>6. d = [f \in SettingNames |-> d[f]]
  BY DEF IsDifficulty, SettingNames
<1> QED BY <1>1, <1>5, <1>6

(* A setter leads from settings that setters can build to such settings.   *)
LEMMA SetterKeepsSettings ==
  ASSUME NEW d, IsDifficulty(d), NEW s \in SettingNames, NEW input, s = "mods" => input # None
  PROVE  IsDifficulty(SetDifficulty(d, s, input))
<1> DEFINE e == SetDifficulty(d, s, input)
           w == SettingOf(s, input)
<1>1. d = [x \in SettingNames |-> d[x]]
  BY DEF IsDifficulty, SettingNames
<1>2. e = [x \in SettingNames |-> IF x = s THEN w ELSE d[x]]
  <2>1. e = [d EXCEPT ![s] = w]
    BY DEF SetDifficulty
  <2> HIDE DEF e, w
  <2> QED BY <1>1, <2>1
<1>3. /\ s \in MapAttributes => w = UserAttribute(input.v, input.fixed)
      /\ s = "clock_rate" => w = UserClockRate(input)
      /\ s = "mods" => w = input
  BY DEF SettingOf, MapAttributes
<1> HIDE DEF e, w
<1>4. \A x \in SettingNames : e[x] = IF x = s THEN w ELSE d[x]
  BY <1>2
<1>5. {"mods", "clock_rate"} \cup MapAttributes \subseteq SettingNames
  BY DEF SettingNames, NewDifficulty, MapAttributes
<1>6. e["mods"] # None
  BY <1>3, <1>4, <1>5 DEF IsDifficulty
<1>7. e["clock_rate"] # None => e["clock_rate"] = UserClockRate(e["clock_rate"])
  BY <1>3, <1>4, <1>5, SettersAreIdempotent DEF IsDifficulty
<1>8. ASSUME NEW attr \in MapAttributes
      PROVE  e[attr] = Unset \/ \E fixed \in BOOLEAN : e[attr] = UserAttribute(e[attr].v, fixed)
  <2>1. CASE attr # s
    BY <1>4, <1>5, <2>1 DEF IsDifficulty
  <2>2. CASE attr = s
    <3>1. e[attr] = UserAttribute(input.v, input.fixed)
      BY <1>3, <1>4, <1>5, <2>2
    <3>2. PICK fixed \in BOOLEAN : UserAttribute(input.v, input.fixed) = UserAttribute(input.v, fixed)
      BY DEF UserAttribute
    <3> QED BY <3>1, <3>2, SettersAreIdempotent
  <2> QED BY <2>1, <2>2
<1> QED BY <1>2, <1>4, <1>6, <1>7, <1>8 DEF IsDifficulty, SettingNames, e

(***************************************************************************)
(* The tables of the modes                                                 *)
(***************************************************************************)

(* What the tables of the modes are, entry by entry.                       *)
LEMMA RenamedIs ==
  ASSUME NEW others, NEW names
  PROVE  /\ DOMAIN Renamed(others, names) = DOMAIN others \cup names
         /\ \A n \in DOMAIN others : Renamed(others, names)[n] = others[n]
         /\ \A n \in names \ DOMAIN others : Renamed(others, names)[n] = n
BY DEF Renamed

(* The fields of the modes' calculators that options reach.                *)
LEMMA FieldTable ==
  /\ Takes("osu") = Options \ {"n_geki", "n_katu"}
  /\ \A o \in Options \ {"n_geki", "n_katu"} : FieldOf("osu")[o] = o
  /\ Takes("taiko") = TaikoFields /\ \A o \in TaikoFields : FieldOf("taiko")[o] = o
  /\ Takes("catch") = {"n300", "n100", "n50", "n_katu", "misses", "combo",
                       "accuracy", "hitresult_generator"}
  /\ FieldOf("catch")["n300"] = "fruits" /\ FieldOf("catch")["n100"] = "droplets"
  /\ FieldOf("catch")["n50"] = "tiny_droplets"
  /\ FieldOf("catch")["n_katu"] = "tiny_droplet_misses"
  /\ \A o \in {"misses", "combo", "accuracy", "hitresult_generator"} : FieldOf("catch")[o] = o
  /\ Takes("mania") = {"n_geki", "n_katu", "n300", "n100", "n50", "misses", "accuracy",
                       "hitresult_priority", "hitresult_generator"}
  /\ FieldOf("mania")["n_geki"] = "n320" /\ FieldOf("mania")["n_katu"] = "n200"
  /\ \A o \in {"n300", "n100", "n50", "misses", "accuracy", "hitresult_priority",
               "hitresult_generator"} : FieldOf("mania")[o] = o
<1>1. /\ FieldOf("osu") = Same(Options \ {"n_geki", "n_katu"})
      /\ FieldOf("taiko") = Same(TaikoFields)
      /\ FieldOf("catch") = Renamed([n300 |-> "fruits", n100 |-> "droplets",
                                     n50 |-> "tiny_droplets", n_katu |-> "tiny_droplet_misses"],
                                    {"misses", "combo", "accuracy", "hitresult_generator"})
      /\ FieldOf("mania") = Renamed([n_geki |-> "n320", n_katu |-> "n200"],
                                    {"n300", "n100", "n50", "misses", "accuracy",
                                     "hitresult_priority", "hitresult_generator"})
  BY DEF FieldOf
<1>2. \A names : DOMAIN Same(names) = names /\ \A n \in names : Same(names)[n] = n
  BY DEF Same
<1>3. /\ Takes("osu") = Options \ {"n_geki", "n_katu"}
      /\ \A o \in Options \ {"n_geki", "n_katu"} : FieldOf("osu")[o] = o
      /\ Takes("taiko") = TaikoFields /\ \A o \in TaikoFields : FieldOf("taiko")[o] = o
  BY <1>1, <1>2 DEF Takes
<1>4. /\ Takes("catch") = {"n300", "n100", "n50", "n_katu", "misses", "combo",
                           "accuracy", "hitresult_generator"}
      /\ FieldOf("catch")["n300"] = "fruits" /\ FieldOf("catch")["n100"] = "droplets"
      /\ FieldOf("catch")["n50"] = "tiny_droplets"
      /\ FieldOf("catch")["n_katu"] = "tiny_droplet_misses"
      /\ \A o \in {"misses", "combo", "accuracy", "hitresult_generator"} : FieldOf("catch")[o] = o
  BY <1>1 DEF Takes, Renamed
<1>5. /\ Takes("mania") = {"n_geki", "n_katu", "n300", "n100", "n50", "misses", "accuracy",
                           "hitresult_priority", "hitresult_generator"}
      /\ FieldOf("mania")["n_geki"] = "n320" /\ FieldOf("mania")["n_katu"] = "n200"
      /\ \A o \in {"n300", "n100", "n50", "misses", "accuracy", "hitresult_priority",
                   "hitresult_generator"} : FieldOf("mania")[o] = o
  BY <1>1 DEF Takes, Renamed
<1> QED BY <1>3, <1>4, <1>5

(* Every option has a field of its own.                                    *)
LEMMA OptionsHaveFields ==
  ASSUME NEW mode \in Modes
  PROVE  /\ Takes(mode) \subseteq Options
         /\ \A o \in Takes(mode) : FieldOf(mode)[o] \in DOMAIN NewFields(mode)
         /\ \A o, p \in Takes(mode) : FieldOf(mode)[o] = FieldOf(mode)[p] => o = p
<1>1. /\ DOMAIN NewFields("osu") = OsuFields /\ DOMAIN NewFields("taiko") = TaikoFields
      /\ DOMAIN NewFields("catch") = CatchFields /\ DOMAIN NewFields("mania") = ManiaFields
  BY DEF NewFields, OsuNew, TaikoNew, CatchNew, ManiaNew
<1>2. CASE mode = "osu"
  BY <1>1, <1>2, FieldTable DEF OsuFields, Options, ScoreOptions, HitOptions
<1>3. CASE mode = "taiko"
  BY <1>1, <1>3, FieldTable DEF TaikoFields, Options, ScoreOptions, HitOptions
<1>4. CASE mode = "catch"
  BY <1>1, <1>4, FieldTable DEF CatchFields, Options, ScoreOptions, HitOptions
<1>5. CASE mode = "mania"
  BY <1>1, <1>5, FieldTable DEF ManiaFields, Options, ScoreOptions, HitOptions
<1> QED BY <1>2, <1>3, <1>4, <1>5 DEF Modes

(* The numbers of a score state that the setter `state` takes.             *)
LEMMA StateTable ==
  /\ \A f \in ScoreOptions \ {"n_geki", "n_katu"} : FromScoreState("osu")[f] = f
  /\ \A f \in {"combo", "n300", "n100", "misses"} : FromScoreState("taiko")[f] = f
  /\ FromScoreState("catch")["fruits"] = "n300" /\ FromScoreState("catch")["droplets"] = "n100"
  /\ FromScoreState("catch")["tiny_droplets"] = "n50"
  /\ FromScoreState("catch")["tiny_droplet_misses"] = "n_katu"
  /\ \A f \in {"combo", "misses"} : FromScoreState("catch")[f] = f
  /\ FromScoreState("mania")["n320"] = "n_geki" /\ FromScoreState("mania")["n200"] = "n_katu"
  /\ \A f \in {"n300", "n100", "n50", "misses"} : FromScoreState("mania")[f] = f
<1>1. /\ FromScoreState("osu") = Same(ScoreOptions \ {"n_geki", "n_katu"})
      /\ FromScoreState("taiko") = Same({"combo", "n300", "n100", "misses"})
      /\ FromScoreState("catch") = Renamed([fruits |-> "n300", droplets |-> "n100",
                                            tiny_droplets |-> "n50",
                                            tiny_droplet_misses |-> "n_katu"],
                                           {"combo", "misses"})
      /\ FromScoreState("mania") = Renamed([n320 |-> "n_geki", n200 |-> "n_katu"],
                                           {"n300", "n100", "n50", "misses"})
  BY DEF FromScoreState
<1>2. \A names : \A n \in names : Same(names)[n] = n
  BY DEF Same
<1> QED BY <1>1, <1>2 DEF Renamed

(* `state` gives every number to the field of its option, and touches no   *)
(* other field that an option has.                                         *)
LEMMA StatesReachFields ==
  ASSUME NEW mode \in Modes
  PROVE  /\ \A o \in ScoreOptions \cap Takes(mode) :
              /\ FieldOf(mode)[o] \in StateOf(mode)
              /\ FromScoreState(mode)[FieldOf(mode)[o]] = o
         /\ \A o \in Takes(mode) \ ScoreOptions : FieldOf(mode)[o] \notin StateOf(mode)
         /\ \A f \in StateOf(mode) : FromScoreState(mode)[f] \in ScoreOptions
<1>1. /\ StateOf("osu") = OsuState /\ StateOf("taiko") = TaikoState
      /\ StateOf("catch") = CatchState /\ StateOf("mania") = ManiaState
  BY DEF StateOf
<1>2. CASE mode = "osu"
  BY <1>1, <1>2, FieldTable, StateTable DEF OsuState, Options, ScoreOptions, HitOptions
<1>3. CASE mode = "taiko"
  BY <1>1, <1>3, FieldTable, StateTable DEF TaikoState, TaikoFields, ScoreOptions, HitOptions
<1>4. CASE mode = "catch"
  BY <1>1, <1>4, FieldTable, StateTable DEF CatchState, ScoreOptions, HitOptions
<1>5. CASE mode = "mania"
  BY <1>1, <1>5, FieldTable, StateTable DEF ManiaState, ScoreOptions, HitOptions
<1> QED BY <1>2, <1>3, <1>4, <1>5 DEF Modes

(* The fields a calculator takes over from that of osu!standard.           *)
LEMMA TakeOverTable ==
  /\ DOMAIN TakesOver("taiko") = {"combo", "accuracy", "n300", "n100", "misses",
                                  "hitresult_priority"}
  /\ \A f \in DOMAIN TakesOver("taiko") : TakesOver("taiko")[f] = f
  /\ DOMAIN TakesOver("catch") = {"fruits", "droplets", "tiny_droplets", "combo", "accuracy",
                                  "misses"}
  /\ TakesOver("catch")["fruits"] = "n300" /\ TakesOver("catch")["droplets"] = "n100"
  /\ TakesOver("catch")["tiny_droplets"] = "n50"
  /\ \A f \in {"combo", "accuracy", "misses"} : TakesOver("catch")[f] = f
  /\ DOMAIN TakesOver("mania") = {"n300", "n100", "n50", "misses", "accuracy",
                                  "hitresult_priority"}
  /\ \A f \in DOMAIN TakesOver("mania") : TakesOver("mania")[f] = f
<1>1. /\ TakesOver("taiko") = TaikoTakesOver /\ TakesOver("catch") = CatchTakesOver
      /\ TakesOver("mania") = ManiaTakesOver
  BY DEF TakesOver
<1> QED BY <1>1 DEF TaikoTakesOver, CatchTakesOver, ManiaTakesOver, Same, Renamed

(* An option that both calculators have reaches its field in the new one.  *)
LEMMA OptionsAreTakenOver ==
  ASSUME NEW mode \in Modes \ {"osu"}
  PROVE  /\ \A o \in (Takes(mode) \cap Takes("osu")) \ {"hitresult_generator"} :
              /\ FieldOf(mode)[o] \in DOMAIN TakesOver(mode)
              /\ TakesOver(mode)[FieldOf(mode)[o]] = FieldOf("osu")[o]
         /\ \A o \in Takes(mode) \ Takes("osu") : FieldOf(mode)[o] \notin DOMAIN TakesOver(mode)
         /\ \A f \in DOMAIN TakesOver(mode) :
              /\ f \in DOMAIN NewFields(mode)
              /\ TakesOver(mode)[f] \in DOMAIN NewFields("osu")
<1>1. /\ DOMAIN NewFields("osu") = OsuFields /\ DOMAIN NewFields("taiko") = TaikoFields
      /\ DOMAIN NewFields("catch") = CatchFields /\ DOMAIN NewFields("mania") = ManiaFields
  BY DEF NewFields, OsuNew, TaikoNew, CatchNew, ManiaNew
<1>2. CASE mode = "taiko"
  BY <1>1, <1>2, FieldTable, TakeOverTable
  DEF OsuFields, TaikoFields, Options, ScoreOptions, HitOptions
<1>3. CASE mode = "catch"
  BY <1>1, <1>3, FieldTable, TakeOverTable
  DEF OsuFields, CatchFields, Options, ScoreOptions, HitOptions
<1>4. CASE mode = "mania"
  BY <1>1, <1>4, FieldTable, TakeOverTable
  DEF OsuFields, ManiaFields, Options, ScoreOptions, HitOptions
<1> QED BY <1>2, <1>3, <1>4 DEF Modes

(* Where the numbers of a generated state come from.                       *)
LEMMA ToStateTable ==
  /\ DOMAIN ToScoreState("osu") = OsuState /\ \A o \in OsuState : ToScoreState("osu")[o] = o
  /\ DOMAIN ToScoreState("taiko") = TaikoState
  /\ \A o \in TaikoState : ToScoreState("taiko")[o] = o
  /\ DOMAIN ToScoreState("catch") = {"n300", "n100", "n50", "n_katu", "combo", "misses"}
  /\ ToScoreState("catch")["n300"] = "fruits" /\ ToScoreState("catch")["n100"] = "droplets"
  /\ ToScoreState("catch")["n50"] = "tiny_droplets"
  /\ ToScoreState("catch")["n_katu"] = "tiny_droplet_misses"
  /\ \A o \in {"combo", "misses"} : ToScoreState("catch")[o] = o
  /\ DOMAIN ToScoreState("mania") = {"n_geki", "n_katu", "n300", "n100", "n50", "misses"}
  /\ ToScoreState("mania")["n_geki"] = "n320" /\ ToScoreState("mania")["n_katu"] = "n200"
  /\ \A o \in {"n300", "n100", "n50", "misses"} : ToScoreState("mania")[o] = o
<1>1. /\ ToScoreState("osu") = Same(OsuState) /\ ToScoreState("taiko") = Same(TaikoState)
      /\ ToScoreState("catch") = Renamed([n300 |-> "fruits", n100 |-> "droplets",
                                          n50 |-> "tiny_droplets",
                                          n_katu |-> "tiny_droplet_misses"],
                                         {"combo", "misses"})
      /\ ToScoreState("mania") = Renamed([n_geki |-> "n320", n_katu |-> "n200"],
                                         {"n300", "n100", "n50", "misses"})
  BY DEF ToScoreState
<1>2. \A names : DOMAIN Same(names) = names /\ \A n \in names : Same(names)[n] = n
  BY DEF Same
<1> QED BY <1>1, <1>2 DEF Renamed

(* The two conversions of score states are inverse to each other.          *)
LEMMA ConversionsAreInverse ==
  ASSUME NEW mode \in Modes, NEW f \in StateOf(mode)
  PROVE  /\ FromScoreState(mode)[f] \in ScoreOptions
         /\ FromScoreState(mode)[f] \in DOMAIN ToScoreState(mode)
         /\ ToScoreState(mode)[FromScoreState(mode)[f]] = f
<1>1. /\ StateOf("osu") = OsuState /\ StateOf("taiko") = TaikoState
      /\ StateOf("catch") = CatchState /\ StateOf("mania") = ManiaState
  BY DEF StateOf
<1>2. CASE mode = "osu"
  BY <1>1, <1>2, ToStateTable, StateTable DEF OsuState, ScoreOptions, HitOptions
<1>3. CASE mode = "taiko"
  BY <1>1, <1>3, ToStateTable, StateTable DEF TaikoState, ScoreOptions, HitOptions
<1>4. CASE mode = "catch"
  BY <1>1, <1>4, ToStateTable, StateTable DEF CatchState, ScoreOptions, HitOptions
<1>5. CASE mode = "mania"
  BY <1>1, <1>5, ToStateTable, StateTable DEF ManiaState, ScoreOptions, HitOptions
<1> QED BY <1>2, <1>3, <1>4, <1>5 DEF Modes

(***************************************************************************)
(* The inductive invariant                                                 *)
(***************************************************************************)

Calculator(mode, content, difficulty, fields) ==
  [mode |-> mode, content |-> content, difficulty |-> difficulty, fields |-> fields]

IsContent(c) ==
  IF c.kind = "Map" THEN c = MapContent(c.map) /\ "mode" \in DOMAIN c.map
  ELSE c = AttrsContent(c.mode, c.settings)

TypeInv ==
  /\ perf = Calculator(perf.mode, perf.content, perf.difficulty, perf.fields)
  /\ perf.mode \in Modes
  /\ IsContent(perf.content)
  /\ IsDifficulty(perf.difficulty)
  /\ perf.fields = [f \in DOMAIN NewFields(perf.mode) |-> perf.fields[f]]
  /\ \A f \in HitFields : perf.fields[f] \in Nat \cup {None}
  /\ given = [x \in Options \cup SettingNames |-> given[x]]

(* What the calculator has no field for was never given to it.             *)
OptionsInv ==
  /\ OptionsReachTheCalculator
  /\ \A o \in Options \ Takes(perf.mode) : given[o] = None

(* Only the calculators that were made for one mode may hold a map of      *)
(* another.                                                                *)
ContentInv == made = "Performance" /\ HoldsMap => perf.content.map.mode = perf.mode

(* The latest state that was generated is still that of the fields.        *)
StateInv ==
  returned.kind = "state" =>
    /\ returned.state = ToState(perf.fields, perf.mode)
    /\ \A f \in HitFields : perf.fields[f] \in Nat

IInv == TypeInv /\ OptionsInv /\ ContentInv /\ StateInv

(* Options and settings have different names.                              *)
LEMMA NamesAreApart == Options \cap SettingNames = {}
BY DEF Options, ScoreOptions, HitOptions, SettingNames, NewDifficulty

(* A calculator is made of its parts.                                      *)
LEMMA CalculatorIs ==
  ASSUME NEW m, NEW c, NEW d, NEW f
  PROVE  /\ Calculator(m, c, d, f).mode = m /\ Calculator(m, c, d, f).content = c
         /\ Calculator(m, c, d, f).difficulty = d /\ Calculator(m, c, d, f).fields = f
BY DEF Calculator

\* one of its parts changes
WithFields(p, x) == [p EXCEPT !.fields = x]
WithSettings(p, x) == [p EXCEPT !.difficulty = x]
WithContent(p, x) == [p EXCEPT !.content = x]

(* A calculator whose part changed is made of the other parts and that.    *)
LEMMA CalculatorChanges ==
  ASSUME NEW m, NEW c, NEW d, NEW f, NEW x
  PROVE  /\ WithFields(Calculator(m, c, d, f), x) = Calculator(m, c, d, x)
         /\ WithSettings(Calculator(m, c, d, f), x) = Calculator(m, c, x, f)
         /\ WithContent(Calculator(m, c, d, f), x) = Calculator(m, x, d, f)
BY DEF Calculator, WithFields, WithSettings, WithContent

(* What the two kinds of contents are made of.                             *)
LEMMA ContentIs ==
  /\ \A map : MapContent(map).kind = "Map" /\ MapContent(map).map = map
  /\ \A m, s : /\ AttrsContent(m, s).kind = "Attrs" /\ AttrsContent(m, s).mode = m
                /\ AttrsContent(m, s).settings = s
BY DEF MapContent, AttrsContent

(* A map is a content.                                                     *)
LEMMA MapContentIsContent ==
  ASSUME NEW map, "mode" \in DOMAIN map
  PROVE  IsContent(MapContent(map))
BY ContentIs DEF IsContent

(* Attributes are a content.                                               *)
LEMMA AttrsContentIsContent ==
  ASSUME NEW m, NEW s
  PROVE  IsContent(AttrsContent(m, s))
BY ContentIs DEF IsContent

(* A new calculator has its mode's fields, the hit results unset.          *)
LEMMA NewFieldsAre ==
  ASSUME NEW mode \in Modes
  PROVE  /\ NewFields(mode) = [f \in DOMAIN NewFields(mode) |-> NewFields(mode)[f]]
         /\ \A o \in HitOptions \cap Takes(mode) : NewFields(mode)[FieldOf(mode)[o]] = None
<1>1. /\ NewFields("osu") = OsuNew /\ NewFields("taiko") = TaikoNew
      /\ NewFields("catch") = CatchNew /\ NewFields("mania") = ManiaNew
  BY DEF NewFields
<1>2. CASE mode = "osu"
  BY <1>1, <1>2, FieldTable DEF OsuNew, OsuFields, Options, ScoreOptions, HitOptions
<1>3. CASE mode = "taiko"
  BY <1>1, <1>3, FieldTable DEF TaikoNew, TaikoFields, HitOptions
<1>4. CASE mode = "catch"
  BY <1>1, <1>4, FieldTable DEF CatchNew, CatchFields, HitOptions
<1>5. CASE mode = "mania"
  BY <1>1, <1>5, FieldTable DEF ManiaNew, ManiaFields, HitOptions
<1> QED BY <1>2, <1>3, <1>4, <1>5 DEF Modes

(* A calculator on which nothing was set yet.                              *)
LEMMA InitIInv == Init => IInv
<1> SUFFICES ASSUME Init PROVE IInv
  OBVIOUS
<1>1. PICK mode \in Modes, content \in Contents :
        /\ perf = FromMapOrAttrs(mode, content)
        /\ made = "Performance" => mode = ModeOf(content)
  <2>1. CASE \E content \in Contents : perf = FromMapOrAttrs(ModeOf(content), content)
    <3>1. \A content \in Contents : ModeOf(content) \in Modes
      <4>1. \A map \in Maps : map.mode \in Modes
        BY MapsAssumption
      <4> QED BY <4>1, ContentIs DEF Contents, ModeOf
    <3> QED BY <2>1, <3>1
  <2>2. CASE \E mode \in Modes : \E content \in Contents :
               made = "mode" /\ perf = FromMapOrAttrs(mode, content)
    BY <2>2
  <2> QED BY <2>1, <2>2 DEF Init
<1>2. perf = Calculator(mode, content, NewDifficulty, NewFields(mode))
  BY <1>1 DEF FromMapOrAttrs, Calculator
<1>3. /\ perf.mode = mode /\ perf.content = content /\ perf.difficulty = NewDifficulty
      /\ perf.fields = NewFields(mode)
  BY <1>2 DEF Calculator
<1>4. IsContent(content)
  <2>1. \A map \in Maps : "mode" \in DOMAIN map
    BY MapsAssumption
  <2> QED BY <2>1, MapContentIsContent, AttrsContentIsContent DEF Contents
<1>5. IsDifficulty(NewDifficulty)
  <2>1. /\ NewDifficulty.mods # None /\ NewDifficulty.clock_rate = None
        /\ \A attr \in MapAttributes : NewDifficulty[attr] = Unset
    BY NoneAssumption DEF NewDifficulty, MapAttributes
  <2>2. NewDifficulty = [s \in DOMAIN NewDifficulty |-> NewDifficulty[s]]
    BY DEF NewDifficulty
  <2> QED BY <2>1, <2>2 DEF IsDifficulty
<1>6. /\ given = [x \in Options \cup SettingNames |-> given[x]]
      /\ \A o \in Options : given[o] = None
      /\ \A s \in SettingNames : given[s] = NewDifficulty[s]
  BY NamesAreApart DEF Init, NothingGiven
<1>7. \A f \in HitFields : perf.fields[f] = None
  BY <1>1, <1>3, NewFieldsAre DEF HitFields
<1>8. TypeInv
  BY <1>1, <1>2, <1>3, <1>4, <1>5, <1>6, <1>7, NewFieldsAre DEF TypeInv
<1>9. OptionsInv
  BY <1>1, <1>3, <1>6, OptionsHaveFields DEF OptionsInv, OptionsReachTheCalculator
<1>10. ContentInv
  BY <1>1, <1>3 DEF ContentInv, HoldsMap, ModeOf
<1>11. StateInv
  BY DEF StateInv, Init, Silent
<1> QED BY <1>8, <1>9, <1>10, <1>11 DEF IInv

(***************************************************************************)
(* Options and settings                                                    *)
(***************************************************************************)

(* The calculator that a call leaves behind has the types of a calculator  *)
(* when its parts do.                                                      *)
LEMMA PartsBecome ==
  ASSUME NEW mode \in Modes, NEW content, NEW d, NEW f, IsContent(content), IsDifficulty(d),
         f = [x \in DOMAIN NewFields(mode) |-> f[x]],
         \A o \in HitOptions \cap Takes(mode) : f[FieldOf(mode)[o]] \in Nat \cup {None},
         made = "Performance" /\ content.kind = "Map" => content.map.mode = mode,
         perf' = Calculator(mode, content, d, f),
         given' = [x \in Options \cup SettingNames |-> given'[x]],
         UNCHANGED made
  PROVE  /\ TypeInv' /\ ContentInv'
         /\ perf'.mode = mode /\ perf'.content = content
         /\ perf'.difficulty = d /\ perf'.fields = f
<1>1. /\ perf'.mode = mode /\ perf'.content = content
      /\ perf'.difficulty = d /\ perf'.fields = f
  BY CalculatorIs
<1>2. perf' = Calculator(perf'.mode, perf'.content, perf'.difficulty, perf'.fields)
  BY <1>1
<1>3. HitFields' = {FieldOf(mode)[o] : o \in HitOptions \cap Takes(mode)}
  BY <1>1 DEF HitFields
<1>4. TypeInv'
  BY <1>1, <1>2, <1>3 DEF TypeInv
<1>5. ContentInv'
  BY <1>1 DEF ContentInv, HoldsMap
<1> QED BY <1>1, <1>4, <1>5

(* The same for a call that changes neither its mode nor its map or        *)
(* attributes.                                                             *)
LEMMA PartsChange ==
  ASSUME IInv, NEW d, NEW f, IsDifficulty(d),
         f = [x \in DOMAIN NewFields(perf.mode) |-> f[x]],
         \A x \in HitFields : f[x] \in Nat \cup {None},
         perf' = Calculator(perf.mode, perf.content, d, f),
         given' = [x \in Options \cup SettingNames |-> given'[x]],
         UNCHANGED made
  PROVE  /\ TypeInv' /\ ContentInv'
         /\ perf'.mode = perf.mode /\ perf'.difficulty = d /\ perf'.fields = f
<1>1. /\ perf.mode \in Modes /\ IsContent(perf.content)
      /\ made = "Performance" /\ perf.content.kind = "Map" => perf.content.map.mode = perf.mode
  BY DEF IInv, TypeInv, ContentInv, HoldsMap
<1>2. \A o \in HitOptions \cap Takes(perf.mode) : f[FieldOf(perf.mode)[o]] \in Nat \cup {None}
  BY DEF HitFields
<1> QED BY <1>1, <1>2, PartsBecome

(* A call that changes nothing and does not answer with a state.           *)
LEMMA NothingChanges ==
  ASSUME IInv, perf' = perf, given' = given, made' = made, returned'.kind # "state"
  PROVE  IInv'
<1>1. TypeInv'
  BY DEF IInv, TypeInv, HitFields
<1>2. OptionsInv'
  BY DEF IInv, OptionsInv, OptionsReachTheCalculator
<1>3. ContentInv'
  BY DEF IInv, ContentInv, HoldsMap
<1> QED BY <1>1, <1>2, <1>3 DEF IInv, StateInv

(* A setter of an option changes the option's field and no other one.      *)
LEMMA SetOptionKeepsIInv ==
  ASSUME IInv, NEW o \in Options, SetOption(o)
  PROVE  IInv'
<1>1. PICK input \in Inputs[o] :
        IF o \in Takes(perf.mode)
        THEN /\ perf' = [perf EXCEPT !.fields[FieldOf(perf.mode)[o]] = Stored(o, input)]
             /\ given' = [given EXCEPT ![o] = Stored(o, input)]
        ELSE UNCHANGED <<perf, given>>
  BY DEF SetOption
<1>2. UNCHANGED <<generic, made>> /\ returned' = Silent
  BY DEF SetOption, Call
<1>3. StateInv'
  BY <1>2 DEF StateInv, Silent
<1>4. CASE o \notin Takes(perf.mode)
  <2>1. perf' = perf /\ given' = given /\ made' = made /\ returned'.kind # "state"
    BY <1>1, <1>2, <1>4 DEF Silent
  <2> QED BY <2>1, NothingChanges
<1>5. CASE o \in Takes(perf.mode)
  <2> DEFINE v == Stored(o, input)
             field == FieldOf(perf.mode)[o]
             fields == [perf.fields EXCEPT ![field] = v]
  <2>1. /\ perf.mode \in Modes /\ IsDifficulty(perf.difficulty)
        /\ perf = Calculator(perf.mode, perf.content, perf.difficulty, perf.fields)
        /\ perf.fields = [f \in DOMAIN NewFields(perf.mode) |-> perf.fields[f]]
        /\ \A f \in HitFields : perf.fields[f] \in Nat \cup {None}
        /\ given = [x \in Options \cup SettingNames |-> given[x]]
    BY DEF IInv, TypeInv
  <2>2. given' = [given EXCEPT ![o] = v]
    BY <1>1, <1>5
  <2>3. perf' = WithFields(perf, fields)
    BY <1>1, <1>5 DEF WithFields
  <2>4. perf' = Calculator(perf.mode, perf.content, perf.difficulty, fields)
    <3> HIDE DEF fields
    <3>1. WithFields(Calculator(perf.mode, perf.content, perf.difficulty, perf.fields), fields)
            = Calculator(perf.mode, perf.content, perf.difficulty, fields)
      BY CalculatorChanges
    <3> QED BY <2>1, <2>3, <3>1
  <2>5. field \in DOMAIN NewFields(perf.mode)
    BY <1>5, <2>1, OptionsHaveFields
  <2>6. o \in HitOptions => v \in Nat
    BY InputsAssumption DEF Stored, HitOptions
  <2> HIDE DEF v, field
  <2>7. fields = [f \in DOMAIN NewFields(perf.mode) |-> IF f = field THEN v ELSE perf.fields[f]]
    BY <2>1, <2>5
  <2> HIDE DEF fields
  <2>8. \A f \in HitFields : fields[f] \in Nat \cup {None}
    <3>1. ASSUME NEW x \in HitOptions \cap Takes(perf.mode)
          PROVE  fields[FieldOf(perf.mode)[x]] \in Nat \cup {None}
      <4>1. FieldOf(perf.mode)[x] \in DOMAIN NewFields(perf.mode)
        BY <2>1, OptionsHaveFields
      <4>2. FieldOf(perf.mode)[x] = field => x = o
        BY <1>5, <2>1, OptionsHaveFields DEF field
      <4>3. perf.fields[FieldOf(perf.mode)[x]] \in Nat \cup {None}
        BY <2>1 DEF HitFields
      <4> QED BY <2>6, <2>7, <4>1, <4>2, <4>3
    <3> QED BY <3>1 DEF HitFields
  <2>9. \A x \in Options \cup SettingNames : given'[x] = IF x = o THEN v ELSE given[x]
    BY <2>1, <2>2
  <2>10. given' = [x \in Options \cup SettingNames |-> given'[x]]
    BY <2>1, <2>2
  <2>11. fields = [f \in DOMAIN NewFields(perf.mode) |-> fields[f]]
    BY <2>7
  <2>12. /\ TypeInv' /\ ContentInv' /\ perf'.mode = perf.mode
         /\ perf'.difficulty = perf.difficulty /\ perf'.fields = fields
    BY <1>2, <2>1, <2>4, <2>8, <2>10, <2>11, PartsChange
  <2>13. ASSUME NEW x \in Takes(perf.mode), given'[x] # None
         PROVE  fields[FieldOf(perf.mode)[x]] = given'[x]
    <3>1. x \in Options /\ FieldOf(perf.mode)[x] \in DOMAIN NewFields(perf.mode)
      BY <2>1, OptionsHaveFields
    <3>2. x # o => FieldOf(perf.mode)[x] # field
      BY <1>5, <2>1, OptionsHaveFields DEF field
    <3>3. given[x] # None => perf.fields[FieldOf(perf.mode)[x]] = given[x]
      BY DEF IInv, OptionsInv, OptionsReachTheCalculator
    <3> QED BY <2>7, <2>9, <2>13, <3>1, <3>2, <3>3 DEF field
  <2>14. OptionsInv'
    <3>1. \A x \in SettingNames : perf.difficulty[x] = given'[x]
      BY <2>9, NamesAreApart DEF IInv, OptionsInv, OptionsReachTheCalculator
    <3>2. \A x \in Options \ Takes(perf.mode) : given'[x] = None
      BY <1>5, <2>9 DEF IInv, OptionsInv
    <3> QED BY <2>12, <2>13, <3>1, <3>2 DEF OptionsInv, OptionsReachTheCalculator
  <2> QED BY <1>3, <2>12, <2>14 DEF IInv
<1> QED BY <1>4, <1>5

(* What is left to show when only the settings change: what was given      *)
(* changes alike.                                                          *)
LEMMA SettingsChangeAlike ==
  ASSUME IInv, NEW d, IsDifficulty(d), perf' = WithSettings(perf, d), UNCHANGED made,
         given' = [x \in Options \cup SettingNames |->
                     IF x \in SettingNames THEN d[x] ELSE given[x]],
         returned' = Silent
  PROVE  IInv'
<1>1. /\ perf = Calculator(perf.mode, perf.content, perf.difficulty, perf.fields)
      /\ perf.fields = [f \in DOMAIN NewFields(perf.mode) |-> perf.fields[f]]
      /\ \A f \in HitFields : perf.fields[f] \in Nat \cup {None}
  BY DEF IInv, TypeInv
<1>2. perf' = Calculator(perf.mode, perf.content, d, perf.fields)
  <2>1. WithSettings(Calculator(perf.mode, perf.content, perf.difficulty, perf.fields), d)
          = Calculator(perf.mode, perf.content, d, perf.fields)
    BY CalculatorChanges
  <2> QED BY <1>1, <2>1
<1>3. /\ TypeInv' /\ ContentInv' /\ perf'.mode = perf.mode
      /\ perf'.difficulty = d /\ perf'.fields = perf.fields
  BY <1>1, <1>2, PartsChange
<1>4. /\ \A o \in Options : given'[o] = given[o]
      /\ \A x \in SettingNames : given'[x] = d[x]
  BY NamesAreApart
<1>5. Takes(perf.mode) \subseteq Options
  BY OptionsHaveFields DEF IInv, TypeInv
<1>6. OptionsInv'
  BY <1>3, <1>4, <1>5 DEF IInv, OptionsInv, OptionsReachTheCalculator
<1>7. StateInv'
  BY DEF StateInv, Silent
<1> QED BY <1>3, <1>6, <1>7 DEF IInv

(* A setter of a setting.                                                  *)
LEMMA SetSettingKeepsIInv ==
  ASSUME IInv, NEW s \in SettingNames, SetSetting(s)
  PROVE  IInv'
<1>1. PICK input \in Inputs[s] :
        \/ /\ perf' = [perf EXCEPT !.difficulty = SetDifficulty(@, s, input)]
           /\ given' = [given EXCEPT ![s] = SettingOf(s, input)]
        \/ UNCHANGED <<perf, given>>
  BY DEF SetSetting
<1>2. UNCHANGED <<generic, made>> /\ returned' = Silent
  BY DEF SetSetting, Call
<1>3. /\ IsDifficulty(perf.difficulty)
      /\ given = [x \in Options \cup SettingNames |-> given[x]]
      /\ \A x \in SettingNames : perf.difficulty[x] = given[x]
  BY DEF IInv, TypeInv, OptionsInv, OptionsReachTheCalculator
<1>4. CASE UNCHANGED <<perf, given>>
  <2>1. perf' = perf /\ given' = given /\ made' = made /\ returned'.kind # "state"
    BY <1>2, <1>4 DEF Silent
  <2> QED BY <2>1, NothingChanges
<1>5. CASE /\ perf' = [perf EXCEPT !.difficulty = SetDifficulty(@, s, input)]
           /\ given' = [given EXCEPT ![s] = SettingOf(s, input)]
  <2> DEFINE d == SetDifficulty(perf.difficulty, s, input)
             v == SettingOf(s, input)
  <2>1. s = "mods" => input # None
    BY InputsAssumption
  <2>2. IsDifficulty(d)
    BY <1>3, <2>1, SetterKeepsSettings
  <2>3. perf' = WithSettings(perf, d)
    BY <1>5 DEF WithSettings
  <2>4. \A x \in SettingNames : d[x] = IF x = s THEN v ELSE perf.difficulty[x]
    <3>1. perf.difficulty = [x \in SettingNames |-> perf.difficulty[x]]
      BY <1>3 DEF IsDifficulty, SettingNames
    <3>2. d = [perf.difficulty EXCEPT ![s] = v]
      BY DEF SetDifficulty
    <3> HIDE DEF d, v
    <3> QED BY <3>1, <3>2
  <2>5. given' = [given EXCEPT ![s] = v]
    BY <1>5
  <2> HIDE DEF d, v
  <2>6. given' = [x \in Options \cup SettingNames |->
                    IF x \in SettingNames THEN d[x] ELSE given[x]]
    <3>1. given' = [x \in Options \cup SettingNames |-> IF x = s THEN v ELSE given[x]]
      BY <1>3, <2>5
    <3>2. ASSUME NEW x \in Options \cup SettingNames
          PROVE  (IF x = s THEN v ELSE given[x]) = IF x \in SettingNames THEN d[x] ELSE given[x]
      BY <1>3, <2>4
    <3> QED BY <3>1, <3>2
  <2> QED BY <1>2, <2>2, <2>3, <2>6, SettingsChangeAlike
<1> QED BY <1>1, <1>4, <1>5

(* All settings at once, through their inspection.                         *)
LEMMA UseDifficultyKeepsIInv ==
  ASSUME IInv, UseDifficulty
  PROVE  IInv'
<1>1. PICK d \in Settings \cup {perf.difficulty} :
        /\ perf' = [perf EXCEPT !.difficulty = IntoDifficulty(Inspect(d))]
        /\ given' = [x \in DOMAIN given |-> IF x \in SettingNames THEN d[x] ELSE given[x]]
  BY DEF UseDifficulty
<1>2. UNCHANGED <<generic, made>> /\ returned' = Silent
  BY DEF UseDifficulty, Call
<1>3. IsDifficulty(d)
  BY SettingsAssumption DEF IInv, TypeInv
<1>4. perf' = WithSettings(perf, d)
  BY <1>1, <1>3, InspectionKeepsSettings DEF WithSettings
<1>5. DOMAIN given = Options \cup SettingNames
  BY DEF IInv, TypeInv
<1> QED BY <1>1, <1>2, <1>3, <1>4, <1>5, SettingsChangeAlike

(* `state` gives every number of a score state to the field of its option. *)
LEMMA UseStateKeepsIInv ==
  ASSUME IInv, UseState
  PROVE  IInv'
<1>1. PICK state \in States :
        /\ perf' = [perf EXCEPT !.fields = WithState(@, perf.mode, state)]
        /\ given' = [x \in DOMAIN given |->
                       IF x \in ScoreOptions \cap Takes(perf.mode) THEN state[x] ELSE given[x]]
  BY DEF UseState
<1>2. UNCHANGED <<generic, made>> /\ returned' = Silent
  BY DEF UseState, Call
<1> DEFINE fields == WithState(perf.fields, perf.mode, state)
<1>3. /\ perf.mode \in Modes /\ IsDifficulty(perf.difficulty)
      /\ perf = Calculator(perf.mode, perf.content, perf.difficulty, perf.fields)
      /\ perf.fields = [f \in DOMAIN NewFields(perf.mode) |-> perf.fields[f]]
      /\ \A f \in HitFields : perf.fields[f] \in Nat \cup {None}
      /\ given = [x \in Options \cup SettingNames |-> given[x]]
  BY DEF IInv, TypeInv
<1>4. perf' = Calculator(perf.mode, perf.content, perf.difficulty, fields)
  <2>1. perf' = WithFields(perf, fields)
    BY <1>1 DEF WithFields
  <2> HIDE DEF fields
  <2>2. WithFields(Calculator(perf.mode, perf.content, perf.difficulty, perf.fields), fields)
          = Calculator(perf.mode, perf.content, perf.difficulty, fields)
    BY CalculatorChanges
  <2> QED BY <1>3, <2>1, <2>2
<1>5. fields = [f \in DOMAIN NewFields(perf.mode) |->
                  IF f \in StateOf(perf.mode) THEN state[FromScoreState(perf.mode)[f]]
                  ELSE perf.fields[f]]
  BY <1>3 DEF WithState
<1> HIDE DEF fields
<1>6. ASSUME NEW o \in Takes(perf.mode)
      PROVE  fields[FieldOf(perf.mode)[o]] =
               IF o \in ScoreOptions THEN state[o] ELSE perf.fields[FieldOf(perf.mode)[o]]
  <2>1. FieldOf(perf.mode)[o] \in DOMAIN NewFields(perf.mode)
    BY <1>3, OptionsHaveFields
  <2>2. CASE o \in ScoreOptions
    <3>1. /\ FieldOf(perf.mode)[o] \in StateOf(perf.mode)
          /\ FromScoreState(perf.mode)[FieldOf(perf.mode)[o]] = o
      BY <1>3, <2>2, StatesReachFields
    <3> QED BY <1>5, <2>1, <2>2, <3>1
  <2>3. CASE o \notin ScoreOptions
    <3>1. FieldOf(perf.mode)[o] \notin StateOf(perf.mode)
      BY <1>3, <2>3, StatesReachFields
    <3> QED BY <1>5, <2>1, <2>3, <3>1
  <2> QED BY <2>2, <2>3
<1>7. \A f \in HitFields : fields[f] \in Nat \cup {None}
  <2>1. ASSUME NEW o \in HitOptions \cap Takes(perf.mode)
        PROVE  fields[FieldOf(perf.mode)[o]] \in Nat \cup {None}
    <3>1. o \in ScoreOptions /\ state[o] \in Nat
      BY StatesAssumption DEF ScoreOptions
    <3> QED BY <1>6, <3>1
  <2> QED BY <2>1 DEF HitFields
<1>8. given' = [x \in Options \cup SettingNames |->
                  IF x \in ScoreOptions \cap Takes(perf.mode) THEN state[x] ELSE given[x]]
  BY <1>1, <1>3
<1>9. fields = [f \in DOMAIN NewFields(perf.mode) |-> fields[f]]
  BY <1>5
<1>10. given' = [x \in Options \cup SettingNames |-> given'[x]]
  BY <1>8
<1>11. /\ TypeInv' /\ ContentInv' /\ perf'.mode = perf.mode
       /\ perf'.difficulty = perf.difficulty /\ perf'.fields = fields
  BY <1>2, <1>3, <1>4, <1>7, <1>9, <1>10, PartsChange
<1>12. Takes(perf.mode) \subseteq Options /\ ScoreOptions \subseteq Options
  BY <1>3, OptionsHaveFields DEF Options
<1>13. ASSUME NEW o \in Takes(perf.mode), given'[o] # None
       PROVE  fields[FieldOf(perf.mode)[o]] = given'[o]
  <2>1. given'[o] = IF o \in ScoreOptions THEN state[o] ELSE given[o]
    BY <1>8, <1>12
  <2>2. given[o] # None => perf.fields[FieldOf(perf.mode)[o]] = given[o]
    BY DEF IInv, OptionsInv, OptionsReachTheCalculator
  <2> QED BY <1>6, <1>13, <2>1, <2>2
<1>14. OptionsInv'
  <2>1. \A x \in SettingNames : perf.difficulty[x] = given'[x]
    BY <1>8, <1>12, NamesAreApart DEF IInv, OptionsInv, OptionsReachTheCalculator
  <2>2. \A o \in Options \ Takes(perf.mode) : given'[o] = None
    BY <1>8 DEF IInv, OptionsInv
  <2> QED BY <1>11, <1>13, <2>1, <2>2 DEF OptionsInv, OptionsReachTheCalculator
<1>15. StateInv'
  BY <1>2 DEF StateInv, Silent
<1> QED BY <1>11, <1>14, <1>15 DEF IInv

(***************************************************************************)
(* The move to another mode                                                *)
(***************************************************************************)

(* The fields of the new calculator hold what was given to the old one and *)
(* not forgotten.                                                          *)
LEMMA TakenOverFields ==
  ASSUME IInv, perf.mode = "osu", NEW mode \in Modes \ {"osu"}
  PROVE  LET fields == TakeOver(perf.fields, mode)
         IN  /\ fields = [f \in DOMAIN NewFields(mode) |-> fields[f]]
             /\ \A o \in HitOptions \cap Takes(mode) :
                  fields[FieldOf(mode)[o]] \in Nat \cup {None}
             /\ \A o \in Takes(mode) \ {"hitresult_generator"} :
                  given[o] # None => fields[FieldOf(mode)[o]] = given[o]
<1> DEFINE fields == TakeOver(perf.fields, mode)
<1>1. fields = [f \in DOMAIN NewFields(mode) |->
                  IF f \in DOMAIN TakesOver(mode) THEN perf.fields[TakesOver(mode)[f]]
                  ELSE NewFields(mode)[f]]
  BY DEF TakeOver
<1> HIDE DEF fields
<1>2. \A o \in Takes(mode) : FieldOf(mode)[o] \in DOMAIN NewFields(mode)
  BY OptionsHaveFields
<1>3. ASSUME NEW o \in (Takes(mode) \cap Takes("osu")) \ {"hitresult_generator"}
      PROVE  fields[FieldOf(mode)[o]] = perf.fields[FieldOf("osu")[o]]
  BY <1>1, <1>2, OptionsAreTakenOver
<1>4. ASSUME NEW o \in Takes(mode) \ Takes("osu")
      PROVE  fields[FieldOf(mode)[o]] = NewFields(mode)[FieldOf(mode)[o]]
  BY <1>1, <1>2, OptionsAreTakenOver
<1>5. ASSUME NEW o \in HitOptions \cap Takes(mode)
      PROVE  fields[FieldOf(mode)[o]] \in Nat \cup {None}
  <2>1. CASE o \in Takes("osu")
    <3>1. o # "hitresult_generator"
      BY DEF HitOptions
    <3>2. perf.fields[FieldOf("osu")[o]] \in Nat \cup {None}
      BY <2>1 DEF IInv, TypeInv, HitFields
    <3> QED BY <1>3, <2>1, <3>1, <3>2
  <2>2. CASE o \notin Takes("osu")
    BY <1>4, <2>2, NewFieldsAre
  <2> QED BY <2>1, <2>2
<1>6. ASSUME NEW o \in Takes(mode) \ {"hitresult_generator"}, given[o] # None
      PROVE  fields[FieldOf(mode)[o]] = given[o]
  <2>1. o \in Options
    BY OptionsHaveFields
  <2>2. o \in Takes("osu") /\ perf.fields[FieldOf("osu")[o]] = given[o]
    BY <1>6, <2>1 DEF IInv, OptionsInv, OptionsReachTheCalculator
  <2> QED BY <1>3, <2>2
<1>7. fields = [f \in DOMAIN NewFields(mode) |-> fields[f]]
  BY <1>1
<1> QED BY <1>5, <1>6, <1>7 DEF fields

(* A converted map is one of the mode it was converted to.                 *)
LEMMA ConvertedIs ==
  ASSUME NEW map, "mode" \in DOMAIN map, NEW mode, NEW mods
  PROVE  /\ "mode" \in DOMAIN Converted(map, mode, mods)
         /\ Converted(map, mode, mods).mode = mode
<1> DEFINE keys == Whole(OrElse(ManiaKeys(mods), 7))
<1>1. Converted(map, mode, mods) =
        IF map.mode = mode THEN map
        ELSE [map EXCEPT !.mode = mode, !.is_convert = TRUE,
                         !.cs = IF mode = "mania" THEN keys ELSE @]
  BY DEF Converted
<1> HIDE DEF keys
<1> QED BY <1>1

(* The move keeps the settings and the options that both modes have.       *)
LEMMA MoveKeepsIInv ==
  ASSUME IInv, perf.mode = "osu", NEW mode \in Modes \ {"osu"}, CanMove(mode),
         perf' = MovedTo(mode), given' = Forget(mode), UNCHANGED made,
         returned'.kind # "state"
  PROVE  IInv'
<1> DEFINE fields == TakeOver(perf.fields, mode)
           content == MapContent(Converted(perf.content.map, mode, perf.difficulty.mods))
<1>1. /\ fields = [f \in DOMAIN NewFields(mode) |-> fields[f]]
      /\ \A o \in HitOptions \cap Takes(mode) : fields[FieldOf(mode)[o]] \in Nat \cup {None}
      /\ \A o \in Takes(mode) \ {"hitresult_generator"} :
           given[o] # None => fields[FieldOf(mode)[o]] = given[o]
  BY TakenOverFields
<1>2. perf' = Calculator(mode, content, perf.difficulty, fields)
  BY DEF MovedTo, Calculator
<1> HIDE DEF fields
<1>3. IsContent(content) /\ content.map.mode = mode
  <2>1. "mode" \in DOMAIN perf.content.map
    BY DEF CanMove, HoldsMap, IInv, TypeInv, IsContent
  <2> QED BY <2>1, ConvertedIs, MapContentIsContent, ContentIs
<1> HIDE DEF content
<1>4. /\ IsDifficulty(perf.difficulty) /\ DOMAIN given = Options \cup SettingNames
      /\ \A s \in SettingNames : perf.difficulty[s] = given[s]
  BY DEF IInv, TypeInv, OptionsInv, OptionsReachTheCalculator
<1>5. given' = [x \in Options \cup SettingNames |->
                  IF x \in Options /\ (x \notin Takes(mode) \/ x = "hitresult_generator")
                  THEN None ELSE given[x]]
  BY <1>4 DEF Forget
<1>6. given' = [x \in Options \cup SettingNames |-> given'[x]]
  BY <1>5
<1>7. /\ TypeInv' /\ ContentInv' /\ perf'.mode = mode
      /\ perf'.difficulty = perf.difficulty /\ perf'.fields = fields
  BY <1>1, <1>2, <1>3, <1>4, <1>6, PartsBecome
<1>8. ASSUME NEW o \in Takes(mode), given'[o] # None
      PROVE  fields[FieldOf(mode)[o]] = given'[o]
  <2>1. o \in Options
    BY OptionsHaveFields
  <2>2. o # "hitresult_generator" /\ given'[o] = given[o]
    BY <1>5, <1>8, <2>1
  <2> QED BY <1>1, <1>8, <2>2
<1>9. \A s \in SettingNames : perf.difficulty[s] = given'[s]
  BY <1>4, <1>5, NamesAreApart
<1>10. \A o \in Options \ Takes(mode) : given'[o] = None
  BY <1>5
<1>11. OptionsInv'
  BY <1>7, <1>8, <1>9, <1>10 DEF OptionsInv, OptionsReachTheCalculator
<1> QED BY <1>7, <1>11 DEF IInv, StateInv

(* try_mode and mode_or_ignore, whether the calculator moves or not.       *)
LEMMA TryModeKeepsIInv ==
  ASSUME IInv, NEW mode \in Modes, NEW ignore \in BOOLEAN, TryMode(mode, ignore)
  PROVE  IInv'
<1>1. returned'.kind # "state" /\ made' = made
  BY DEF TryMode, Call
<1>2. CASE perf.mode = "osu" /\ OsuMoves(mode)
  <2>1. perf' = MovedTo(mode) /\ given' = Forget(mode)
    BY <1>2 DEF TryMode
  <2>2. mode # "osu" /\ CanMove(mode)
    BY <1>2 DEF OsuMoves
  <2> QED BY <1>1, <1>2, <2>1, <2>2, MoveKeepsIInv
<1>3. CASE ~(perf.mode = "osu" /\ OsuMoves(mode))
  <2>1. perf' = perf /\ given' = given
    BY <1>3 DEF TryMode
  <2> QED BY <1>1, <2>1, NothingChanges
<1> QED BY <1>2, <1>3

(***************************************************************************)
(* Generated states and the calculation                                    *)
(***************************************************************************)

(* Only the options of hit results have fields of other names.             *)
LEMMA OtherOptionsKeepTheirNames ==
  ASSUME NEW mode \in Modes, NEW o \in Takes(mode) \ HitOptions
  PROVE  FieldOf(mode)[o] = o
<1>1. CASE mode = "osu"
  BY <1>1, FieldTable DEF Options, ScoreOptions, HitOptions
<1>2. CASE mode = "taiko"
  BY <1>2, FieldTable
<1>3. CASE mode = "catch"
  BY <1>3, FieldTable DEF HitOptions
<1>4. CASE mode = "mania"
  BY <1>4, FieldTable DEF HitOptions
<1> QED BY <1>1, <1>2, <1>3, <1>4 DEF Modes

(* The fields of hit results, by name.                                     *)
LEMMA HitFieldNames ==
  ASSUME NEW mode \in Modes, NEW o \in HitOptions \cap Takes(mode)
  PROVE  FieldOf(mode)[o] \in {"n320", "n300", "n200", "n100", "n50", "fruits", "droplets",
                               "tiny_droplets", "tiny_droplet_misses", "large_tick_hits",
                               "small_tick_hits", "slider_end_hits", "misses"}
<1>1. CASE mode = "osu"
  BY <1>1, FieldTable DEF Options, ScoreOptions, HitOptions
<1>2. CASE mode = "taiko"
  BY <1>2, FieldTable DEF HitOptions, TaikoFields
<1>3. CASE mode = "catch"
  BY <1>3, FieldTable DEF HitOptions
<1>4. CASE mode = "mania"
  BY <1>4, FieldTable DEF HitOptions
<1> QED BY <1>1, <1>2, <1>3, <1>4 DEF Modes

(* A generated hit result is a number.                                     *)
LEMMA GeneratedIsNat ==
  ASSUME IInv, NEW f \in HitFields
  PROVE  Generated(f) \in Nat
<1>1. PICK o \in HitOptions \cap Takes(perf.mode) : f = FieldOf(perf.mode)[o]
  BY DEF HitFields
<1>2. perf.mode \in Modes /\ perf.fields[f] \in Nat \cup {None}
  BY DEF IInv, TypeInv
<1>3. CASE f = "misses"
  BY <1>2, <1>3 DEF Generated, OrElse
<1>4. CASE f # "misses"
  <2>1. f \in {"n320", "n300", "n200", "n100", "n50", "fruits", "droplets", "tiny_droplets",
               "tiny_droplet_misses", "large_tick_hits", "small_tick_hits", "slider_end_hits"}
    BY <1>1, <1>2, <1>4, HitFieldNames
  <2>2. DOMAIN FieldNames \subseteq Nat
    BY DEF FieldNames
  <2>3. \E i \in DOMAIN FieldNames : FieldNames[i] = f
    <3>1. /\ {1, 2, 3, 4, 5, 6, 7, 8, 9, 10, 11, 12} \subseteq DOMAIN FieldNames
          /\ FieldNames[1] = "n320" /\ FieldNames[2] = "n300" /\ FieldNames[3] = "n200"
          /\ FieldNames[4] = "n100" /\ FieldNames[5] = "n50" /\ FieldNames[6] = "fruits"
          /\ FieldNames[7] = "droplets" /\ FieldNames[8] = "tiny_droplets"
          /\ FieldNames[9] = "tiny_droplet_misses" /\ FieldNames[10] = "large_tick_hits"
          /\ FieldNames[11] = "small_tick_hits" /\ FieldNames[12] = "slider_end_hits"
      BY DEF FieldNames
    <3> QED BY <2>1, <3>1
  <2>4. (CHOOSE i \in DOMAIN FieldNames : FieldNames[i] = f) \in Nat
    BY <2>2, <2>3
  <2> QED BY <1>4, <2>4 DEF Generated
<1> QED BY <1>3, <1>4

(* The generator's results become the fields of the calculator, and what   *)
(* was given for them no longer counts.                                    *)
LEMMA StoreStateKeeps ==
  ASSUME IInv, StoreState, UNCHANGED made
  PROVE  /\ TypeInv' /\ OptionsInv' /\ ContentInv'
         /\ perf'.mode = perf.mode /\ perf'.fields = GeneratedFields
         /\ \A f \in HitFields' : perf'.fields[f] \in Nat
<1>1. /\ perf.mode \in Modes /\ IsContent(perf.content) /\ IsDifficulty(perf.difficulty)
      /\ perf = Calculator(perf.mode, perf.content, perf.difficulty, perf.fields)
      /\ perf.fields = [f \in DOMAIN NewFields(perf.mode) |-> perf.fields[f]]
      /\ DOMAIN given = Options \cup SettingNames
      /\ \A s \in SettingNames : perf.difficulty[s] = given[s]
      /\ \A o \in Options \ Takes(perf.mode) : given[o] = None
  BY DEF IInv, TypeInv, OptionsInv, OptionsReachTheCalculator
<1> DEFINE content == Inserted
           fields == GeneratedFields
<1>2. IsContent(content) /\ content.kind # "Map"
  <2>1. CASE HoldsMap
    BY <2>1, AttrsContentIsContent, ContentIs DEF Inserted
  <2>2. CASE ~HoldsMap
    BY <1>1, <2>2 DEF Inserted, HoldsMap
  <2> QED BY <2>1, <2>2
<1>3. fields = [f \in DOMAIN NewFields(perf.mode) |->
                  IF f \in HitFields THEN Generated(f)
                  ELSE IF f = "combo" THEN GeneratedCombo ELSE perf.fields[f]]
  <2>1. "combo" \notin HitFields
    BY <1>1, HitFieldNames DEF HitFields
  <2>2. ASSUME NEW f
        PROVE  (CASE f \in HitFields -> Generated(f) [] f = "combo" -> GeneratedCombo
                  [] OTHER -> perf.fields[f])
                 = IF f \in HitFields THEN Generated(f)
                   ELSE IF f = "combo" THEN GeneratedCombo ELSE perf.fields[f]
    BY <2>1
  <2>3. DOMAIN perf.fields = DOMAIN NewFields(perf.mode)
    BY <1>1
  <2> QED BY <2>2, <2>3 DEF GeneratedFields
<1>4. perf' = [perf EXCEPT !.content = content, !.fields = fields]
  BY DEF StoreState
<1> HIDE DEF content, fields
<1>5. perf' = Calculator(perf.mode, content, perf.difficulty, fields)
  <2>1. perf' = WithFields(WithContent(perf, content), fields)
    BY <1>4 DEF WithFields, WithContent
  <2>2. WithContent(Calculator(perf.mode, perf.content, perf.difficulty, perf.fields), content)
          = Calculator(perf.mode, content, perf.difficulty, perf.fields)
    BY CalculatorChanges
  <2>3. WithFields(Calculator(perf.mode, content, perf.difficulty, perf.fields), fields)
          = Calculator(perf.mode, content, perf.difficulty, fields)
    BY CalculatorChanges
  <2> QED BY <1>1, <2>1, <2>2, <2>3
<1>6. ASSUME NEW o \in HitOptions \cap Takes(perf.mode)
      PROVE  fields[FieldOf(perf.mode)[o]] \in Nat
  <2>1. FieldOf(perf.mode)[o] \in HitFields
    BY DEF HitFields
  <2>2. FieldOf(perf.mode)[o] \in DOMAIN NewFields(perf.mode)
    BY <1>1, OptionsHaveFields
  <2> QED BY <1>3, <2>1, <2>2, GeneratedIsNat
<1>7. given' = [x \in Options \cup SettingNames |->
                  IF x \in ScoreOptions \ {"legacy_total_score"} THEN None ELSE given[x]]
  BY <1>1 DEF StoreState
<1>8. /\ given' = [x \in Options \cup SettingNames |-> given'[x]]
      /\ fields = [f \in DOMAIN NewFields(perf.mode) |-> fields[f]]
  BY <1>3, <1>7
<1>9. /\ TypeInv' /\ ContentInv' /\ perf'.mode = perf.mode
      /\ perf'.difficulty = perf.difficulty /\ perf'.fields = fields
  BY <1>1, <1>2, <1>5, <1>6, <1>8, PartsBecome
<1>10. ASSUME NEW o \in Takes(perf.mode), given'[o] # None
       PROVE  fields[FieldOf(perf.mode)[o]] = given'[o]
  <2>1. o \in Options /\ FieldOf(perf.mode)[o] \in DOMAIN NewFields(perf.mode)
    BY <1>1, OptionsHaveFields
  <2>2. o \notin ScoreOptions \ {"legacy_total_score"} /\ given'[o] = given[o]
    BY <1>7, <1>10, <2>1
  <2>3. o \notin HitOptions /\ o # "combo"
    BY <2>2 DEF ScoreOptions, HitOptions
  <2>4. FieldOf(perf.mode)[o] = o
    BY <1>1, <2>3, OtherOptionsKeepTheirNames
  <2>5. FieldOf(perf.mode)[o] \notin HitFields
    BY <1>1, <2>3, OptionsHaveFields DEF HitFields
  <2>6. perf.fields[FieldOf(perf.mode)[o]] = given[o]
    BY <1>10, <2>2 DEF IInv, OptionsInv, OptionsReachTheCalculator
  <2> QED BY <1>3, <2>1, <2>2, <2>3, <2>4, <2>5, <2>6
<1>11. /\ \A s \in SettingNames : perf.difficulty[s] = given'[s]
       /\ \A o \in Options \ Takes(perf.mode) : given'[o] = None
  BY <1>1, <1>7, NamesAreApart DEF Options
<1>12. OptionsInv'
  BY <1>9, <1>10, <1>11 DEF OptionsInv, OptionsReachTheCalculator
<1>13. \A f \in HitFields' : fields[f] \in Nat
  BY <1>6, <1>9 DEF HitFields
<1> QED BY <1>9, <1>12, <1>13 DEF fields

(* generate_state and its checked form, with their errors and panics.      *)
LEMMA GenerateStateKeepsIInv ==
  ASSUME IInv, NEW checked \in BOOLEAN, GenerateState(checked)
  PROVE  IInv'
<1>1. CASE InsertError(checked) = None
  <2>1. /\ returned' = [kind |-> "state", state |-> ToState(GeneratedFields, perf.mode)]
        /\ StoreState /\ UNCHANGED made
    BY <1>1 DEF GenerateState, Call
  <2>2. returned'.state = ToState(GeneratedFields, perf.mode)
    BY <2>1
  <2> QED BY <2>1, <2>2, StoreStateKeeps DEF IInv, StateInv
<1>2. CASE InsertError(checked) # None
  <2>1. perf' = perf /\ given' = given /\ made' = made /\ returned'.kind # "state"
    BY <1>2 DEF GenerateState, Call
  <2> QED BY <2>1, NothingChanges
<1> QED BY <1>1, <1>2

(* calculate and its checked form.                                         *)
LEMMA CalculateKeepsIInv ==
  ASSUME IInv, NEW checked \in BOOLEAN, Calculate(checked)
  PROVE  IInv'
<1>1. returned'.kind # "state" /\ made' = made
  BY DEF Calculate, Call
<1>2. CASE InsertError(checked) = None
  <2>1. StoreState
    BY <1>2 DEF Calculate
  <2> QED BY <1>1, <2>1, StoreStateKeeps DEF IInv, StateInv
<1>3. CASE InsertError(checked) # None
  <2>1. perf' = perf /\ given' = given
    BY <1>3 DEF Calculate
  <2> QED BY <1>1, <2>1, NothingChanges
<1> QED BY <1>2, <1>3

(* Every call keeps the invariant.                                         *)
LEMMA NextKeepsIInv == IInv /\ [Next]_vars => IInv'
<1> SUFFICES ASSUME IInv, [Next]_vars PROVE IInv'
  OBVIOUS
<1>1. CASE UNCHANGED vars
  <2>1. perf' = perf /\ given' = given /\ made' = made /\ returned' = returned
    BY <1>1 DEF vars
  <2>2. TypeInv'
    BY <2>1 DEF IInv, TypeInv, HitFields
  <2>3. OptionsInv'
    BY <2>1 DEF IInv, OptionsInv, OptionsReachTheCalculator
  <2>4. ContentInv'
    BY <2>1 DEF IInv, ContentInv, HoldsMap
  <2>5. StateInv'
    BY <2>1 DEF IInv, StateInv, HitFields
  <2> QED BY <2>2, <2>3, <2>4, <2>5 DEF IInv
<1>2. CASE \E o \in Options : SetOption(o)
  BY <1>2, SetOptionKeepsIInv
<1>3. CASE \E s \in SettingNames : SetSetting(s)
  BY <1>3, SetSettingKeepsIInv
<1>4. CASE UseDifficulty
  BY <1>4, UseDifficultyKeepsIInv
<1>5. CASE UseState
  BY <1>5, UseStateKeepsIInv
<1>6. CASE \E mode \in Modes, ignore \in BOOLEAN : TryMode(mode, ignore)
  BY <1>6, TryModeKeepsIInv
<1>7. CASE \E checked \in BOOLEAN : GenerateState(checked)
  BY <1>7, GenerateStateKeepsIInv
<1>8. CASE \E checked \in BOOLEAN : Calculate(checked)
  BY <1>8, CalculateKeepsIInv
<1> QED BY <1>1, <1>2, <1>3, <1>4, <1>5, <1>6, <1>7, <1>8 DEF Next

(* The invariant holds of every calculator, whatever is called on it.      *)
THEOREM Invariance == Spec => []IInv
BY InitIInv, NextKeepsIInv, PTL DEF Spec

(* Every option the calculator has a field for, and every setting, holds   *)
(* what the user gave it last, in every mode it moves through              *)
(* (any/performance/mod.rs).                                               *)
THEOREM GivenIsKept == Spec => []OptionsReachTheCalculator
<1>1. IInv => OptionsReachTheCalculator
  BY DEF IInv, OptionsInv
<1> QED BY <1>1, Invariance, PTL

(***************************************************************************)
(* Generated states given back                                             *)
(***************************************************************************)

(* The number a generated state has for an option is that of its field.    *)
LEMMA ToStateIs ==
  ASSUME NEW fields, NEW mode, NEW o \in ScoreOptions \cap DOMAIN ToScoreState(mode)
  PROVE  ToState(fields, mode)[o] = fields[ToScoreState(mode)[o]]
BY DEF ToState

(* `state` takes back every number of a generated state.                   *)
LEMMA StateComesBack ==
  ASSUME NEW mode \in Modes, NEW fields, fields = [f \in DOMAIN NewFields(mode) |-> fields[f]]
  PROVE  WithState(fields, mode, ToState(fields, mode)) = fields
<1> DEFINE state == ToState(fields, mode)
<1>1. ASSUME NEW f \in StateOf(mode)
      PROVE  state[FromScoreState(mode)[f]] = fields[f]
  BY ConversionsAreInverse, ToStateIs
<1> HIDE DEF state
<1>2. WithState(fields, mode, state) =
        [f \in DOMAIN fields |->
           IF f \in StateOf(mode) THEN state[FromScoreState(mode)[f]] ELSE fields[f]]
  BY DEF WithState
<1>3. WithState(fields, mode, state) = [f \in DOMAIN fields |-> fields[f]]
  BY <1>1, <1>2
<1> QED BY <1>3 DEF state

(* The generic state and that of the mode count the same hits.             *)
LEMMA HitsAreKept ==
  ASSUME NEW mode \in Modes, NEW fields,
         \A o \in HitOptions \cap Takes(mode) : fields[FieldOf(mode)[o]] \in Nat
  PROVE  TotalHits(ToState(fields, mode), mode) = FieldHits(fields, mode)
<1> DEFINE state == ToState(fields, mode)
<1>1. \A o \in HitOptions \cap DOMAIN ToScoreState(mode) :
        state[o] = fields[ToScoreState(mode)[o]]
  BY ToStateIs DEF ScoreOptions
<1> HIDE DEF state
<1>2. CASE mode = "osu"
  <2>1. /\ state["n300"] = fields["n300"] /\ state["n100"] = fields["n100"]
        /\ state["n50"] = fields["n50"] /\ state["misses"] = fields["misses"]
    BY <1>1, <1>2, ToStateTable DEF HitOptions, OsuState
  <2>2. /\ fields["n300"] \in Nat /\ fields["n100"] \in Nat
        /\ fields["n50"] \in Nat /\ fields["misses"] \in Nat
    BY <1>2, FieldTable DEF Options, ScoreOptions, HitOptions
  <2>3. TotalHits(state, mode) = state["n300"] + state["n100"] + state["misses"] + state["n50"] + 0 + 0
    BY <1>2 DEF TotalHits
  <2>4. FieldHits(fields, mode) = fields["n300"] + fields["n100"] + fields["n50"] + fields["misses"]
    BY <1>2 DEF FieldHits
  <2> QED BY <2>1, <2>2, <2>3, <2>4 DEF state
<1>3. CASE mode = "taiko"
  <2>1. /\ state["n300"] = fields["n300"] /\ state["n100"] = fields["n100"]
        /\ state["misses"] = fields["misses"]
    BY <1>1, <1>3, ToStateTable DEF HitOptions, TaikoState
  <2>2. fields["n300"] \in Nat /\ fields["n100"] \in Nat /\ fields["misses"] \in Nat
    BY <1>3, FieldTable DEF HitOptions, TaikoFields
  <2>3. TotalHits(state, mode) = state["n300"] + state["n100"] + state["misses"] + 0 + 0 + 0
    BY <1>3 DEF TotalHits
  <2>4. FieldHits(fields, mode) = fields["n300"] + fields["n100"] + fields["misses"]
    BY <1>3 DEF FieldHits
  <2> QED BY <2>1, <2>2, <2>3, <2>4 DEF state
<1>4. CASE mode = "catch"
  <2>1. /\ state["n300"] = fields["fruits"] /\ state["n100"] = fields["droplets"]
        /\ state["n50"] = fields["tiny_droplets"]
        /\ state["n_katu"] = fields["tiny_droplet_misses"]
        /\ state["misses"] = fields["misses"]
    BY <1>1, <1>4, ToStateTable DEF HitOptions
  <2>2. /\ fields["fruits"] \in Nat /\ fields["droplets"] \in Nat
        /\ fields["tiny_droplets"] \in Nat /\ fields["tiny_droplet_misses"] \in Nat
        /\ fields["misses"] \in Nat
    BY <1>4, FieldTable DEF HitOptions
  <2>3. TotalHits(state, mode) = state["n300"] + state["n100"] + state["misses"]
                                   + state["n50"] + state["n_katu"] + 0
    BY <1>4 DEF TotalHits
  <2>4. FieldHits(fields, mode) = fields["fruits"] + fields["droplets"] + fields["tiny_droplets"]
                                    + fields["tiny_droplet_misses"] + fields["misses"]
    BY <1>4 DEF FieldHits
  <2> QED BY <2>1, <2>2, <2>3, <2>4 DEF state
<1>5. CASE mode = "mania"
  <2>1. /\ state["n_geki"] = fields["n320"] /\ state["n300"] = fields["n300"]
        /\ state["n_katu"] = fields["n200"] /\ state["n100"] = fields["n100"]
        /\ state["n50"] = fields["n50"] /\ state["misses"] = fields["misses"]
    BY <1>1, <1>5, ToStateTable DEF HitOptions
  <2>2. /\ fields["n320"] \in Nat /\ fields["n300"] \in Nat /\ fields["n200"] \in Nat
        /\ fields["n100"] \in Nat /\ fields["n50"] \in Nat /\ fields["misses"] \in Nat
    BY <1>5, FieldTable DEF HitOptions
  <2>3. TotalHits(state, mode) = state["n300"] + state["n100"] + state["misses"]
                                   + state["n50"] + state["n_katu"] + state["n_geki"]
    BY <1>5 DEF TotalHits
  <2>4. FieldHits(fields, mode) = fields["n320"] + fields["n300"] + fields["n200"]
                                    + fields["n100"] + fields["n50"] + fields["misses"]
    BY <1>5 DEF FieldHits
  <2> QED BY <2>1, <2>2, <2>3, <2>4 DEF state
<1> QED BY <1>2, <1>3, <1>4, <1>5 DEF Modes

(* A generated state given back through `state` changes nothing, and it    *)
(* counts as many hits as the fields of the mode, whatever was set before  *)
(* and in every mode (any/score_state.rs).                                 *)
THEOREM StatesAreReturned == Spec => []StatesRoundTrip
<1>1. IInv => StatesRoundTrip
  <2> SUFFICES ASSUME IInv, returned.kind = "state"
               PROVE  /\ WithState(perf.fields, perf.mode, returned.state) = perf.fields
                      /\ TotalHits(returned.state, perf.mode) = FieldHits(perf.fields, perf.mode)
    BY DEF StatesRoundTrip
  <2>1. /\ perf.mode \in Modes
        /\ perf.fields = [f \in DOMAIN NewFields(perf.mode) |-> perf.fields[f]]
        /\ returned.state = ToState(perf.fields, perf.mode)
        /\ \A f \in HitFields : perf.fields[f] \in Nat
    BY DEF IInv, TypeInv, StateInv
  <2>2. \A o \in HitOptions \cap Takes(perf.mode) : perf.fields[FieldOf(perf.mode)[o]] \in Nat
    BY <2>1 DEF HitFields
  <2> QED BY <2>1, <2>2, StateComesBack, HitsAreKept
<1> QED BY <1>1, Invariance, PTL

(***************************************************************************)
(* Maps and attributes                                                     *)
(***************************************************************************)

\* what ContentOnlyMovesForward says of one step
MovesForward ==
  /\ made' = "Performance" => returned'.kind # "panic"
  /\ perf.content.kind = "Attrs" => perf'.content = perf.content
  /\ HoldsMap /\ HoldsMap' /\ perf'.content # perf.content =>
       perf.content.map.mode = "osu" /\ ~perf.content.map.is_convert /\ perf'.mode # "osu"
  /\ returned'.kind \in {"Err", "error", "panic"} => perf' = perf
  /\ HoldsMap /\ ~HoldsMap' => perf'.content.settings = perf'.difficulty

(* The calls that set something leave the map or the attributes alone.     *)
LEMMA SettersMoveForward ==
  ASSUME perf'.content = perf.content, returned' = Silent
  PROVE  MovesForward
BY DEF MovesForward, Silent, HoldsMap

(* A setter changes the fields or the settings, not the content.           *)
LEMMA SettersKeepContent ==
  ASSUME IInv
  PROVE  /\ \A x : WithFields(perf, x).content = perf.content
         /\ \A x : WithSettings(perf, x).content = perf.content
<1>1. perf = Calculator(perf.mode, perf.content, perf.difficulty, perf.fields)
  BY DEF IInv, TypeInv
<1>2. \A m, c, d, f, x : /\ WithFields(Calculator(m, c, d, f), x).content = c
                         /\ WithSettings(Calculator(m, c, d, f), x).content = c
  BY CalculatorChanges, CalculatorIs
<1> QED BY <1>1, <1>2

(* Only an osu!standard map that is no convert is exchanged for its        *)
(* conversion.                                                             *)
LEMMA MoveMovesForward ==
  ASSUME IInv, NEW mode \in Modes, NEW ignore \in BOOLEAN, TryMode(mode, ignore)
  PROVE  MovesForward
<1>1. returned'.kind # "panic" /\ returned'.kind # "error"
  BY DEF TryMode, Call
<1>2. CASE perf.mode = "osu" /\ OsuMoves(mode)
  <2> DEFINE map == perf.content.map
             content == MapContent(Converted(map, mode, perf.difficulty.mods))
  <2>1. mode # "osu" /\ HoldsMap /\ CanConvert(map, mode)
    BY <1>2 DEF OsuMoves, CanMove
  <2>2. returned'.kind = "Ok"
    BY <1>2 DEF TryMode, Call, OsuMoves, OsuAccepts
  <2>3. perf' = MovedTo(mode)
    BY <1>2 DEF TryMode
  <2>4. perf'.content = content /\ perf'.mode = mode
    BY <2>3 DEF MovedTo
  <2>5. content.kind = "Map"
    BY ContentIs
  <2>6. map.mode = mode => content = perf.content
    BY <2>1 DEF Converted, HoldsMap, IInv, TypeInv, IsContent
  <2>7. map.mode # mode => map.mode = "osu" /\ ~map.is_convert
    BY <2>1 DEF CanConvert
  <2> HIDE DEF content, map
  <2> QED BY <2>1, <2>2, <2>4, <2>5, <2>6, <2>7 DEF MovesForward, HoldsMap, map
<1>3. CASE ~(perf.mode = "osu" /\ OsuMoves(mode))
  <2>1. perf' = perf
    BY <1>3 DEF TryMode
  <2> QED BY <1>1, <2>1 DEF MovesForward, HoldsMap
<1> QED BY <1>2, <1>3

(* A calculator whose map is of its mode, or that has attributes, has no   *)
(* other error than the suspicion.                                         *)
LEMMA ErrorsOfPerformance ==
  ASSUME IInv, made = "Performance", NEW checked \in BOOLEAN
  PROVE  InsertError(checked) \in {None, "Suspicion"}
<1>1. HoldsMap => CanConvert(perf.content.map, perf.mode)
  BY DEF IInv, ContentInv, CanConvert
<1> QED BY <1>1 DEF InsertError

(* Attributes that are inserted are those of the calculator's settings.    *)
LEMMA InsertionMovesForward ==
  ASSUME IInv, StoreState, returned'.kind \notin {"Err", "error", "panic"}
  PROVE  MovesForward
<1>1. perf' = [perf EXCEPT !.content = Inserted, !.fields = GeneratedFields]
  BY DEF StoreState
<1>2. perf = Calculator(perf.mode, perf.content, perf.difficulty, perf.fields)
  BY DEF IInv, TypeInv
<1>3. perf'.content = Inserted /\ perf'.difficulty = perf.difficulty
  BY <1>1, <1>2 DEF Calculator
<1>4. CASE HoldsMap
  <2>1. Inserted = AttrsContent(perf.mode, perf.difficulty)
    BY <1>4 DEF Inserted
  <2> QED BY <1>3, <1>4, <2>1, ContentIs DEF MovesForward, HoldsMap
<1>5. CASE ~HoldsMap
  <2>1. Inserted = perf.content
    BY <1>5 DEF Inserted
  <2> QED BY <1>3, <1>5, <2>1 DEF MovesForward, HoldsMap
<1> QED BY <1>4, <1>5

(* A failing call leaves the calculator as it was; it panics only if the   *)
(* calculator was not made through `Performance`.                          *)
LEMMA CalculationMovesForward ==
  ASSUME IInv, NEW checked \in BOOLEAN, GenerateState(checked) \/ Calculate(checked)
  PROVE  MovesForward
<1>1. CASE InsertError(checked) = None
  <2>1. StoreState /\ returned'.kind \in {"state", "attributes"}
    BY <1>1 DEF GenerateState, Calculate, Call
  <2> QED BY <2>1, InsertionMovesForward
<1>2. CASE InsertError(checked) # None
  <2>1. perf' = perf /\ made' = made
    BY <1>2 DEF GenerateState, Calculate
  <2>2. returned'.kind = "panic" => InsertError(checked) # "Suspicion"
    BY <1>2 DEF GenerateState, Calculate, Call
  <2>3. made = "Performance" => returned'.kind # "panic"
    BY <1>2, <2>2, ErrorsOfPerformance
  <2> QED BY <2>1, <2>3 DEF MovesForward, HoldsMap
<1> QED BY <1>1, <1>2

(* Attributes are never exchanged again, a map only by a conversion from   *)
(* osu!standard, a call that fails changes nothing, and what was made      *)
(* through `Performance` does not panic (MapOrAttrs,                       *)
(* any/performance/mod.rs).                                                *)
THEOREM ContentMovesForward == Spec => ContentOnlyMovesForward
<1>1. IInv /\ Next => MovesForward
  <2> SUFFICES ASSUME IInv, Next PROVE MovesForward
    OBVIOUS
  <2>1. CASE \E o \in Options : SetOption(o)
    <3>1. returned' = Silent
      BY <2>1 DEF SetOption, Call
    <3>2. perf' = perf \/ \E fields : perf' = WithFields(perf, fields)
      BY <2>1 DEF SetOption, WithFields
    <3> QED BY <3>1, <3>2, SettersKeepContent, SettersMoveForward
  <2>2. CASE \E s \in SettingNames : SetSetting(s)
    <3>1. returned' = Silent
      BY <2>2 DEF SetSetting, Call
    <3>2. perf' = perf \/ \E d : perf' = WithSettings(perf, d)
      BY <2>2 DEF SetSetting, WithSettings
    <3> QED BY <3>1, <3>2, SettersKeepContent, SettersMoveForward
  <2>3. CASE UseDifficulty
    <3>1. returned' = Silent /\ \E d : perf' = WithSettings(perf, d)
      BY <2>3 DEF UseDifficulty, Call, WithSettings
    <3> QED BY <3>1, SettersKeepContent, SettersMoveForward
  <2>4. CASE UseState
    <3>1. returned' = Silent /\ \E fields : perf' = WithFields(perf, fields)
      BY <2>4 DEF UseState, Call, WithFields
    <3> QED BY <3>1, SettersKeepContent, SettersMoveForward
  <2>5. CASE \E mode \in Modes, ignore \in BOOLEAN : TryMode(mode, ignore)
    BY <2>5, MoveMovesForward
  <2>6. CASE \E checked \in BOOLEAN : GenerateState(checked) \/ Calculate(checked)
    BY <2>6, CalculationMovesForward
  <2> QED BY <2>1, <2>2, <2>3, <2>4, <2>5, <2>6 DEF Next
<1>2. IInv /\ [Next]_vars => [MovesForward]_vars
  BY <1>1
<1> QED BY <1>2, Invariance, PTL DEF Spec, ContentOnlyMovesForward, MovesForward
=============================================================================
