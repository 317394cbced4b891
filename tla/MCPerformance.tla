---------------------------- MODULE MCPerformance ----------------------------
\* Small instances of PerformanceBuilder.
EXTENDS PerformanceBuilder, TLC

LOCAL Map(mode, is_convert, suspicious, ar) ==
  [mode |-> mode, is_convert |-> is_convert, suspicious |-> suspicious,
   ar |-> Whole(ar), od |-> Whole(8), cs |-> Whole(4), hp |-> Whole(6)]

\* an approach rate beyond the range, a converted and a suspicious map
MCMaps == {Map("osu", FALSE, FALSE, 11), Map("osu", FALSE, TRUE, 9), Map("taiko", TRUE, FALSE, 9),
           Map("catch", FALSE, FALSE, 9), Map("mania", FALSE, FALSE, 9)}

LOCAL Adjust(ar, od) == [ar |-> ar, od |-> od, cs |-> None, hp |-> Whole(2),
                         hardrock_offsets |-> None, scroll_speed |-> None]

MCMods == {LegacyMods({"HardRock", "Nightcore", "4K"}), IntermodeMods({"Easy", "Classic"}), IntermodeMods({"HalfTime"}),
           LazerMods("osu", [m \in {"DoubleTime", "HardRock", "DifficultyAdjust"} |->
                       CASE m = "DoubleTime" -> Frac(13, 10) [] m = "HardRock" -> None
                         [] OTHER -> Adjust(Whole(9), None)]),
           LazerMods("taiko", [m \in {"Easy", "DifficultyAdjust"} |->
                       IF m = "Easy" THEN None ELSE Adjust(Whole(9), Whole(3))]),
           LazerMods("catch", [m \in {"Classic", "DifficultyAdjust"} |->
                       IF m = "Classic" THEN FALSE ELSE [Adjust(None, Whole(3)) EXCEPT !.hardrock_offsets = TRUE]])}

LOCAL Value(v) == [v |-> Whole(v), fixed |-> FALSE]
LOCAL Final(v) == [v |-> Whole(v), fixed |-> TRUE]

MCInputs ==
  [o \in HitOptions |-> {1}]
    @@ [combo |-> {9}, legacy_total_score |-> {7}, accuracy |-> {Whole(98), Whole(130)},
        hitresult_priority |-> {"WorstCase"}, hitresult_generator |-> {"Closest"},
        mods |-> MCMods, passed_objects |-> {2}, clock_rate |-> {Frac(3, 2), Whole(0)},
        ar |-> {Value(7), Final(8), Final(25)}, od |-> {Value(9), Final(6)},
        cs |-> {Value(3)}, hp |-> {Final(9)},
        hardrock_offsets |-> {FALSE}, lazer |-> {FALSE}]

MCStates ==
  {[o \in ScoreOptions |-> IF o = "legacy_total_score" THEN None ELSE IF o = "misses" THEN 0 ELSE 5]}

MCSettings == {[NewDifficulty EXCEPT !.ar = Attribute("Fixed", Whole(3)), !.lazer = FALSE]}
=============================================================================
