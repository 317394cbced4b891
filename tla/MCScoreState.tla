---------------------------- MODULE MCScoreState -----------------------------
(***************************************************************************)
(* Small maps, and requests for them, of each mode.                        *)
(***************************************************************************)
EXTENDS ScoreState

MCBeatmap ==
  [ osu   |-> << [objects |-> 1, sliders |-> 0, large |-> 0],
                 [objects |-> 1, sliders |-> 1, large |-> 1],
                 [objects |-> 1, sliders |-> 0, large |-> 0],
                 [objects |-> 1, sliders |-> 0, large |-> 0] >>,
    taiko |-> << [hits |-> 1], [hits |-> 1], [hits |-> 1], [hits |-> 1], [hits |-> 1] >>,
    catch |-> << [fruits |-> 1, droplets |-> 0, tiny |-> 0],
                 [fruits |-> 1, droplets |-> 0, tiny |-> 0],
                 [fruits |-> 0, droplets |-> 1, tiny |-> 2],
                 [fruits |-> 1, droplets |-> 0, tiny |-> 0] >>,
    mania |-> << [objects |-> 1, holds |-> 0],
                 [objects |-> 1, holds |-> 1],
                 [objects |-> 1, holds |-> 0] >> ]

MCPassed == {2, 9}
MCMisses == {0, 9}
MCAccuracies == {0, 3, 5, 8}

Options(numbers, judgements, combos, ticks) ==
  [ given     : [1 .. judgements -> numbers \cup {None}],
    misses    : {None, 1},
    combo     : combos,
    acc       : {None} \cup MCAccuracies,
    best_case : BOOLEAN,
    generator : {None, "Closest", "IgnoreAccuracy"},
    passed    : {9},
    ticks     : ticks,
    lazer     : BOOLEAN,
    classic   : BOOLEAN ]

NoTicks == <<None, None, None>>

(* Stable scores have no use for the Classic mod, and only osu!standard    *)
(* and osu!mania tell the scores apart.                                    *)
MCRequests ==
  [ osu   |-> {p \in Options({0, 2}, 3, {None}, {NoTicks, <<0, 1, 0>>}) : p.lazer \/ (~p.classic /\ p.ticks = NoTicks)},
    taiko |-> {p \in Options({0, 1, 3, 9}, 2, {None, 2}, {NoTicks}) : p.lazer /\ ~p.classic},
    catch |-> {p \in Options({0, 2}, 4, {None, 2}, {NoTicks}) : p.lazer /\ ~p.classic /\ p.best_case},
    mania |-> {p \in Options({2}, 5, {None}, {NoTicks}) :
               p.lazer /\ p.misses = 1 /\ p.acc \in {None, 3, 8}} ]
=============================================================================
