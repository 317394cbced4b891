---------------------------- MODULE MCPreparation ----------------------------
(***************************************************************************)
(* Maps and lists that are small, but where every branch of the            *)
(* preparation is taken.                                                   *)
(***************************************************************************)
EXTENDS Preparation

(* Ids of the note density: the times that can be pushed.                  *)
MCElements == {10 * i : i \in 0 .. 510}

SeqsOf(S, n) == [1 .. n -> S]

(***************************************************************************)
(* Conversions to osu!mania                                                *)
(***************************************************************************)
Map(keys, drain, choices) ==
  [keys |-> keys, cs |-> 40, od |-> 50, hp |-> 50, ar |-> 90, hitObjects |-> 100, long |-> 30,
   drain |-> drain, beat |-> 500, choices |-> choices]
Object ==
  [gaps |-> {400}, nears |-> {TRUE}, sounds |-> {{}}, xs |-> {150}, kiais |-> {FALSE},
   sliders |-> {}, heads |-> {{}}, ends |-> {}]
First  == [Object EXCEPT !.gaps = {200}, !.sounds = {{}, {"CLAP"}, {"CLAP", "FINISH"}}]
Second == [First EXCEPT !.gaps = {60, 90, 100, 120, 130, 140, 400}]
Stream == [Object EXCEPT !.gaps = {90, 100}]
Slider == [Object EXCEPT !.sliders = {<<1, 60>>, <<1, 100>>, <<1, 300>>, <<2, 160>>, <<3, 300>>,
                                      <<2, 301>>, <<2, 360>>, <<2, 900>>, <<2, 4000>>},
                         !.ends = {50, 300}]
(* Its choices are none: the map of a job that converts nothing.           *)
Idle == Map(4, 200, <<>>)

MCScenarios ==
  {Idle}
  \cup {Map(1, 200, [i \in 1 .. 8 |-> [Object EXCEPT !.gaps = {60, 400}]])}
  \cup {Map(k, 200, <<Object, Stream, Stream, Stream>>) : k \in {3, 8}}
  \cup {Map(k, d, <<First, Second>>) : k \in 2 .. 8, d \in {200, 80, 40, 15}}
  \cup {Map(k, 55, <<First, Slider>>) : k \in {2, 3, 4, 7}}
  \cup {Map(0, d, <<First, Slider>>) : d \in {200, 40, 15}}
  \cup {[Map(0, 200, <<First>>) EXCEPT !.long = l, !.cs = c, !.od = o] :
          l \in {10, 25, 50, 70}, c \in {40, 50}, o \in {20, 45, 60}}

(***************************************************************************)
(* Sorts and the check for suspicion                                       *)
(***************************************************************************)
Keys(times) == [i \in DOMAIN times |-> [time |-> times[i], id |-> i]]

Sorts ==
  {[kind |-> "sort", keys |-> Keys(times), depth |-> depth, threshold |-> threshold] :
     times \in SeqsOf({0, 1, 2}, 2) \cup SeqsOf({0, 1, 2}, 3) \cup SeqsOf({0, 1, 2}, 5)
               \cup SeqsOf({0, 1}, 8),
     depth \in 0 .. 2, threshold \in {3, 16}}

MCLimits ==
  [objects |-> 4, taikoObjects |-> 5, length |-> 30000, second |-> 1, tenSeconds |-> 2,
   repeats |-> 1, pos |-> 100, cutoff |-> 1]

Placed(gaps, shapes) ==
  LET shape(s) == CASE s = "circle" -> <<"circle", 0, 0>>
                    [] s = "repeating" -> <<"slider", 2, 0>>
                    [] s = "far" -> <<"slider", 0, -101>>
                    [] s = "both" -> <<"slider", 2, 101>>
  IN  [i \in DOMAIN gaps |->
         [time |-> FoldLeft(LAMBDA a, b : a + b, 0, SubSeq(gaps, 1, i)),
          kind |-> shape(shapes[i])[1], repeats |-> shape(shapes[i])[2], x |-> shape(shapes[i])[3]]]

Suspicions ==
  {[kind |-> "suspicion", mode |-> mode, cs |-> 4, objects |-> objects] :
     mode \in {"osu", "taiko", "catch", "mania"},
     objects \in {Placed(gaps, [i \in 1 .. 5 |-> "circle"]) : gaps \in SeqsOf({400, 2000, 11000}, 5)}
                 \cup {Placed([i \in 1 .. 4 |-> 6000], shapes) :
                         shapes \in SeqsOf({"circle", "repeating", "far", "both"}, 4)}}

(***************************************************************************)
(* The mods of osu!mania                                                   *)
(***************************************************************************)
Press(time, length, column, keys) ==
  [time |-> time, end |-> time + length, x |-> ColumnToPos(column, keys), hold |-> length > 0]

ModNotes(keys) ==
  {<<Press(0, a, 0, keys), Press(gap, b, c, keys), Press(gap + 200, d, e, keys)>> :
     a \in {0, 100, 300}, b \in {0, 100}, d \in {0, 400}, gap \in {0, 200},
     c \in {0, 1}, e \in {0, keys - 1}}

ManiaJobs ==
  UNION {{[kind |-> "mania mods", notes |-> notes, total |-> keys, beat |-> 400, mods |-> mods,
           shuffle |-> shuffle] :
            notes \in ModNotes(keys), mods \in SUBSET {"HoldOff", "Invert"},
            shuffle \in {<<>>, [c \in 0 .. keys - 1 |-> (c + 1) % keys]}} : keys \in {2, 4, 7}}

(***************************************************************************)
(* The objects of the other modes                                          *)
(***************************************************************************)
(* A slider of dist * 10 ms in a span at a velocity of 100 %.              *)
BaseMap ==
  [version |-> 14, multiplier |-> 10, tickRate |-> 10, beat |-> 100, threshold |-> 400,
   velocities |-> <<>>]

OsuKinds(time) ==
  {[kind |-> "circle", time |-> time, pos |-> pos] : pos \in {<<100, 100>>, <<130, 200>>}}
  \cup {[kind |-> "slider", time |-> time, pos |-> <<100, 100>>, path |-> <<30, 100>>, dist |-> 3,
         spans |-> spans, ticks |-> TRUE] : spans \in {1, 2}}
  \cup {[kind |-> "slider", time |-> time, pos |-> <<130, 200>>, path |-> <<0, 0>>, dist |-> 0,
         spans |-> 1, ticks |-> FALSE],
        [kind |-> "hold", time |-> time, pos |-> <<100, 100>>, duration |-> 20]}

OsuJobs ==
  {[kind |-> "osu",
    map |-> [BaseMap EXCEPT !.version = version, !.threshold = threshold]
            @@ [objects |-> <<a, b, c, d>>]] :
     version \in {5, 14}, threshold \in {100, 400}, a \in OsuKinds(0), b \in OsuKinds(100),
     c \in OsuKinds(200), d \in OsuKinds(300)}

(* A circle, a short and a long slider with sounds of its own or without.  *)
TaikoKinds(time) ==
  {[kind |-> "circle", time |-> time], [kind |-> "hold", time |-> time]}
  \cup {[kind |-> "slider", time |-> time, spans |-> 3, dist |-> 5, nodes |-> nodes] :
          nodes \in {<<>>, <<{"CLAP"}, {"WHISTLE", "FINISH"}>>}}
  \cup {[kind |-> "slider", time |-> time, spans |-> 1, dist |-> 25, nodes |-> <<{}>>]}

TaikoMaps ==
  {[kind |-> "taiko map", rims |-> rims,
    map |-> [BaseMap EXCEPT !.version = version, !.velocities = velocities]
            @@ [objects |-> objects, effects |-> effects,
                sounds |-> [i \in DOMAIN objects |-> IF i % 2 = 0 THEN {"CLAP"} ELSE {"FINISH"}]]] :
     version \in {7, 14}, rims \in {{}, {1, 3}},
     velocities \in {<<>>, <<NewDifficultyPoint(40, -50)>>},
     effects \in {<<>>, <<NewEffectPoint(0, TRUE, 100)>>,
                  <<NewEffectPoint(30, TRUE, 100), NewEffectPoint(60, FALSE, 150)>>},
     objects \in {<<a, b, c>> : a \in TaikoKinds(0), b \in TaikoKinds(60),
                               c \in TaikoKinds(100)}}

(* The first two objects are looked at only.                               *)
Hits(types, gaps) ==
  [i \in DOMAIN types |->
     [type |-> types[i], time |-> FoldLeft(LAMBDA a, b : a + b, 0, SubSeq(gaps, 1, i))]]

TaikoHits ==
  {[kind |-> "taiko groups", hits |-> Hits(<<"Center", "Center">> \o types, gaps)] :
     types \in SeqsOf({"Center", "Rim", "NonHit"}, 6), gaps \in {[i \in 1 .. 8 |-> 100]}}
  \cup
  {[kind |-> "taiko groups", hits |-> Hits(types, <<0, 100>> \o gaps)] :
     types \in {[i \in 1 .. 8 |-> "Rim"]}, gaps \in SeqsOf({100, 104, 108, 200}, 6)}
  \cup
  {[kind |-> "taiko groups", hits |-> Hits(<<"Center", "Center">> \o types, [i \in 1 .. 11 |-> 100])] :
     types \in SeqsOf({"Center", "Rim"}, 9)}

CatchKinds(time) ==
  {[kind |-> "circle", time |-> time, x |-> 1000 * x] : x \in {10, 200, 400}}
  \cup {[kind |-> "slider", time |-> time, x |-> 200000, reach |-> 1000 * reach, dist |-> dist,
         spans |-> spans] : reach \in {-150}, dist \in {0, 16}, spans \in {1, 2}}
  \cup {[kind |-> "spinner", time |-> time, duration |-> 50]}

CatchJobs ==
  {[kind |-> "catch", hrOffsets |-> hrOffsets, draw |-> [right |-> right, far |-> 50],
    map |-> BaseMap @@ [cs |-> cs, objects |-> <<a, b, c>>]] :
     hrOffsets \in BOOLEAN, right \in BOOLEAN, cs \in {40},
     a \in CatchKinds(0), b \in CatchKinds(90), c \in CatchKinds(150)}

(***************************************************************************)
(* Strains: difficulty objects around the ends of sections of two ticks.   *)
(* Columns are of osu!mania only; which objects the reading skill sees has *)
(* nothing to do with the other skills, and varies with one of them.       *)
(***************************************************************************)
StrainObjects(first, gaps, values, factors, columns, unit) ==
  [i \in 1 .. 4 |->
     [time |-> FoldLeft(LAMBDA a, b : a + b, first, SubSeq(gaps, 1, i - 1)),
      delta |-> IF i = 1 THEN 1 ELSE gaps[i - 1],
      value |-> unit * values[i], factor |-> factors[i], column |-> columns[i]]]

StrainJobs ==
  UNION {
    {[kind |-> "strains", skill |-> NewSkill(kind, 2, unit),
      objects |-> StrainObjects(first, gaps, values, factors, columns, unit),
      weights |-> <<64, 32, 16, 8, 4, 2, 1>>, scales |-> <<6, 7, 8>>,
      seen |-> seen, preempt |-> preempt] :
       kind \in {k}, unit \in {IF k = "mania" THEN 2 ^ 16 ELSE 2 ^ 10},
       first \in {-1, 2, 3}, gaps \in {g \in SeqsOf({0, 1, 3}, 3) : g # <<3, 3, 3>>},
       values \in {<<1, 2, 1, 2>>, <<0, 0, 2, 1>>}, factors \in {<<1, 0, 1, 1>>},
       columns \in {<<1, 1, 2, 1>>} \cup IF k = "mania" THEN {<<1, 2, 2, 1>>} ELSE {},
       seen \in {1 .. 4} \cup IF k = "decay" THEN {{1, 4}, {2, 3}} ELSE {}, preempt \in {2}} :
    k \in {"decay", "speed", "single", "mania"}}

MCJobs ==
  Sorts \cup Suspicions \cup ManiaJobs \cup OsuJobs \cup TaikoMaps \cup TaikoHits \cup CatchJobs
  \cup StrainJobs
=============================================================================
