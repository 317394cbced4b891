----------------------------- MODULE MCDecoding -----------------------------
(***************************************************************************)
(* Files of a few lines, of each of the sections that interact.            *)
(***************************************************************************)
EXTENDS Decoding

Timing(time, beat, change, kiai) ==
  [section |-> "TimingPoints", time |-> time, beat |-> beat, meter |-> 4,
   change |-> change, kiai |-> kiai]

General(key, value) == [section |-> "General", key |-> key, value |-> value]
Setting(key, value) == [section |-> "Difficulty", key |-> key, value |-> value]

Object(kind, time, sound, end) ==
  [section |-> "HitObjects", kind |-> kind, time |-> time, sound |-> sound, end |-> end,
   filename |-> FALSE, path |-> <<>>, repeats |-> 1, nodes |-> <<>>]

Letter(l) == [letter |-> l, pos |-> Unreadable]
Point(x, y) == [letter |-> NoLetter, pos |-> <<x, y>>]
Blank == [letter |-> Empty, pos |-> Unreadable]
Garbage == [letter |-> NoLetter, pos |-> Unreadable]

SliderLine(path) == [Object("slider", 5, {"normal"}, 0) EXCEPT !.path = path]

TimingLinesOfFiles ==
  { Timing(0, 500, TRUE, FALSE), Timing(1, 300, TRUE, TRUE), Timing(1, -50, FALSE, FALSE),
    Timing(1, -50, FALSE, TRUE), Timing(2, -100, FALSE, TRUE), Timing(2, -2, FALSE, FALSE),
    Timing(2, NaN, FALSE, FALSE), Timing(1, NaN, TRUE, FALSE),
    [Timing(1, 400, TRUE, FALSE) EXCEPT !.meter = 0] }

Settings ==
  { Setting("od", 80), Setting("od", 120), Setting("ar", 95), Setting("ar", -10),
    Setting("cs", 170), Setting("hp", 30), Setting("multiplier", 40), Setting("tick_rate", 20),
    General("Mode", "mania"), General("StackLeniency", 5),
    [section |-> "Events", start |-> 10, end |-> 5],
    [section |-> "Events", start |-> 20, end |-> 30] }

Objects ==
  { Object("circle", 2, {"normal"}, 0), Object("circle", 1, {"clap"}, 0),
    [Object("circle", 2, {"normal", "clap"}, 0) EXCEPT !.filename = TRUE],
    Object("spinner", 0, {"whistle"}, 4), Object("hold", 3, {"finish"}, 1),
    Object("unknown", 0, {}, 0) }

Sliders ==
  { SliderLine(<<Letter("L"), Point(1, 0), Point(1, 0), Point(2, 0)>>),
    SliderLine(<<Letter("B"), Point(1, 1), Point(1, 1), Point(2, 3), Letter("P"), Point(2, 4), Point(3, 5)>>),
    SliderLine(<<Letter("P"), Point(1, 1), Point(2, 2)>>),
    SliderLine(<<Letter("P"), Point(1, 1), Point(2, 0)>>),
    SliderLine(<<Letter("C"), Point(0, 0), Point(3, 3), Point(3, 3), Letter("L"), Letter("L"), Point(4, 4)>>),
    SliderLine(<<Letter("B"), Point(1, 1), Letter("C"), Letter("B"), Point(2, 2)>>),
    SliderLine(<<Letter("B"), Point(1, 1), Letter("L"), Point(2, 2), Garbage>>),
    SliderLine(<<Letter("B"), Point(1, 1), Letter("L"), Point(2, 2), Blank>>),
    [SliderLine(<<Letter("L"), Point(9, 9)>>) EXCEPT !.repeats = 9001],
    [SliderLine(<<Letter("L"), Point(7, 7)>>) EXCEPT !.repeats = 3, !.nodes = <<{"clap"}>>] }

MCContents ==
  { TimingLinesOfFiles,
    {Timing(0, 300, TRUE, TRUE), Timing(1, -50, FALSE, FALSE), Timing(1, -25, FALSE, FALSE),
     Timing(2, -50, FALSE, FALSE), General("Mode", "taiko"), General("Mode", "osu")},
    Settings, Objects, Sliders }
=============================================================================
