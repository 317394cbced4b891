------------------------------ MODULE Decoding ------------------------------
(***************************************************************************)
(* Decoding a .osu file into a beatmap, src/model/beatmap/decode.rs.       *)
(*                                                                         *)
(* rosu_map, an external library, splits the file into lines and hands     *)
(* each to the parser of its section; a line whose parser fails is         *)
(* skipped, with whatever the parser had changed before. A line is a       *)
(* record of what its parser tells apart. Difficulty settings are in       *)
(* tenths, times in milliseconds.                                          *)
(***************************************************************************)
EXTENDS ControlPoints, Sorting

(*************************************************************************)
(* The path of a slider, convert_path_str and convert_points. A path     *)
(* string is a list of tokens, letters for the type of a segment and     *)
(* points; a letter after the first ends the segment before it. The points *)
(* go to the decoder's curve_points, which keep those of the segments    *)
(* before one that fails.                                                *)
(*************************************************************************)

CONSTANTS
  NoLetter,   (* The type of a token that is a point.                      *)
  Empty,      (* The type of an empty token.                               *)
  Unreadable  (* The position of a token that no point can be read from.   *)

Head0 == <<0, 0>>

(* PathType::new_from_str: what is no B, L or P is a Catmull curve.        *)
PathTypeOf(token) == IF token.letter \in {"B", "L", "P"} THEN token.letter ELSE "C"

(* is_linear: the three points lie on a line.                              *)
IsLinear(p, q, r) == (q[2] - p[2]) * (r[1] - p[1]) = (q[1] - p[1]) * (r[2] - p[2])

EffectiveType(type, points) ==
  CASE type = "P" /\ Len(points) = 3 -> IF IsLinear(points[1], points[2], points[3])
                                        THEN "L" ELSE "P"
    [] type = "P" /\ Len(points) # 3 -> "B"
    [] OTHER                         -> type

Untyped(pos) == [pos |-> pos, type |-> NoLetter]

(* A vertex equal to the one before it starts a new piece of the segment:  *)
(* the one before it gets the type and the vertex itself is left out.      *)
Pieces(vertices, type, n) ==
  LET splits(i) == /\ vertices[i].pos = vertices[i - 1].pos
                   /\ type # "C" \/ i <= 2
                   /\ i # n
      visit(c, i) ==
        LET marked == [c.vertices EXCEPT ![i - 1].type = type]
        IN  IF splits(i)
            THEN [start    |-> i + 1,
                  vertices |-> marked,
                  out      |-> c.out \o SubSeq(marked, c.start, i - 1)]
            ELSE c
      last == FoldLeft(visit, [start |-> 1, vertices |-> vertices, out |-> <<>>], Interval(2, n))
  IN  last.out \o SubSeq(last.vertices, last.start, Greatest(1, n))

(* convert_points of one segment, a letter and what follows it. `end` is   *)
(* the point the next segment begins with, or nothing.                     *)
ConvertPoints(curve, segment, end, first) ==
  LET points == (IF first THEN <<Head0>> ELSE <<>>)
                  \o [i \in 1 .. Len(segment) - 1 |-> segment[i + 1].pos]
                  \o [i \in 1 .. Len(end) |-> end[i].pos]
      type   == EffectiveType(PathTypeOf(segment[1]), points)
      vertices == [i \in DOMAIN points |->
                    [Untyped(points[i]) EXCEPT !.type = IF i = 1 THEN type ELSE NoLetter]]
  IN  IF points = <<>> \/ Contains(points, Unreadable)
      THEN [ok |-> FALSE, curve |-> curve]
      ELSE [ok |-> TRUE, curve |-> curve \o Pieces(vertices, type, Len(points) - Len(end))]

(* convert_path_str: the segments in order, until one fails.               *)
ConvertPath(curve, tokens) ==
  LET close(c, upto) ==
        LET r == ConvertPoints(c.curve, SubSeq(tokens, c.start, upto),
                               SubSeq(tokens, upto + 2, Least(upto + 2, Len(tokens))),
                               c.start = 1)
        IN  [c EXCEPT !.ok = r.ok, !.curve = r.curve, !.start = upto + 1]
      visit(c, i) ==
        CASE ~c.ok                        -> c
          [] tokens[i].letter = Empty     -> [c EXCEPT !.ok = FALSE]
          [] tokens[i].letter = NoLetter  -> c
          [] OTHER                        -> close(c, i - 1)
      seen == FoldLeft(visit, [ok |-> TRUE, curve |-> curve, start |-> 1],
                       Interval(2, Len(tokens)))
  IN  IF seen.ok THEN close(seen, Len(tokens)) ELSE seen

(* The positions a path runs through: its head, and the points it names.   *)
PathPositions(tokens) ==
  <<Head0>> \o LET points == SelectSeq(Tail(tokens), LAMBDA t : t.letter = NoLetter)
               IN  [i \in DOMAIN points |-> points[i].pos]

WithoutRepeats(positions) ==
  LET visit(out, p) == IF out # <<>> /\ Last(out) = p THEN out ELSE Append(out, p)
  IN  FoldLeft(visit, <<>>, positions)

(*************************************************************************)
(* The decoder                                                           *)
(*************************************************************************)

CONSTANTS
  None,      (* Option::None                                               *)
  MaxLines,  (* Bound on the number of lines of a file.                    *)
  Contents   (* What files are made of: a file draws its lines from one of *)
             (* these sets.                                                *)

(* The lines that rosu_map hands on, as the parsers read them.             *)
Tokens == [letter : {"B", "L", "P", "C", NoLetter, Empty}, pos : (Int \X Int) \cup {Unreadable}]

Sounds == {"normal", "whistle", "finish", "clap"}

GeneralLines ==
  [section : {"General"}, key : {"Mode"}, value : {"osu", "taiko", "catch", "mania"}]
    \cup [section : {"General"}, key : {"StackLeniency"}, value : Int]
DifficultyLines ==
  [section : {"Difficulty"}, key : {"hp", "cs", "od", "ar", "multiplier", "tick_rate"}, value : Int]
EventLines == [section : {"Events"}, start : Int, end : Int]
TimingPointLines ==
  [section : {"TimingPoints"}, time : Int, beat : Int \cup {NaN}, meter : Int,
   change : BOOLEAN, kiai : BOOLEAN]
HitObjectLines ==
  [section : {"HitObjects"}, kind : {"circle", "slider", "spinner", "hold", "unknown"},
   time : Int, end : Int, sound : SUBSET Sounds, filename : BOOLEAN, path : Seq(Tokens),
   repeats : Int, nodes : Seq(SUBSET Sounds)]

Lines == GeneralLines \cup DifficultyLines \cup EventLines \cup TimingPointLines \cup HitObjectLines

(* No list is as long as a usize can count.                                *)
ASSUME MaxLinesAssumption == MaxLines \in Nat /\ MaxLines <= TopBit
ASSUME ContentsAssumption == \A file \in Contents : file \subseteq Lines
ASSUME NoneAssumption == \A kind \in Kinds : None \notin PointsOf(kind)

VARIABLES
  content,  (* The set this file draws its lines from.                     *)
  lines,    (* The lines read so far.                                      *)
  state,    (* The BeatmapState.                                           *)
  map       (* The Beatmap, None until the end of the file.                *)

vars == <<content, lines, state, map>>

(* BeatmapState::create.                                                   *)
Create ==
  [ mode              |-> "osu",
    stack_leniency    |-> 7,
    has_approach_rate |-> FALSE,
    difficulty        |-> [hp |-> 50, cs |-> 50, od |-> 50, ar |-> 50,
                           multiplier |-> 14, tick_rate |-> 10],
    breaks            |-> <<>>,
    points            |-> [k \in Kinds |-> <<>>],
    pending           |-> [k \in Kinds |-> None],
    pending_time      |-> 0,
    hit_objects       |-> <<>>,
    hit_sounds        |-> <<>>,
    curve_points      |-> <<>> ]

(***************************************************************************)
(* Control points: those of one time are held back, then added             *)
(***************************************************************************)
AddControlPoint(s, kind, point) ==
  IF CheckAlreadyExisting(kind, s.points[kind], point) THEN s
  ELSE [s EXCEPT !.points[kind] = Add(@, point)]

TakePending(s, kind) ==
  IF s.pending[kind] = None THEN s
  ELSE AddControlPoint([s EXCEPT !.pending[kind] = None], kind, s.pending[kind])

FlushPendingPoints(s) ==
  TakePending(TakePending(TakePending(s, "timing"), "difficulty"), "effect")

(* push_front leaves an earlier point in its place, push_back replaces it. *)
PushAlwaysBack(pending, point, timingChange) == point
Push(pending, point, timingChange) ==
  IF timingChange /\ pending # None THEN pending ELSE point

AddPendingPointUnflushed(s, kind, point, timingChange) ==
  [s EXCEPT !.pending[kind] = Push(@, point, timingChange), !.pending_time = point.time]
AddPendingPoint(s, kind, point, timingChange) ==
  LET flushed == IF point.time # s.pending_time THEN FlushPendingPoints(s) ELSE s
  IN  [flushed EXCEPT !.pending[kind] = Push(@, point, timingChange),
                      !.pending_time = point.time]

(***************************************************************************)
(* The sections                                                            *)
(***************************************************************************)
ParseGeneral(s, line) ==
  IF line.key = "Mode" THEN [s EXCEPT !.mode = line.value]
  ELSE [s EXCEPT !.stack_leniency = line.value]

(* Until there is an approach rate of its own it follows the overall       *)
(* difficulty.                                                             *)
ParseDifficultyAlwaysFollows(s, line) ==
  LET set == [s EXCEPT !.difficulty[line.key] = line.value]
  IN  CASE line.key = "od" -> [set EXCEPT !.difficulty.ar = line.value]
        [] line.key = "ar" -> [set EXCEPT !.has_approach_rate = TRUE]
        [] OTHER           -> set
ParseDifficulty(s, line) ==
  LET set == [s EXCEPT !.difficulty[line.key] = line.value]
  IN  CASE line.key = "od" /\ ~s.has_approach_rate -> [set EXCEPT !.difficulty.ar = line.value]
        [] line.key = "ar"                         -> [set EXCEPT !.has_approach_rate = TRUE]
        [] OTHER                                   -> set

ParseEvents(s, line) ==
  [s EXCEPT !.breaks = Append(@, [start_time |-> line.start,
                                  end_time   |-> Greatest(line.start, line.end)])]

(* Only osu!taiko and osu!mania know scroll speeds.                        *)
ScrollSpeed(mode, beat) ==
  IF mode \in {"taiko", "mania"} THEN Clamp(SpeedMultiplier(beat), 1, 1000) ELSE 100

(* A line whose time signature is no positive number is refused, and so is *)
(* a timing change without a beat length.                                  *)
TimingLineFails(line) == line.meter < 1 \/ (line.change /\ line.beat = NaN)

ParseTimingPoints(s, line) ==
  LET timed == IF line.change
               THEN AddPendingPoint(s, "timing", NewTimingPoint(line.time, line.beat), TRUE)
               ELSE s
      velocity == AddPendingPoint(timed, "difficulty", NewDifficultyPoint(line.time, line.beat),
                                  line.change)
      effect == NewEffectPoint(line.time, line.kiai, ScrollSpeed(s.mode, line.beat))
  IN  IF TimingLineFails(line) THEN s
      ELSE AddPendingPoint(velocity, "effect", effect, line.change)

(***************************************************************************)
(* Hit objects                                                             *)
(***************************************************************************)
MaxRepeats == 9000

(* parse_custom_sound: an object with a sound file of its own loses the    *)
(* normal sound.                                                           *)
SoundOf(line) == line.sound \ (IF line.filename THEN {"normal"} ELSE {})

NodeSounds(line, repeats) ==
  [i \in 1 .. repeats + 2 |-> IF i <= Len(line.nodes) THEN line.nodes[i] ELSE SoundOf(line)]

PushHitObject(s, line, kind) ==
  [s EXCEPT !.hit_objects = Append(@, [line       |-> Len(lines) + 1,
                                       start_time |-> line.time,
                                       kind       |-> kind]),
            !.hit_sounds = Append(@, SoundOf(line))]

(* The slider takes the curve points with it. When the path fails, those   *)
(* of its first segments stay.                                             *)
ParseSliderCopies(s, line) ==
  LET path == ConvertPath(s.curve_points, line.path)
      repeats == Greatest(0, line.repeats - 1)
      slider == [type |-> "slider", repeats |-> repeats, control_points |-> path.curve,
                 node_sounds |-> NodeSounds(line, repeats)]
  IN  CASE line.repeats > MaxRepeats -> s
        [] line.repeats <= MaxRepeats /\ ~path.ok -> [s EXCEPT !.curve_points = path.curve]
        [] OTHER -> PushHitObject([s EXCEPT !.curve_points = path.curve], line, slider)
ParseSlider(s, line) ==
  LET path == ConvertPath(s.curve_points, line.path)
      repeats == Greatest(0, line.repeats - 1)
      slider == [type |-> "slider", repeats |-> repeats, control_points |-> path.curve,
                 node_sounds |-> NodeSounds(line, repeats)]
  IN  CASE line.repeats > MaxRepeats -> s
        [] line.repeats <= MaxRepeats /\ ~path.ok -> [s EXCEPT !.curve_points = path.curve]
        [] OTHER -> PushHitObject([s EXCEPT !.curve_points = <<>>], line, slider)

ParseHitObjects(s, line) ==
  CASE line.kind = "circle"  -> PushHitObject(s, line, [type |-> "circle"])
    [] line.kind = "slider"  -> ParseSlider(s, line)
    [] line.kind \in {"spinner", "hold"} ->
         PushHitObject(s, line, [type     |-> line.kind,
                                 duration |-> Greatest(line.end - line.time, 0)])
    [] line.kind = "unknown" -> s

(***************************************************************************)
(* The end of the file                                                     *)
(***************************************************************************)
StartTimes(objects) == [i \in DOMAIN objects |-> objects[i].start_time]

(* From<BeatmapState> for Beatmap.                                         *)
BeatmapOf(s) ==
  LET f == FlushPendingPoints(s)
      d == f.difficulty
      objects == Sort(NewStable(StartTimes(f.hit_objects)), f.hit_objects)
      sounds == Sort(objects.sorter, f.hit_sounds)
  IN  [ mode           |-> f.mode,
        stack_leniency |-> f.stack_leniency,
        ar             |-> Clamp(d.ar, 0, 100),
        cs             |-> IF f.mode = "mania" THEN Clamp(d.cs, 10, 180) ELSE Clamp(d.cs, 0, 100),
        hp             |-> Clamp(d.hp, 0, 100),
        od             |-> Clamp(d.od, 0, 100),
        multiplier     |-> Clamp(d.multiplier, 4, 36),
        tick_rate      |-> Clamp(d.tick_rate, 5, 80),
        breaks         |-> f.breaks,
        points         |-> f.points,
        hit_objects    |-> objects.slice,
        hit_sounds     |-> sounds.slice ]

Init ==
  /\ content \in Contents
  /\ lines = <<>>
  /\ state = Create
  /\ map = None

(* The next line of the file, and what its parser makes of the state.      *)
Read(line, parsed) ==
  /\ map = None
  /\ Len(lines) < MaxLines
  /\ lines' = Append(lines, line)
  /\ state' = parsed
  /\ UNCHANGED <<content, map>>

OfSection(section) == {line \in content : line.section = section}

GeneralLine == \E line \in OfSection("General") : Read(line, ParseGeneral(state, line))
DifficultyLine == \E line \in OfSection("Difficulty") : Read(line, ParseDifficulty(state, line))
EventLine == \E line \in OfSection("Events") : Read(line, ParseEvents(state, line))
TimingLine == \E line \in OfSection("TimingPoints") : Read(line, ParseTimingPoints(state, line))
HitObjectLine == \E line \in OfSection("HitObjects") : Read(line, ParseHitObjects(state, line))

Finish ==
  /\ map = None
  /\ map' = BeatmapOf(state)
  /\ UNCHANGED <<content, lines, state>>

Next ==
  \/ GeneralLine \/ DifficultyLine \/ EventLine
  \/ TimingLine \/ HitObjectLine
  \/ Finish

Spec == Init /\ [][Next]_vars

(***************************************************************************)
(* Properties                                                              *)
(***************************************************************************)
PositionsOf(vertices) == [i \in DOMAIN vertices |-> vertices[i].pos]

(* The numbers of the lines of a section.                                  *)
LinesOf(section) == {i \in DOMAIN lines : lines[i].section = section}

(* The timing lines that were accepted, in the order of the file.          *)
TimingLines == {i \in LinesOf("TimingPoints") : ~TimingLineFails(lines[i])}

TimesInOrder == \A i, j \in TimingLines : i < j => lines[i].time <= lines[j].time

(* Of the lines of one time the last inherited one counts, and only when   *)
(* there is none the first timing change.                                  *)
ActiveLine(time) ==
  LET passed == {i \in TimingLines : lines[i].time <= time}
      latest == {i \in passed : \A j \in passed : lines[j].time <= lines[i].time}
      inherited == {i \in latest : ~lines[i].change}
  IN  IF passed = {} THEN 0 ELSE IF inherited # {} THEN Max(inherited) ELSE Min(latest)

(* The mode when a line was read.                                          *)
ModeAt(i) ==
  LET modes == {j \in LinesOf("General") : j < i /\ lines[j].key = "Mode"}
  IN  IF modes = {} THEN "osu" ELSE lines[Max(modes)].value

(* The velocity and the effects at a time are those of the line that is    *)
(* active then.                                                            *)
PointsTellOfTheFile(time) ==
  LET i == ActiveLine(time)
      at(kind) == Worth(kind, PointAt(kind, map.points[kind], time))
  IN  IF i = 0 THEN \A kind \in Kinds \ {"timing"} : at(kind) = Worth(kind, DefaultPoint(kind))
      ELSE /\ at("difficulty") = Worth("difficulty", NewDifficultyPoint(time, lines[i].beat))
           /\ at("effect") = <<ScrollSpeed(ModeAt(i), lines[i].beat), lines[i].kiai>>

(* Whatever the order of the lines, the points of each kind are sorted by  *)
(* strictly growing times, which every binary search relies on. In a file  *)
(* whose timing lines are in order, the velocity and the effects at every  *)
(* time are those of the line that is active then, although points that    *)
(* change nothing are left out and those of one time overwrite one another *)
(* in an order that depends on their kind.                                 *)
ActivePointsAreThoseOfTheFile ==
  /\ \A kind \in Kinds : IsSorted(state.points[kind], LAMBDA p, q : p.time < q.time)
  /\ map # None /\ TimesInOrder =>
       \A time \in {lines[i].time + offset : i \in TimingLines, offset \in {-1, 0}} :
         PointsTellOfTheFile(time)

(* Every timing change is kept, the first of each time, although timing    *)
(* points share their slot with later lines of the same time.              *)
TimingChangesAreKept ==
  map # None /\ TimesInOrder =>
    LET changes == {i \in TimingLines : lines[i].change}
        firsts  == {i \in changes : \A j \in changes : lines[j].time = lines[i].time => i <= j}
    IN  /\ Len(map.points["timing"]) = Cardinality(firsts)
        /\ \A i \in firsts :
             TimingPointAt(map.points["timing"], lines[i].time) =
               NewTimingPoint(lines[i].time, lines[i].beat)

(* Objects come sorted by time, those of one time in the order of the      *)
(* file, and each sound is still that of its object.                       *)
SoundsFollowTheirObjects ==
  map # None =>
    /\ IsSorted(map.hit_objects, LAMBDA o, p : \/ o.start_time < p.start_time
                                               \/ /\ o.start_time = p.start_time
                                                  /\ o.line < p.line)
    /\ Len(map.hit_objects) = Len(state.hit_objects)
    /\ \A i \in DOMAIN map.hit_objects :
         map.hit_sounds[i] = SoundOf(lines[map.hit_objects[i].line])

(* A slider line before line i failed, and no slider was accepted since.   *)
FollowsFailure(i) ==
  LET sliders == {j \in LinesOf("HitObjects") : j < i /\ lines[j].kind = "slider"}
  IN  /\ sliders # {}
      /\ \A k \in DOMAIN state.hit_objects : state.hit_objects[k].line # Max(sliders)

(* A slider's control points run through the points of its path, from its  *)
(* head on, and the first one says which curve it is. Left out are sliders *)
(* after a slider line that failed: they begin with the points that one    *)
(* left behind.                                                            *)
SlidersKeepTheirPaths ==
  \A k \in DOMAIN state.hit_objects :
    LET object == state.hit_objects[k]
        points == object.kind.control_points
    IN  object.kind.type = "slider" /\ ~FollowsFailure(object.line) =>
          /\ points[1].type # NoLetter
          /\ WithoutRepeats(PositionsOf(points)) =
               WithoutRepeats(PathPositions(lines[object.line].path))

(* The approach rate is the one of the file, whatever overall difficulty   *)
(* follows it, and only without one the last overall difficulty.           *)
ApproachRateFollowsOverallDifficulty ==
  map # None =>
    LET set(key) == {i \in LinesOf("Difficulty") : lines[i].key = key}
        source == IF set("ar") # {} THEN set("ar") ELSE set("od")
    IN  map.ar = IF source = {} THEN 50 ELSE Clamp(lines[Max(source)].value, 0, 100)
=============================================================================
