---------------------------- MODULE ManiaConvert -----------------------------
(***************************************************************************)
(* The conversion of an osu!standard map to osu!mania: convert in          *)
(* src/mania/convert/mod.rs, one action for each object of the map and one *)
(* for each time of a slider that goes into the note density.              *)
(*                                                                         *)
(* A scenario is a record of the settings of a map (keys, cs, od, hp, ar   *)
(* in tenths; hitObjects, long ones among them, drain seconds, the beat    *)
(* length) and, for each of the objects that are converted, the choices it *)
(* is taken from: gaps in ms after the last time, whether it is near the   *)
(* last position, sounds, x, kiai, sliders <<spans, length>> and durations *)
(* of spinners and hold notes.                                             *)
(***************************************************************************)
EXTENDS NoteDensity, ManiaPatterns

CONSTANT Scenarios

(* The mods of osu!mania give a map up to ten keys, or none are asked for. *)
(* A slider has at least one span.                                         *)
ASSUME ScenariosAssumption ==
  \A map \in Scenarios :
    /\ map.keys \in 0 .. 10
    /\ map.cs \in Int /\ map.od \in Int /\ map.hp \in Int /\ map.ar \in Int
    /\ map.hitObjects \in Nat /\ map.long \in Nat /\ map.drain \in Nat
    /\ map.choices \in Seq(ToSet(map.choices))
    /\ \A choice \in ToSet(map.choices) :
         choice.gaps \cup choice.xs \subseteq Int /\ choice.sliders \subseteq (Nat \ {0}) \X Nat

VARIABLES
  scenario, (* The map that is converted.                                  *)
  taken,    (* How many of its objects were begun.                         *)
  prevTime, (* last_values.time                                            *)
  prev,     (* last_values.pattern                                         *)
  stair,    (* last_values.stair                                           *)
  slider,   (* The slider whose times are pushed, or NoSlider.             *)
  placed    (* The object converted last, with its notes.                  *)

convertVars == <<densityVars, scenario, taken, prevTime, prev, stair, slider, placed>>

NoKeys == 0
NoSlider == <<>>
Nothing == [kind |-> "none", start |-> 0, gap |-> 0, pattern |-> PatternOf(<<>>)]

(* target_columns. Stable rounds half to even.                             *)
TargetColumns(map) ==
  LET cs == RoundTiesEven(map.cs, 10)
      od == RoundTiesEven(map.od, 10)
      clamped == Greatest(Least(od + 1, 7), 4)
  IN  IF map.keys # NoKeys THEN map.keys
      ELSE IF map.hitObjects = 0 THEN clamped
      ELSE IF 5 * map.long < map.hitObjects THEN 7
      ELSE IF 10 * map.long < 3 * map.hitObjects \/ cs >= 5 THEN IF od > 5 THEN 7 ELSE 6
      ELSE IF 5 * map.long > 3 * map.hitObjects THEN IF od > 4 THEN 5 ELSE 4
      ELSE clamped

total == TargetColumns(scenario)
difficulty == ConversionDifficulty(scenario.hp, scenario.ar, scenario.hitObjects, scenario.drain)

ConvertInit ==
  /\ DensityInit
  /\ scenario \in Scenarios
  /\ taken = 0
  /\ prevTime = 0 /\ prev = EmptyPattern /\ stair = "STAIR"
  /\ slider = NoSlider
  /\ placed = Nothing

(* Whether the density of notes is below 2.5 notes in a beat.              *)
Dense == density # Unknown /\ 5 * density[1] < 2 * scenario.beat * density[2]

Take(start) ==
  /\ taken < Len(scenario.choices) /\ slider = NoSlider
  /\ start >= placed.start
  /\ taken' = taken + 1
  /\ UNCHANGED scenario

(* A circle: the density counts it before its pattern is chosen.           *)
Circle(gap, near, sounds, x, kiai) ==
  LET start   == prevTime + gap
      convert == ConvertType(gap, near, Dense', kiai, stair, sounds, total)
      generator == [total |-> total, x |-> x, sounds |-> sounds, diff |-> difficulty,
                    prev |-> prev, convert |-> convert]
  IN  /\ Take(start)
      /\ ComputeDensity(start)
      /\ \E g \in {generator} : \E columns \in CirclePatterns(g) :
           LET notes == NotesAt(columns, 0)
           IN  /\ placed' = [kind |-> "circle", start |-> start, gap |-> gap,
                             pattern |-> PatternOf(notes)]
               /\ prev' = Seen(notes, DOMAIN notes)
               /\ stair' = StairAfter(g, ToSet(columns), stair)
      /\ prevTime' = start
      /\ UNCHANGED slider

(* A slider: the times of its head, repeats and tail count before its      *)
(* pattern is made, each on its own.                                       *)
SliderHead(gap, path, sounds, head, x, kiai) ==
  LET start == prevTime + gap
  IN  /\ Take(start)
      /\ ComputeDensity(start)
      /\ prevTime' = start
      /\ slider' = [start |-> start, gap |-> gap, at |-> 0, spans |-> path[1], length |-> path[2],
                    sounds |-> sounds, head |-> head, x |-> x, kiai |-> kiai]
      /\ UNCHANGED <<prev, stair, placed>>

SliderTime ==
  /\ slider # NoSlider /\ slider.at < slider.spans
  /\ LET time == slider.start + (slider.at + 1) * SegmentDuration(slider.length, slider.spans)
     IN  ComputeDensity(time) /\ prevTime' = time
  /\ slider' = [slider EXCEPT !.at = @ + 1]
  /\ UNCHANGED <<scenario, taken, prev, stair, placed>>

SliderNotes ==
  /\ slider # NoSlider /\ slider.at = slider.spans
  /\ LET g == [total |-> total, x |-> slider.x, sounds |-> slider.sounds, head |-> slider.head,
               diff |-> difficulty, prev |-> prev, low |-> ~slider.kiai, spans |-> slider.spans,
               segment |-> SegmentDuration(slider.length, slider.spans), length |-> slider.length]
     IN  \E notes \in SliderPatterns(g) :
           /\ placed' = [kind |-> "slider", start |-> slider.start, gap |-> slider.gap,
                         pattern |-> PatternOf(notes)]
           /\ prev' = Seen(notes, EndOfPattern(g, notes))
  /\ slider' = NoSlider
  /\ UNCHANGED <<densityVars, scenario, taken, prevTime, stair>>

(* A spinner or hold note: its pattern is not one that later objects see.  *)
EndTimeObject(gap, duration, sounds) ==
  LET start == prevTime + gap
      g == [total |-> total, sounds |-> sounds, prev |-> prev, length |-> duration]
  IN  /\ Take(start)
      /\ ComputeDensity(start + duration)
      /\ \E notes \in EndTimePatterns(g) :
           placed' = [kind |-> "end time", start |-> start, gap |-> gap, pattern |-> PatternOf(notes)]
      /\ prevTime' = start + duration
      /\ UNCHANGED <<prev, stair, slider>>

NextObject ==
  LET choice == scenario.choices[taken + 1]
  IN  \E gap \in choice.gaps, sounds \in choice.sounds :
        \/ \E near \in choice.nears, x \in choice.xs, kiai \in choice.kiais :
             Circle(gap, near, sounds, x, kiai)
        \/ \E path \in choice.sliders, head \in choice.heads, x \in choice.xs,
              kiai \in choice.kiais : SliderHead(gap, path, sounds, head, x, kiai)
        \/ \E duration \in choice.ends : EndTimeObject(gap, duration, sounds)

ConvertNext ==
  \/ taken < Len(scenario.choices) /\ NextObject
  \/ SliderTime
  \/ SliderNotes

(***************************************************************************)
(* Properties                                                              *)
(***************************************************************************)

(* The assertions that some column is free never fail, no chosen column is *)
(* beside the stage, whatever patterns came before, and the notes of one   *)
(* object never overlap in a column.                                       *)
EveryNoteFitsTheStage ==
  LET notes == placed.pattern.notes
  IN  /\ Cardinality(notes) = placed.pattern.size
      /\ \A note \in notes : note.column \in 0 .. total - 1
      /\ \A a, b \in notes :
           a # b /\ a.column = b.column => a.to < b.from \/ b.to < a.from

(* A circle 125 ms or less after the last object is put on other columns   *)
(* than the pattern before, the special one of eight columns excepted.     *)
FastNotesDoNotStack ==
  [][/\ placed'.kind = "circle" /\ placed'.gap <= 125 /\ total > 1
     /\ placed' # placed
     => ColumnsOf(placed'.pattern) \cap prev.columns \cap Usable(total) = {}]_convertVars
=============================================================================
