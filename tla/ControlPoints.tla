--------------------------- MODULE ControlPoints ----------------------------
(***************************************************************************)
(* The lists of control points of a beatmap, src/model/control_point/*.rs: *)
(* what a line of the file makes of each of the three kinds, when a point  *)
(* is redundant, where it is inserted and which point is active at a time. *)
(*                                                                         *)
(* Times are integers. Multipliers are percents: a beat length of -50      *)
(* stands for a velocity of 200 %.                                         *)
(***************************************************************************)
EXTENDS Arithmetic, SequencesExt, FiniteSetsExt

CONSTANT NaN  (* The beat length `NaN`, legal on inherited lines only.     *)

Clamp(x, lo, hi) == Greatest(lo, Least(hi, x))

Kinds == {"timing", "difficulty", "effect"}

(* beat_len < 0.0, false of NaN.                                           *)
IsInherited(beat) == beat # NaN /\ beat < 0
SpeedMultiplier(beat) == IF IsInherited(beat) THEN 10000 \div (-beat) ELSE 100

NewTimingPoint(time, beat) == [time |-> time, beat_len |-> Clamp(beat, 6, 60000)]

NewDifficultyPoint(time, beat) ==
  [ time           |-> time,
    velocity       |-> Clamp(SpeedMultiplier(beat), 10, 1000),
    bpm_multiplier |-> IF IsInherited(beat) THEN Clamp(-beat, 10, 10000) ELSE 100,
    generate_ticks |-> beat # NaN ]

NewEffectPoint(time, kiai, scroll) == [time |-> time, kiai |-> kiai, scroll_speed |-> scroll]

(* The points of each kind.                                                *)
PointsOf(kind) ==
  CASE kind = "timing"     -> [time : Int, beat_len : Int]
    [] kind = "difficulty" -> [time : Int, velocity : Int, bpm_multiplier : Int,
                               generate_ticks : BOOLEAN]
    [] kind = "effect"     -> [time : Int, kiai : BOOLEAN, scroll_speed : Int]

DefaultDifficultyPoint ==
  [time |-> 0, velocity |-> 100, bpm_multiplier |-> 100, generate_ticks |-> TRUE]
DefaultEffectPoint == [time |-> 0, kiai |-> FALSE, scroll_speed |-> 100]

(* What makes a point worth keeping. A timing point always is.             *)
Worth(kind, point) ==
  CASE kind = "difficulty" -> <<point.velocity, point.generate_ticks>>
    [] kind = "effect"     -> <<point.scroll_speed, point.kiai>>

DefaultPoint(kind) ==
  IF kind = "difficulty" THEN DefaultDifficultyPoint ELSE DefaultEffectPoint

(* binary_search_by time in a list of strictly growing times: the position *)
(* of the last point that is not later, 0 if there is none.                *)
IndexAt(points, time) == Cardinality({i \in DOMAIN points : points[i].time <= time})

(* difficulty_point_at and effect_point_at, with the default their callers *)
(* take instead of None.                                                   *)
PointAt(kind, points, time) ==
  IF IndexAt(points, time) = 0 THEN DefaultPoint(kind) ELSE points[IndexAt(points, time)]

(* timing_point_at: before the first point the first point.                *)
TimingPointAt(points, time) == points[Greatest(1, IndexAt(points, time))]

CheckAlreadyExisting(kind, points, point) ==
  kind # "timing" /\ Worth(kind, point) = Worth(kind, PointAt(kind, points, point.time))

Add(points, point) ==
  LET i == IndexAt(points, point.time)
  IN  IF i > 0 /\ points[i].time = point.time THEN [points EXCEPT ![i] = point]
      ELSE InsertAt(points, i + 1, point)
=============================================================================
