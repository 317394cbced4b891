---------------------------- MODULE SliderEvents -----------------------------
(***************************************************************************)
(* What happens along a slider: its head, the ticks and repeats of its     *)
(* spans, the last tick of old and its tail. The events are those of       *)
(* rosu_map's SliderEventsIter, an external library; OsuSlider::new in     *)
(* src/osu/object.rs and JuiceStream::new in                               *)
(* src/catch/object/juice_stream.rs give it its arguments.                 *)
(*                                                                         *)
(* A map is a record of its version, its multiplier and tickRate (in       *)
(* tenths), the beat length of its only timing point and its difficulty    *)
(* points (velocities); a slider one of its time, spans and the length of  *)
(* its path (dist). Distances along the path are given in ms.              *)
(***************************************************************************)
EXTENDS ControlPoints

(* get_precision_adjusted_beat_len: of a velocity in percent.              *)
AdjustedBeatLen(velocity, beat) == (beat * Clamp(10000 \div velocity, 10, 10000)) \div 100

VelocityAt(map, time) == PointAt("difficulty", map.velocities, time).velocity

(* span_duration, and the time between two ticks of one span.              *)
SpanDuration(map, slider) ==
  (slider.dist * AdjustedBeatLen(VelocityAt(map, slider.time), map.beat)) \div (10 * map.multiplier)

TickDuration(map, slider) ==
  LET beats == (map.beat * 10) \div map.tickRate
  IN  IF map.version < 8 THEN (beats * 100) \div VelocityAt(map, slider.time) ELSE beats

EndTime(map, slider) == slider.time + slider.spans * SpanDuration(map, slider)

(* There is no tick in the last 10 ms of a span.                           *)
TicksBefore(span, tick) ==
  SelectSeq([k \in 1 .. span \div tick |-> k * tick], LAMBDA along : along < span - 10)
TicksOfSpan(map, slider) == TicksBefore(SpanDuration(map, slider), TickDuration(map, slider))

Event(kind, time, along) == [kind |-> kind, time |-> time, along |-> along]

EventsOfSpan(slider, span, ticks, s) ==
  LET start   == slider.time + s * span
      forward == [k \in DOMAIN ticks |-> Event("tick", start + ticks[k], ticks[k])]
      back    == [k \in DOMAIN ticks |-> Event("tick", start + span - ticks[k], ticks[k])]
  IN  (IF s % 2 = 0 THEN forward ELSE Reverse(back))
      \o IF s + 1 < slider.spans
         THEN <<Event("repeat", start + span, IF s % 2 = 0 THEN span ELSE 0)>>
         ELSE <<>>

(* SliderEventsIter. A slider of no length has no repeats.                 *)
SliderEventsIter(slider, span, ticks) ==
  LET all == slider.spans * span
      spans == FlattenSeq([s \in 1 .. slider.spans |-> EventsOfSpan(slider, span, ticks, s - 1)])
  IN  <<Event("head", slider.time, 0)>>
      \o (IF span = 0 THEN <<>> ELSE spans)
      \o <<Event("last tick", slider.time + Greatest(all \div 2, all - 36), 0),
           Event("tail", slider.time + all, IF slider.spans % 2 = 1 THEN span ELSE 0)>>
=============================================================================
