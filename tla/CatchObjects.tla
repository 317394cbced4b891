---------------------------- MODULE CatchObjects -----------------------------
(***************************************************************************)
(* The objects of osu!catch that are caught, convert_objects in            *)
(* src/catch/convert.rs with src/catch/object/*.rs.                        *)
(*                                                                         *)
(* An object is a circle [kind, time, x], a slider that also has spans, the*)
(* length of its path (dist), which is straight and `reach` wide, or a     *)
(* spinner with its duration. Positions are in thousandths of a pixel. The *)
(* random number generator is any generator: a draw is a choice of the side*)
(* and of how far, and what was drawn before does not matter.              *)
(***************************************************************************)
EXTENDS SliderEvents

PlayfieldWidth == 512000

(***************************************************************************)
(* Juice streams                                                           *)
(***************************************************************************)

(* The tiny droplets between two events: as far apart as the time halved   *)
(* until it is at most 100 ms.                                             *)
TinyDroplets(since) ==
  LET parts == CHOOSE n \in {2 ^ k : k \in 0 .. 16} :
                 since <= 100 * n /\ (n = 1 \/ since > 50 * n)
  IN  IF since > 80 THEN parts - 1 ELSE 0

(* JuiceStream::new: its nested objects, with a count of tiny droplets in  *)
(* front of each event. The last tick ends one stretch of them, and is not *)
(* an object.                                                              *)
NestedWithLastTick(event, x) ==
  <<[kind |-> IF event.kind \in {"tick", "last tick"} THEN "droplet" ELSE "fruit",
     x |-> x, time |-> event.time]>>
NestedOf(event, x) ==
  CASE event.kind = "last tick" -> <<>>
    [] event.kind = "tick"      -> <<[kind |-> "droplet", x |-> x, time |-> event.time]>>
    [] OTHER                    -> <<[kind |-> "fruit", x |-> x, time |-> event.time]>>

NestedIn(slider, events, span) ==
  LET x == Clamp(slider.x, 0, PlayfieldWidth)
      At(event) == IF span = 0 THEN x ELSE x + (slider.reach * event.along) \div span
      tiny(i) == IF i = 1 THEN 0 ELSE TinyDroplets(events[i].time - events[i - 1].time)
  IN  FlattenSeq([i \in DOMAIN events |->
        [k \in 1 .. tiny(i) |-> [kind |-> "tiny", x |-> 0, time |-> 0]]
        \o NestedOf(events[i], At(events[i]))])

JuiceStream(map, slider) ==
  NestedIn(slider,
           SliderEventsIter(slider, SpanDuration(map, slider), TicksOfSpan(map, slider)),
           SpanDuration(map, slider))

(* BananaShower::new: bananas are not caught, but draw random numbers.     *)
Recorded(map, object) ==
  CASE object.kind = "circle" -> <<[kind |-> "fruit", x |-> object.x, time |-> object.time]>>
    [] object.kind = "slider" -> JuiceStream(map, object)
    [] OTHER                  -> <<>>

(***************************************************************************)
(* The offsets of hard rock: `last` is the last position, <<>> before there*)
(* is one, and the last start time.                                        *)
(***************************************************************************)
RandomOffset(x, max, draw) ==
  LET rand == Least((max * draw.far) \div 100, 20000)
  IN  IF draw.right THEN IF x + rand <= PlayfieldWidth THEN rand ELSE -rand
      ELSE IF x - rand >= 0 THEN -rand ELSE rand

OffsetBy(x, amount) ==
  IF amount > 0 THEN IF x + amount < PlayfieldWidth THEN amount ELSE 0
  ELSE IF x + amount > 0 THEN amount ELSE 0

(* apply_hr_offset: the offset of a fruit, and what is remembered of it.   *)
HrOffset(object, last, draw) ==
  LET diff == object.x - last.pos[1]
      time == object.time - last.time
      near == OffsetBy(object.x, diff)
      moved == IF Greatest(diff, -diff) < 1000 * (time \div 3) THEN near ELSE 0
      Forget(offset) == [offset |-> offset, last |-> [pos |-> <<object.x + offset>>,
                                                      time |-> object.time]]
  IN  IF last.pos \in {<<>>, <<0>>} \/ time > 1000 THEN Forget(0)
      ELSE IF diff = 0 THEN [offset |-> RandomOffset(object.x, 250 * time, draw), last |-> last]
      ELSE Forget(moved)

(* apply_pos_offset                                                        *)
PosOffset(object, last, draw, hrOffsets) ==
  CASE object.kind = "circle" /\ hrOffsets -> HrOffset(object, last, draw)
    [] object.kind = "slider" ->
         [offset |-> 0, last |-> [pos |-> <<object.x + object.reach>>, time |-> object.time]]
    [] OTHER -> [offset |-> 0, last |-> last]

(***************************************************************************)
(* Hyper dashes                                                            *)
(***************************************************************************)
EffectiveX(object) == Clamp(object.x + object.offset, 0, PlayfieldWidth)

(* Half of the catcher, with the part that does not catch, for a circle    *)
(* size in tenths.                                                         *)
HalfCatcherWidth(cs) ==
  LET scale == 1700 - 14 * cs IN (53375 * Greatest(scale, -scale)) \div 1000

(* initialize_hyper_dash: `excess` is what is left of the catcher's width  *)
(* after the last movement, for the next one in the same direction.        *)
HyperDashStep(objects, half, dash, i) ==
  LET from == EffectiveX(objects[i])
      to   == EffectiveX(objects[i + 1])
      dir  == IF to > from THEN 1 ELSE -1
      time == 1000 * (objects[i + 1].time - objects[i].time) - 4167
      far  == Greatest(to - from, from - to) - IF dash.dir = dir THEN dash.excess ELSE half
      left == time - far
  IN  [hyper  |-> IF left < 0 THEN dash.hyper \cup {i} ELSE dash.hyper,
       excess |-> IF left < 0 THEN half ELSE Clamp(left, 0, half),
       dir    |-> dir]

HyperDashes(objects, cs) ==
  LET half == HalfCatcherWidth(cs)
      step(dash, i) == HyperDashStep(objects, half, dash, i)
  IN  FoldLeft(step, [hyper |-> {}, excess |-> half, dir |-> 0],
               Interval(1, Len(objects) - 1)).hyper

(***************************************************************************)
(* convert_objects                                                         *)
(***************************************************************************)
Palpable(nested, offset) == [x |-> nested.x, offset |-> offset, time |-> nested.time]

Caught(map, draw, hrOffsets) ==
  LET convert(c, object) ==
        LET done == PosOffset(object, c.last, draw, hrOffsets)
            nested == SelectSeq(Recorded(map, object), LAMBDA n : n.kind # "tiny")
        IN  [last |-> done.last,
             all  |-> c.all \o [k \in DOMAIN nested |-> Palpable(nested[k], done.offset)]]
  IN  FoldLeft(convert, [last |-> [pos |-> <<>>, time |-> 0], all |-> <<>>], map.objects).all

Mirrored(objects) ==
  [i \in DOMAIN objects |-> [objects[i] EXCEPT !.x = PlayfieldWidth - @, !.offset = -@]]

WithHyperDashes(objects, cs, records) ==
  [objects |-> objects, hyper |-> HyperDashes(objects, cs), records |-> records]

CatchObjects(map, draw, hrOffsets, mirror) ==
  LET caught == Caught(map, draw, hrOffsets)
      mirrored == IF mirror THEN Mirrored(caught) ELSE caught
      records == [i \in DOMAIN map.objects |->
                    LET nested == Recorded(map, map.objects[i])
                    IN  [k \in DOMAIN nested |-> nested[k].kind]]
  IN  WithHyperDashes(SortSeq(mirrored, LAMBDA a, b : a.time < b.time), map.cs, FlattenSeq(records))
=============================================================================
