----------------------------- MODULE OsuObjects ------------------------------
(***************************************************************************)
(* The objects of osu!standard and how they are stacked, src/osu/convert.rs*)
(* and src/osu/object.rs.                                                  *)
(*                                                                         *)
(* An object of a map is a circle [kind, time, pos], a slider that also has*)
(* spans and a straight path to `path` of length dist, or a spinner or hold*)
(* note with its duration. Positions are pairs of whole pixels. A          *)
(* reflection is the set of axes that are mirrored.                        *)
(***************************************************************************)
EXTENDS SliderEvents, Sorting

PlayfieldSize == <<512, 384>>
StackDistance == 3

Plus(p, q) == <<p[1] + q[1], p[2] + q[2]>>
Near(p, q) ==
  (p[1] - q[1]) * (p[1] - q[1]) + (p[2] - q[2]) * (p[2] - q[2]) < StackDistance * StackDistance

(* Slider::curve: the points of a path are relative, reflecting them turns *)
(* their sign.                                                             *)
ReflectPathVerticallyOnly(p, axes) == [a \in 1 .. 2 |-> IF a \in axes \ {1} THEN -p[a] ELSE p[a]]
ReflectPath(p, axes) == [a \in 1 .. 2 |-> IF a \in axes THEN -p[a] ELSE p[a]]

(* OsuSlider::new: what is nested in a slider, relative to its head.       *)
NestedFrom(events, path, span) ==
  LET At(e) == IF span = 0 THEN <<0, 0>>
               ELSE [a \in 1 .. 2 |-> (path[a] * e.along) \div span]
  IN  [k \in DOMAIN events |->
         [kind |-> events[k].kind, time |-> events[k].time, pos |-> At(events[k])]]

NestedObjects(map, slider, axes) ==
  LET span   == SpanDuration(map, slider)
      ticks  == IF slider.ticks THEN TicksOfSpan(map, slider) ELSE <<>>
      events == SelectSeq(SliderEventsIter(slider, span, ticks),
                          LAMBDA e : e.kind \in {"tick", "repeat", "tail"})
  IN  CSharpSort(NestedFrom(events, ReflectPath(slider.path, axes), span), 10, 16)

(* OsuObject::new and reflect_vertically, reflect_horizontally,            *)
(* reflect_both_axes or, without a reflection, finalize_nested. Hold notes *)
(* become spinners.                                                        *)
Positioned(nested, pos) == [k \in DOMAIN nested |-> [nested[k] EXCEPT !.pos = Plus(pos, @)]]
ReflectPos(p, axes) == [a \in 1 .. 2 |-> IF a \in axes THEN PlayfieldSize[a] - p[a] ELSE p[a]]

OsuObject(map, h, axes) ==
  LET pos    == ReflectPos(h.pos, axes)
      nested == IF h.kind = "slider" THEN NestedObjects(map, h, axes) ELSE <<>>
  IN  [ kind   |-> IF h.kind = "hold" THEN "spinner" ELSE h.kind,
        pos    |-> pos,
        time   |-> h.time,
        end    |-> CASE h.kind = "circle" -> h.time
                     [] h.kind = "slider" -> EndTime(map, h)
                     [] OTHER             -> h.time + h.duration,
        nested |-> Positioned(nested, pos) ]

(* end_pos: that of the last tail. Old maps look for the end of the path.  *)
NestedOfKind(object, kind) == SelectSeq(object.nested, LAMBDA n : n.kind = kind)
EndPos(object) ==
  IF object.kind # "slider" THEN object.pos
  ELSE IF NestedOfKind(object, "tail") = <<>> THEN <<0, 0>>
  ELSE Last(NestedOfKind(object, "tail")).pos
PathEndPos(object) ==
  LET repeats == NestedOfKind(object, "repeat")
  IN  IF object.kind # "slider" THEN object.pos
      ELSE IF Len(repeats) % 2 = 0 THEN EndPos(object)
      ELSE Head(repeats).pos

(***************************************************************************)
(* stacking: from the last object to the first, each that has no height yet*)
(* looks back for the objects it covers. `base` is the one found last.     *)
(***************************************************************************)

(* Circles under the end of a slider are moved down instead.               *)
UnderSliderUpToBase(objects, height, n, i, base) ==
  [j \in DOMAIN objects |->
     IF j \in n + 1 .. base /\ Near(EndPos(objects[n]), objects[j].pos)
     THEN height[j] - (height[base] - height[n] + 1)
     ELSE height[j]]
UnderSlider(objects, height, n, i, base) ==
  [j \in DOMAIN objects |->
     IF j \in n + 1 .. i /\ Near(EndPos(objects[n]), objects[j].pos)
     THEN height[j] - (height[base] - height[n] + 1)
     ELSE height[j]]

StackCircle(objects, threshold, s, n) ==
  LET base == objects[s.base]
  IN  IF s.done \/ objects[n].kind = "spinner" THEN s
      ELSE IF base.time - objects[n].end > threshold THEN [s EXCEPT !.done = TRUE]
      ELSE IF objects[n].kind = "slider" /\ Near(EndPos(objects[n]), base.pos)
        THEN [s EXCEPT !.done = TRUE, !.height = UnderSlider(objects, @, n, s.from, s.base)]
      ELSE IF Near(objects[n].pos, base.pos)
        THEN [s EXCEPT !.height[n] = s.height[s.base] + 1, !.base = n]
      ELSE s

StackSlider(objects, threshold, s, n) ==
  LET base == objects[s.base]
  IN  IF s.done \/ objects[n].kind = "spinner" THEN s
      ELSE IF base.time - objects[n].time > threshold THEN [s EXCEPT !.done = TRUE]
      ELSE IF Near(EndPos(objects[n]), base.pos)
        THEN [s EXCEPT !.height[n] = s.height[s.base] + 1, !.base = n]
      ELSE s

StackFrom(objects, threshold, height, i) ==
  LET start == [height |-> height, base |-> i, from |-> i, done |-> FALSE]
      circle(s, n) == StackCircle(objects, threshold, s, n)
      slider(s, n) == StackSlider(objects, threshold, s, n)
      before == Reverse(Interval(1, i - 1))
  IN  IF height[i] # 0 \/ objects[i].kind = "spinner" THEN height
      ELSE IF objects[i].kind = "circle" THEN FoldLeft(circle, start, before).height
      ELSE FoldLeft(slider, start, before).height

Stacking(objects, threshold) ==
  LET stack(height, i) == StackFrom(objects, threshold, height, i)
  IN  FoldLeft(stack, [i \in DOMAIN objects |-> 0], Reverse(Interval(2, Len(objects))))

(***************************************************************************)
(* old_stacking: each object looks ahead for those that cover it.          *)
(***************************************************************************)
CoverOld(objects, threshold, s, j) ==
  LET object == objects[s.from]
  IN  IF s.done THEN s
      ELSE IF objects[j].time - threshold > s.start THEN [s EXCEPT !.done = TRUE]
      ELSE IF Near(objects[j].pos, object.pos)
        THEN [s EXCEPT !.height[s.from] = @ + 1, !.start = objects[j].time]
      ELSE IF Near(objects[j].pos, PathEndPos(object))
        THEN [s EXCEPT !.height[j] = @ - (s.slider + 1), !.slider = @ + 1,
                       !.start = objects[j].time]
      ELSE s

OldStacking(objects, threshold) ==
  LET cover(s, j) == CoverOld(objects, threshold, s, j)
      stack(height, i) ==
        IF height[i] # 0 /\ objects[i].kind # "slider" THEN height
        ELSE FoldLeft(cover, [height |-> height, from |-> i, start |-> objects[i].end,
                              slider |-> 0, done |-> FALSE],
                      Interval(i + 1, Len(objects))).height
  IN  FoldLeft(stack, [i \in DOMAIN objects |-> 0], Interval(1, Len(objects)))

(* convert_objects. The threshold is the preempt times the stack leniency. *)
Stacked(objects, map) ==
  [objects |-> objects,
   height  |-> IF map.version >= 6 THEN Stacking(objects, map.threshold)
               ELSE OldStacking(objects, map.threshold)]

OsuObjects(map, axes) ==
  Stacked([i \in DOMAIN map.objects |-> OsuObject(map, map.objects[i], axes)], map)
=============================================================================
