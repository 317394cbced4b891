---------------------------- MODULE TaikoConvert -----------------------------
(***************************************************************************)
(* The conversion of an osu!standard map to osu!taiko, and what the Random *)
(* mod does to it: src/taiko/convert.rs.                                   *)
(*                                                                         *)
(* A map is a record of its version, multiplier and tickRate (in tenths),  *)
(* the beat length of its only timing point, its difficulty points         *)
(* (velocities) and effect points (effects), its objects in order and one  *)
(* set of sounds for each. Times are in ms; a slider of `spans` spans is   *)
(* `dist` pixels long and has the sounds `nodes`.                          *)
(***************************************************************************)
EXTENDS SliderEvents, Sorting

(* should_convert_slider_to_taiko_hits: the 1.4 of the distance and of the *)
(* velocity cancel out.                                                    *)
DrumRollDuration(map, slider) ==
  (slider.dist * slider.spans * AdjustedBeatLen(VelocityAt(map, slider.time), map.beat))
    \div (10 * map.multiplier)

ConversionBeatLen(map, slider) ==
  IF map.version >= 8 THEN map.beat
  ELSE AdjustedBeatLen(VelocityAt(map, slider.time), map.beat)

TickSpacing(map, slider) ==
  Least((ConversionBeatLen(map, slider) * 10) \div map.tickRate,
        DrumRollDuration(map, slider) \div slider.spans)

ShouldConvertSliderToHits(map, slider) ==
  /\ TickSpacing(map, slider) > 0
  /\ DrumRollDuration(map, slider) < 2 * ConversionBeatLen(map, slider)

(* The hits of a slider, one for each tick up to an eighth after its end,  *)
(* and their sounds, those of its nodes in turn or else that of the object.*)
SliderHits(map, slider) ==
  LET spacing == TickSpacing(map, slider)
  IN  [i \in 1 .. (8 * DrumRollDuration(map, slider) + spacing) \div (8 * spacing) + 1 |->
         [kind |-> "circle", time |-> slider.time + (i - 1) * spacing]]

NodeSoundAfterTheLast(slider, sound, i) ==
  IF i >= Len(slider.nodes) THEN sound ELSE slider.nodes[i + 1]
NodeSound(slider, sound, i) ==
  IF slider.nodes = <<>> THEN sound ELSE slider.nodes[(i % Len(slider.nodes)) + 1]

(* Where the velocity changes with a slider, so does the scroll speed.     *)
ScrollPoint(map, effects, time) ==
  Add(effects, NewEffectPoint(time, PointAt("effect", effects, time).kiai, VelocityAt(map, time)))

ConvertObject(map, c, i) ==
  LET object == map.objects[i]
      scrolls == object.kind = "slider" /\ c.speed # VelocityAt(map, object.time)
      hits == SliderHits(map, object)
      d == IF scrolls
           THEN [c EXCEPT !.speed = VelocityAt(map, object.time),
                          !.effects = ScrollPoint(map, @, object.time)]
           ELSE c
  IN  IF object.kind = "slider" /\ ShouldConvertSliderToHits(map, object)
      THEN [d EXCEPT !.objects = @ \o hits,
                     !.sounds = @ \o [k \in DOMAIN hits |-> NodeSound(object, map.sounds[i], k - 1)]]
      ELSE [d EXCEPT !.objects = Append(@, [kind |-> IF object.kind = "hold" THEN "spinner"
                                                     ELSE object.kind,
                                            time |-> object.time]),
                     !.sounds = Append(@, map.sounds[i])]

(* convert: objects and sounds are sorted by the same sorter.              *)
SortedTogether(done) ==
  LET first  == Sort(NewStable([i \in DOMAIN done.objects |-> done.objects[i].time]), done.objects)
      second == Sort(first.sorter, done.sounds)
  IN  [objects |-> first.slice, sounds |-> second.slice, effects |-> done.effects]

ConvertToTaiko(map) ==
  LET convert(c, i) == ConvertObject(map, c, i)
  IN  SortedTogether(FoldLeft(convert, [objects |-> <<>>, sounds |-> <<>>, speed |-> 100,
                                        effects |-> map.effects],
                              Interval(1, Len(map.objects))))

(* apply_random_to_beatmap: `rims` are the objects the generator makes rims*)
RandomSounds(objects, sounds, rims) ==
  [i \in DOMAIN sounds |->
     IF objects[i].kind # "circle" THEN sounds[i]
     ELSE IF i \in rims THEN sounds[i] \cup {"CLAP"}
     ELSE sounds[i] \ {"CLAP", "WHISTLE"}]

WithRandom(map, rims) == map @@ [random |-> RandomSounds(map.objects, map.sounds, rims)]

(* TaikoObject::new                                                        *)
HitType(object, sound) ==
  CASE object.kind # "circle" -> "NonHit"
    [] object.kind = "circle" /\ sound \cap {"CLAP", "WHISTLE"} # {} -> "Rim"
    [] OTHER -> "Center"

(***************************************************************************)
(* What the conversion promises                                            *)
(***************************************************************************)

(* The object with its sounds that another comes from, a hit of a slider   *)
(* with those of its node.                                                 *)
ComesFrom(map, object, sound, i) ==
  LET source == map.objects[i]
      hits == SliderHits(map, source)
  IN  IF source.kind = "slider" /\ ShouldConvertSliderToHits(map, source)
      THEN \E k \in DOMAIN hits :
             /\ hits[k] = object
             /\ sound = IF source.nodes = <<>> THEN map.sounds[i]
                        ELSE source.nodes[((k - 1) % Len(source.nodes)) + 1]
      ELSE source.time = object.time /\ map.sounds[i] = sound
=============================================================================
