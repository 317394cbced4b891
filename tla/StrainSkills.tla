---------------------------- MODULE StrainSkills ----------------------------
(***************************************************************************)
(* How the skills collect the strain of one object after the other in      *)
(* sections of equal length: define_skill! in src/util/macros.rs, the value*)
(* of the sections' peaks in src/any/difficulty/skills.rs and              *)
(* src/osu/difficulty/skills/strain.rs, and where skills differ their      *)
(* calculate_initial_strain and strain_value_at:                           *)
(*                                                                         *)
(*   "decay"  StrainDecaySkill, Aim, Flashlight, Reading, colour stamina   *)
(*   "speed"  osu!standard's Speed, a strain times a rhythm                *)
(*   "single" the single colour stamina of osu!taiko                       *)
(*   "mania"  osu!mania's Strain, of columns and overall                   *)
(*                                                                         *)
(* Times count ticks, a tick halves a strain and quarters that of a column.*)
(* Evaluated difficulties are any numbers, large enough powers of two that *)
(* halving leaves no remainder.                                            *)
(***************************************************************************)
EXTENDS Arithmetic, SequencesExt, FiniteSetsExt

Decayed(strain, ticks) == strain \div 2 ^ ticks

NewSkill(kind, length, overall) ==
  [kind |-> kind, length |-> length, end |-> 0, peak |-> 0, peaks |-> <<>>, strains |-> <<>>,
   current |-> 0, factor |-> 0, columns |-> [c \in 1 .. 2 |-> 0], highest |-> 0,
   overall |-> overall]

(* calculate_initial_strain, `ticks` after the object before.              *)
InitialStrain(s, ticks) ==
  CASE s.kind = "decay"  -> Decayed(s.current, ticks)
    [] s.kind = "speed"  -> Decayed(s.current * s.factor, ticks)
    [] s.kind = "single" -> 0
    [] s.kind = "mania"  -> Decayed(s.highest, 2 * ticks) + Decayed(s.overall, ticks)

(* adjusted_delta_time: not below MIN_DELTA_TIME.                          *)
MinDelta == 1

WithCurrent(s, delta, value) == [s EXCEPT !.current = Decayed(@, delta) + value]

(* The time since the last object in the column, 0 for the first.          *)
ColumnStrainTime(objects, i) ==
  LET before == {j \in 1 .. i - 1 : objects[j].column = objects[i].column}
  IN  IF before = {} THEN 0 ELSE objects[i].time - objects[Max(before)].time

(* Objects of one time are a chord, which takes its hardest column.        *)
WithColumn(s, objects, i) ==
  LET o == objects[i]
      strain == Decayed(s.columns[o.column], 2 * ColumnStrainTime(objects, i)) + o.value
  IN  [s EXCEPT !.columns[o.column] = strain,
                !.highest = IF o.delta = 0 THEN Greatest(@, strain) ELSE strain,
                !.overall = Decayed(@, o.delta) + o.value]

(* strain_value_at: the skill and the strain of the object.                *)
StrainValueAt(s, objects, i) ==
  LET o == objects[i]
      delta == IF s.kind = "speed" THEN Greatest(o.delta, MinDelta) ELSE o.delta
      next == IF s.kind = "mania" THEN WithColumn(s, objects, i)
              ELSE [WithCurrent(s, delta, o.value) EXCEPT !.factor = o.factor]
  IN  [skill  |-> next,
       strain |-> CASE s.kind = "decay" -> next.current
                    [] s.kind = "mania" -> next.highest + next.overall
                    [] OTHER            -> next.current * next.factor]

PreviousTime(objects, i) == IF i = 1 THEN 0 ELSE objects[i - 1].time

(* Sections that begin with an object at the end of the one before.        *)
BeginSectionsAtTheEnd(s, objects, i) ==
  LET begun == Greatest(0, (objects[i].time - s.end) \div s.length + 1)
      initial(k) == InitialStrain(s, s.end + (k - 1) * s.length - PreviousTime(objects, i))
  IN  IF begun = 0 THEN s
      ELSE [s EXCEPT !.end = @ + begun * s.length,
                     !.peaks = Append(@, s.peak) \o [k \in 1 .. begun - 1 |-> initial(k)],
                     !.peak = initial(begun)]

(* The sections the loop begins before object i, each with the strain that *)
(* is left of the object before at its start.                              *)
BeginSections(s, objects, i) ==
  LET begun == Greatest(0, Ceil(objects[i].time - s.end, s.length))
      initial(k) == InitialStrain(s, s.end + (k - 1) * s.length - PreviousTime(objects, i))
  IN  IF begun = 0 THEN s
      ELSE [s EXCEPT !.end = @ + begun * s.length,
                     !.peaks = Append(@, s.peak) \o [k \in 1 .. begun - 1 |-> initial(k)],
                     !.peak = initial(begun)]

(* process of object i; the first one sets the end of its section.         *)
Process(s, objects, i) ==
  LET first == IF i = 1 THEN [s EXCEPT !.end = Ceil(objects[1].time, s.length) * s.length] ELSE s
      value == StrainValueAt(BeginSections(first, objects, i), objects, i)
  IN  [value.skill EXCEPT !.peak = Greatest(@, value.strain),
                          !.strains = Append(@, value.strain)]

(* The skill after each number of objects.                                 *)
Progress(skill, objects) ==
  LET after[n \in 0 .. Len(objects)] ==
        IF n = 0 THEN skill ELSE Process(after[n - 1], objects, n)
  IN  after

CurrentStrainPeaks(s) == Append(s.peaks, s.peak)

(* difficulty_value: the peaks without zeros, the highest first, and of    *)
(* Aim and Speed the first ones scaled down and sorted again. Weights fall *)
(* and scales grow to the last one.                                        *)
Descending(strains) == SortSeq(SelectSeq(strains, LAMBDA p : p > 0), >)
Weighted(strains, weights) ==
  FoldLeft(LAMBDA sum, i : sum + strains[i] * weights[i], 0, Interval(1, Len(strains)))

DifficultyValue(peaks, weights) == Weighted(Descending(peaks), weights)
ReducedValue(peaks, weights, scales) ==
  LET strains == Descending(peaks)
      scaled  == [i \in DOMAIN strains |-> strains[i] * scales[Least(i, Len(scales))]]
  IN  Weighted(Descending(scaled), weights)
FlashlightValue(peaks) == FoldLeft(LAMBDA a, b : a + b, 0, peaks)

(* Reading: the index behind the last object on the screen, which only     *)
(* moves forward, and the number of objects shown with object i.           *)
DensityEnd(end, objects, i, preempt) ==
  LET from == Greatest(end, i - 1)
      late == {j \in from + 1 .. Len(objects) : objects[j].time > objects[i].time + preempt}
  IN  IF late = {} THEN Greatest(from, Len(objects)) ELSE Min(late) - 1
OnScreen(end, i) == Greatest(SaturatingSub(end, i - 1), 1)

(* For the objects the skill gets to see, in their order.                  *)
Densities(objects, seen, preempt) ==
  LET step(r, i) ==
        LET end == DensityEnd(r.end, objects, i, preempt)
        IN  [end |-> end, shown |-> Append(r.shown, OnScreen(end, i))]
  IN  FoldLeft(step, [end |-> 0, shown |-> <<>>],
               SelectSeq(Interval(1, Len(objects)), LAMBDA i : i \in seen)).shown
=============================================================================
