----------------------------- MODULE TaikoGroups -----------------------------
(***************************************************************************)
(* How osu!taiko's difficulty objects are grouped before any skill sees    *)
(* them: by colour in src/taiko/difficulty/color/preprocessor.rs and its   *)
(* data, by rhythm in src/taiko/difficulty/rhythm/ and utils/.             *)
(*                                                                         *)
(* Objects are given as a sequence of [type, time] in ms at a clock rate of*)
(* 1, the first two of which are only looked at. A group is the sequence   *)
(* of the numbers of its members.                                          *)
(***************************************************************************)
EXTENDS Arithmetic, SequencesExt, FiniteSetsExt

MarginOfError == 5

(* TaikoDifficultyObject::new: difficulty objects, the notes among them and*)
(* for each the number of notes before it; drum rolls keep the number 0.   *)
DifficultyObjects(hits) ==
  [i \in 1 .. Len(hits) - 2 |->
     [type |-> hits[i + 2].type, time |-> hits[i + 2].time,
      delta |-> hits[i + 2].time - hits[i + 1].time]]

Notes(objects) == SelectSeq(Interval(1, Len(objects)), LAMBDA i : objects[i].type # "NonHit")
NoteIdx(objects, i) ==
  IF objects[i].type = "NonHit" THEN 0
  ELSE Cardinality({j \in 1 .. i - 1 : objects[j].type # "NonHit"})

(* previous_note(h, 0), next_note(h, 0): {} or the one note.               *)
PreviousObject(objects, i) == {j \in {i - 1} : j > 0}
PreviousNote(objects, i) ==
  LET notes == Notes(objects) IN {notes[k] : k \in {NoteIdx(objects, i)} \cap DOMAIN notes}

(***************************************************************************)
(* Colour                                                                  *)
(***************************************************************************)

(* Splits a sequence where Starts holds for the position of an element.    *)
SplitAt(seq, starts) ==
  LET heads == SelectSeq(Interval(1, Len(seq)), LAMBDA i : i = 1 \/ i \in starts)
      after(k) == IF k < Len(heads) THEN heads[k + 1] - 1 ELSE Len(seq)
  IN  IF seq = <<>> THEN <<>> ELSE [k \in DOMAIN heads |-> SubSeq(seq, heads[k], after(k))]

(* encode_mono_streaks                                                     *)
MonoStreaks(objects) ==
  SplitAt(Interval(1, Len(objects)),
          {i \in 2 .. Len(objects) :
             ~ \E j \in PreviousNote(objects, i) : objects[j].type = objects[i].type})

(* encode_alternating_mono_pattern: streaks of one length.                 *)
AlternatingMonoPatterns(streaks) ==
  SplitAt(streaks, {i \in 2 .. Len(streaks) : Len(streaks[i]) # Len(streaks[i - 1])})

HasIdenticalMonoLen(p, q) == Len(p[1]) = Len(q[1])
IsRepetition(objects, p, q) ==
  /\ HasIdenticalMonoLen(p, q)
  /\ Len(p) = Len(q)
  /\ objects[p[1][1]].type = objects[q[1][1]].type

(* encode_repeating_hit_patterns: couples that repeat after two patterns   *)
(* stay together with the two that follow the last of them.                *)
RepeatingHitPatterns(objects, patterns) ==
  LET coupled(i) == i + 2 <= Len(patterns) /\ IsRepetition(objects, patterns[i], patterns[i + 2])
      end(i) == IF coupled(i) THEN 1 + Min({j \in i .. Len(patterns) : ~coupled(j)}) ELSE i
      heads[i \in 1 .. Len(patterns) + 1] ==
        IF i > Len(patterns) THEN {} ELSE {i} \cup heads[end(i) + 1]
  IN  IF patterns = <<>> THEN <<>> ELSE SplitAt(patterns, heads[1])

(* ColorData::previous_color_change: the note before the streak.           *)
PreviousColorChange(objects, i) ==
  LET streaks == MonoStreaks(objects)
      streak  == CHOOSE s \in ToSet(streaks) : i \in ToSet(s)
  IN  PreviousNote(objects, streak[1])

(***************************************************************************)
(* Rhythm                                                                  *)
(***************************************************************************)
AlmostEq(a, b) == a - b <= MarginOfError /\ b - a <= MarginOfError

(* GroupedByIntervalIter: the position after the group that begins at i, of*)
(* a sequence of intervals. The first two are never compared; the object at*)
(* an increase of the interval belongs to the group before it.             *)
GroupEnd(intervals, i) ==
  LET n == Len(intervals)
      changes == {j \in i + 1 .. n - 1 : ~AlmostEq(intervals[j], intervals[j + 1])}
      change == Min(changes)
  IN  IF changes # {}
      THEN IF intervals[change + 1] > intervals[change] + MarginOfError THEN change + 1 ELSE change
      ELSE IF n > 2 /\ i < n /\ AlmostEq(intervals[n], intervals[n - 1]) THEN n + 1
      ELSE Greatest(i + 1, n)

GroupByInterval(seq, intervals) ==
  LET groups[i \in 1 .. Len(seq) + 1] ==
        IF i > Len(seq) THEN <<>>
        ELSE <<SubSeq(seq, i, GroupEnd(intervals, i) - 1)>> \o groups[GroupEnd(intervals, i)]
  IN  groups[1]

(* DeltaTimeNormalizer: delta times within the margin of the smallest of   *)
(* their set become its median. Twice a median is a whole number.          *)
DeltaSets(deltas) ==
  LET place(sets, delta) ==
        IF sets # <<>> /\ delta - Last(sets)[1] <= MarginOfError
        THEN Append(Front(sets), Append(Last(sets), delta))
        ELSE Append(sets, <<delta>>)
  IN  FoldLeft(place, <<>>, SelectSeq(Interval(Min(deltas), Max(deltas)), LAMBDA d : d \in deltas))

TwiceMedian(set) ==
  LET mid == Len(set) \div 2
  IN  IF Len(set) % 2 = 1 THEN 2 * set[mid + 1] ELSE set[mid] + set[mid + 1]

Normalized(deltas, delta) ==
  TwiceMedian(CHOOSE set \in ToSet(DeltaSets(deltas)) : delta \in ToSet(set))

(* SameRhythmHitObjectGrouping::new: the interval between the objects of a *)
(* group, NoInterval if it has only one, and between the groups.           *)
NoInterval == -1

ModalDelta(objects, group) ==
  RoundTiesEven(Normalized({objects[i].delta : i \in ToSet(group)}, objects[group[2]].delta), 2)

RhythmGroup(objects, before, group) ==
  LET modal == ModalDelta(objects, group)
      previous == IF before = <<>> THEN NoInterval ELSE Last(before).within
      gap == objects[group[1]].time - objects[Last(before).members[1]].time
  IN  [ members |-> group,
        within  |-> IF Len(group) = 1 THEN NoInterval
                    ELSE IF previous # NoInterval /\ AlmostEq(modal, previous) THEN previous
                    ELSE modal,
        \* infinite for the first group, whose interval no comparison reads
        apart   |-> IF before = <<>> \/ AlmostEq(gap, 0) THEN 0 ELSE gap ]

(* create_same_rhythm_grouped_hit_objects of the notes.                    *)
RhythmGroups(objects) ==
  LET notes == Notes(objects)
      push(before, group) == Append(before, RhythmGroup(objects, before, group))
  IN  FoldLeft(push, <<>>, GroupByInterval(notes, [k \in DOMAIN notes |-> objects[notes[k]].delta]))

(* create_same_pattern_grouped_hit_objects                                 *)
PatternGroups(groups) == GroupByInterval(groups, [k \in DOMAIN groups |-> groups[k].apart])
=============================================================================
