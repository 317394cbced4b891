------------------------------ MODULE ManiaMods ------------------------------
(***************************************************************************)
(* What the mods HoldOff, Invert and Random make of the notes of an        *)
(* osu!mania map, prepare_map in src/mania/convert/mod.rs.                 *)
(*                                                                         *)
(* Notes are [time, end, x, hold]: a note that is no hold ends where it    *)
(* starts. They are sorted by time; no osu!mania map has other objects.    *)
(***************************************************************************)
EXTENDS ManiaPatterns, Sorting

(* apply_hold_off_to_beatmap                                               *)
HoldOff(notes) ==
  LET circle(note) == [note EXCEPT !.end = note.time, !.hold = FALSE]
      circles == SelectSeq(notes, LAMBDA note : ~note.hold)
      holds   == SelectSeq(notes, LAMBDA note : note.hold)
      all     == circles \o [i \in DOMAIN holds |-> circle(holds[i])]
  IN  SortSeq(all, Before)

(* apply_invert_to_beatmap: in each column, holds from each of its         *)
(* locations to the next, shortened by a quarter of a beat or by half.     *)
Locations(column) ==
  LET circles == SelectSeq(column, LAMBDA note : ~note.hold)
      holds   == SelectSeq(column, LAMBDA note : note.hold)
  IN  [i \in DOMAIN circles |-> circles[i].time]
      \o FlattenSeq([i \in DOMAIN holds |-> <<holds[i].time, holds[i].end>>])

HoldsBetween(locations, x, beat) ==
  [i \in 1 .. Len(locations) - 1 |->
     LET duration == locations[i + 1] - locations[i]
     IN  [time |-> locations[i], x |-> x, hold |-> TRUE,
          end  |-> locations[i] + Greatest(duration \div 2, duration - beat \div 4)]]

(* Invert that takes the notes before the holds, whenever they start.      *)
InvertUnsorted(notes, total, beat) ==
  LET inverted(c) ==
        LET column == SelectSeq(notes, LAMBDA note : ColumnAt(note.x, total) = c)
        IN  IF column = <<>> THEN <<>>
            ELSE HoldsBetween(Locations(column), column[1].x, beat)
  IN  SortSeq(FlattenSeq([c \in 1 .. total |-> inverted(c - 1)]), Before)

Invert(notes, total, beat) ==
  LET inverted(c) ==
        LET column == SelectSeq(notes, LAMBDA note : ColumnAt(note.x, total) = c)
        IN  IF column = <<>> THEN <<>>
            ELSE HoldsBetween(SortSeq(Locations(column), <), column[1].x, beat)
  IN  SortSeq(FlattenSeq([c \in 1 .. total |-> inverted(c - 1)]), Before)

(* apply_random_to_beatmap: any random numbers shuffle the columns.        *)
Shuffled(notes, total, shuffle) ==
  [i \in DOMAIN notes |->
     [notes[i] EXCEPT !.x = ColumnToPos(shuffle[ColumnAt(notes[i].x, total)], total)]]

(* prepare_map of a map that is osu!mania already. A shuffle permutes the  *)
(* columns, or is <<>> without the mod.                                    *)
PrepareNotes(notes, total, beat, mods, shuffle) ==
  LET held   == IF "HoldOff" \in mods THEN HoldOff(notes) ELSE notes
      turned == IF "Invert" \in mods THEN Invert(held, total, beat) ELSE held
      placed == IF shuffle = <<>> THEN turned ELSE Shuffled(turned, total, shuffle)
  IN  LegacySort(placed, 32)
=============================================================================
