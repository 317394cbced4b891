----------------------------- MODULE NoteDensity -----------------------------
(***************************************************************************)
(* The density of notes that the conversion to osu!mania keeps up to date, *)
(* compute_density in src/mania/convert/mod.rs: it pushes the time of a    *)
(* note on a limited queue and reads the first and the last time off the   *)
(* queue's slices. Times need not grow: a slider's repeats are pushed      *)
(* before the next object, which may start earlier.                        *)
(***************************************************************************)
EXTENDS LimitedQueue

VARIABLE density  (* <<duration, notes>>, or Unknown (i32::MAX).           *)

Unknown == <<>>

DensityInit == QueueInit /\ density = Unknown

(* The three patterns that the slices are matched with: two slices, the    *)
(* second alone, the first alone.                                          *)
SlicesDensity(slices, n) ==
  LET first == slices[1]
      second == slices[2]
  IN  CASE Len(first) >= 1 /\ Len(second) >= 1 -> <<second[Len(second)] - first[1], n>>
        [] first = <<>> /\ Len(second) >= 2    -> <<second[Len(second)] - second[1], n>>
        [] Len(first) >= 2 /\ second = <<>>    -> <<first[Len(first)] - first[1], n>>
        [] OTHER                               -> density

ComputeDensityBeforePush(newNoteTime) ==
  /\ Push(newNoteTime)
  /\ density' = SlicesDensity(AsSlices, len)
ComputeDensity(newNoteTime) ==
  /\ Push(newNoteTime)
  /\ density' = SlicesDensity(AsSlices', len')

densityVars == <<queueVars, density>>

DensityNext == \E newNoteTime \in Elements : ComputeDensity(newNoteTime)

DensitySpec == DensityInit /\ [][DensityNext]_densityVars

(* After two notes the density is the time from the oldest to the newest   *)
(* of the latest notes, over their number; before, it is unknown. It never *)
(* is the one of an older set of notes.                                    *)
DensityOfLatest ==
  density = IF len < 2 THEN Unknown ELSE <<Contents[len] - Contents[1], len>>
=============================================================================
