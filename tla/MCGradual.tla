----------------------------- MODULE MCGradual ------------------------------
(* Small maps of every mode: every osu!taiko map of up to MaxHits objects, *)
(* told apart by which of them are hits; every sequence of recorded        *)
(* osu!catch objects in which tiny droplets are followed by a fruit, as a  *)
(* juice stream ends with one; and every osu!mania map of circles, holds   *)
(* too short for additional combo and holds worth two more.                *)
EXTENDS Gradual

CONSTANTS MaxHits, MaxRecorded, MaxNotes

MapsOfHits == UNION {[1 .. n -> BOOLEAN] : n \in 0 .. MaxHits}

RecordedMaps ==
  {m \in UNION {[1 .. n -> {"fruit", "droplet", "tiny"}] : n \in 0 .. MaxRecorded} :
     \A i \in 1 .. Len(m) : m[i] = "tiny" => \E j \in i + 1 .. Len(m) : m[j] = "fruit"}

Notes == {[circle |-> TRUE, ticks |-> 0], [circle |-> FALSE, ticks |-> 0],
          [circle |-> FALSE, ticks |-> 2]}

MapsOfNotes == UNION {[1 .. n -> Notes] : n \in 0 .. MaxNotes}
=============================================================================
