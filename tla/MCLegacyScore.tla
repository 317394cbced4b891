--------------------------- MODULE MCLegacyScore ---------------------------
(* Maps of up to three objects and two breaks on a grid of GridPoints      *)
(* instants one and a half seconds apart. Breaks may be empty, overlap and *)
(* come in any order.                                                      *)
EXTENDS LegacyScore

CONSTANT GridPoints

Grid == {1500 * i : i \in 0 .. GridPoints - 1}

Circle == [kind |-> "circle"]
Slider == [kind |-> "slider", nested |-> <<"tick", "repeat", "repeat">>]
Spinner(possible, required) ==
  [kind |-> "spinner", possible |-> possible, required |-> required]

(* The half spins of spinners that last 0.6, 0.7, 1 and 0.3 seconds: an odd *)
(* and an even number is required, and the last is too short for a bonus.  *)
KindSequences ==
  { <<Circle, Slider, Spinner(9, 1)>>,
    <<Spinner(11, 2), Circle, Slider>>,
    <<Spinner(15, 3), Spinner(4, 0)>> }

Ordered(s) == \A i \in 1 .. Len(s) - 1 : s[i] <= s[i + 1]

Starts == UNION {{s \in [1 .. n -> Grid] : Ordered(s)} : n \in 1 .. 3}

Intervals == {b \in [start : Grid, end : Grid] : b.start <= b.end}

BreakLists == {<<>>} \cup {<<b>> : b \in Intervals} \cup (Intervals \X Intervals)

AllMaps ==
  UNION { {[starts |-> s, kinds |-> SubSeq(k, 1, Len(s)), breaks |-> b] :
             s \in {t \in Starts : Len(t) <= Len(k)}, b \in BreakLists} :
          k \in KindSequences }

=============================================================================
