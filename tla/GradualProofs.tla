--------------------------- MODULE GradualProofs ---------------------------
(***************************************************************************)
(* Proofs about the gradual calculators of all modes (Gradual), called as  *)
(* difficulty or as performance calculators: for every map of every mode,  *)
(* every passed_objects and every mix of next() and nth(n).                *)
(*                                                                         *)
(* Each mode's calculator has an inductive invariant and the proof that    *)
(* its calls keep it. The last part shows that a step of the composition   *)
(* is a call of one calculator while the others rest, and what the         *)
(* performance calculators add.                                            *)
(*                                                                         *)
(* osu!mania: ManiaAt(k) is the calculator that has passed k objects.      *)
(* Every call leads from one of these to another, so that the inductive    *)
(* invariant is that the calculator is ManiaAt(idx), with the answer of    *)
(* that step.                                                              *)
(*                                                                         *)
(* osu!catch: CatchAt(k) is the calculator that has passed k palpable      *)
(* objects. The heart of the proof is that the two ways in which           *)
(* attributes.rs counts the objects of a map agree: CountsAgree, by        *)
(* induction along the map.                                                *)
(*                                                                         *)
(* osu!taiko: a step is a hit, so where the calculator is depends on which *)
(* of the objects are hits. The inductive invariant relates its combo to   *)
(* the hits among the objects it has consumed. On a map that starts with   *)
(* two hits that is also its position, and every answer is the one-shot    *)
(* calculation of the hits passed so far.                                  *)
(***************************************************************************)
EXTENDS Gradual, Induction, FiniteSetTheorems

(***************************************************************************)
(* osu!standard                                                            *)
(***************************************************************************)

(***************************************************************************)
(* The inductive invariant                                                 *)
(***************************************************************************)

(* What the idx objects that a calculator has passed leave in it. The      *)
(* first object is counted from the start; a map cut off by                *)
(* passed_objects(0) simulates its second object again and again once the  *)
(* first was passed, so nothing is said about its log then.                *)
Accumulated(c) ==
  /\ c \in CalculatorType
  /\ c.counted = [i \in 1 .. nObjects |-> IF i = 1 \/ i <= c.idx THEN 1 ELSE 0]
  /\ \A s \in NextSkills : c.processed[s] = Interval(1, c.idx - 1)
  /\ (take > 0 \/ c.idx = 0) => c.scored = Interval(1, c.idx)

(* A returned value is what the one-shot calculation has for idx objects.  *)
Answered(c, a) ==
  /\ a \in AttributesType
  /\ Shared(a) = Shared(RegularAttributes(c.idx))

IInv ==
  /\ nObjects \in 0 .. MaxObjects
  /\ take \in PassedObjects
  /\ Accumulated(calc)
  /\ answer # None => Answered(calc, answer)

(***************************************************************************)
(* What a call does to a calculator                                        *)
(***************************************************************************)

(* The sizes a map and its passed_objects give rise to.                    *)
LEMMA Sizes ==
  ASSUME nObjects \in Nat, take \in Nat
  PROVE  /\ DiffCount \in Nat /\ StepsOfMap \in Nat /\ StepsOfMap <= nObjects
         /\ nObjects > 0 => StepsOfMap = DiffCount + 1
         /\ nObjects = 0 => StepsOfMap = 0 /\ DiffCount = 0
         /\ take > 0 => StepsOfMap = nObjects
         /\ take = 0 => DiffCount = 0
BY DEF DiffCount, StepsOfMap, SaturatingSub

(* How far nth(n) skips: never onto the last step of a map, and without    *)
(* gap between the first object, which has no difficulty object, and the   *)
(* difficulty objects of the others.                                       *)
LEMMA SkipNumbers ==
  ASSUME nObjects \in Nat, take \in Nat, NEW n \in Nat,
         NEW c, c.idx \in 0 .. StepsOfMap
  PROVE  /\ SkipFrom(c) \in Nat /\ SkipLoops(c, n) \in Nat
         /\ SkipEnd(c, n) \in c.idx .. StepsOfMap
         /\ c.idx < StepsOfMap => SkipEnd(c, n) < StepsOfMap
         /\ SkipEnd(c, n) = 0 => SkipFrom(c) = 0 /\ SkipLoops(c, n) = 0
         /\ SkipEnd(c, n) > 0 => SkipFrom(c) + SkipLoops(c, n) = SkipEnd(c, n) - 1
         /\ c.idx = 0 => SkipFrom(c) = 0
         /\ c.idx > 0 => SkipFrom(c) = c.idx - 1
         /\ Wanted(c, n) \in Nat /\ SkipEnd(c, n) = c.idx + Wanted(c, n)
<1> DEFINE from == SkipFrom(c)
           first == SkipsFirst(c, n)
           loops == SkipLoops(c, n)
<1>1. /\ DiffCount \in Nat /\ StepsOfMap \in Nat
      /\ nObjects > 0 => StepsOfMap = DiffCount + 1
      /\ nObjects = 0 => StepsOfMap = 0 /\ DiffCount = 0
  BY Sizes
<1>2. Remaining(c) = DiffCount + 1 - c.idx
  BY DEF Remaining
<1>3. Wanted(c, n) = IF n <= (IF Remaining(c) >= 1 THEN Remaining(c) - 1 ELSE 0)
                     THEN n ELSE (IF Remaining(c) >= 1 THEN Remaining(c) - 1 ELSE 0)
  BY DEF Wanted, Least, SaturatingSub
<1>4. /\ Wanted(c, n) \in Nat
      /\ Wanted(c, n) <= DiffCount
      /\ Wanted(c, n) > 0 => Wanted(c, n) <= DiffCount - c.idx
  BY <1>1, <1>2, <1>3
<1>5. first = IF c.idx = 0 /\ Wanted(c, n) > 0 THEN 1 ELSE 0
  BY DEF SkipsFirst
<1>6. from = IF c.idx >= 1 THEN c.idx - 1 ELSE 0
  BY DEF SkipFrom, SaturatingSub
<1>7. loops = Wanted(c, n) - first
  <2>1. Wanted(c, n) - first <= SaturatingSub(DiffCount, from)
    BY <1>1, <1>4, <1>5, <1>6 DEF SaturatingSub
  <2> QED BY <2>1, <1>1, <1>4, <1>5, <1>6 DEF SkipLoops, Least
<1>8. SkipEnd(c, n) = c.idx + first + loops
  BY DEF SkipEnd
<1> QED BY <1>1, <1>4, <1>5, <1>6, <1>7, <1>8

(* Skipping leaves in the calculator what passing the objects one by one   *)
(* would have left there.                                                  *)
LEMMA SkipAccumulates ==
  ASSUME nObjects \in Nat, take \in Nat, NEW n \in Nat, NEW c, Accumulated(c)
  PROVE  /\ Accumulated(SkipOn(c, n))
         /\ c.idx < StepsOfMap => SkipOn(c, n).idx < StepsOfMap
         /\ SkipOn(c, n).idx >= c.idx
<1> DEFINE from == SkipFrom(c)
           loops == SkipLoops(c, n)
           end == SkipEnd(c, n)
           counted == [i \in 1 .. nObjects |->
                        c.counted[i] + (IF i - 1 \in from + 1 .. from + loops THEN 1 ELSE 0)]
           processed == [s \in Skills |-> c.processed[s] \o Interval(from + 1, from + loops)]
           scored == c.scored \o Interval(c.idx + 1, Least(end, nObjects))
<1>1. SkipOn(c, n) = [idx |-> end, counted |-> counted, processed |-> processed, scored |-> scored]
  BY DEF SkipOn
<1>2. /\ c.idx \in 0 .. StepsOfMap
      /\ c.counted = [i \in 1 .. nObjects |-> IF i = 1 \/ i <= c.idx THEN 1 ELSE 0]
      /\ c.processed \in [Skills -> Seq(1 .. DiffCount)]
      /\ c.scored \in Seq(1 .. nObjects)
      /\ \A s \in NextSkills : c.processed[s] = Interval(1, c.idx - 1)
      /\ (take > 0 \/ c.idx = 0) => c.scored = Interval(1, c.idx)
  BY DEF Accumulated, CalculatorType
<1>3. /\ from \in Nat /\ loops \in Nat
      /\ end \in c.idx .. StepsOfMap
      /\ c.idx < StepsOfMap => end < StepsOfMap
      /\ end = 0 => from = 0 /\ loops = 0
      /\ end > 0 => from + loops = end - 1
      /\ c.idx = 0 => from = 0
      /\ c.idx > 0 => from = c.idx - 1
  BY <1>2, SkipNumbers
<1> HIDE DEF from, loops, end
<1>4. /\ DiffCount \in Nat /\ StepsOfMap \in Nat /\ StepsOfMap <= nObjects
      /\ nObjects > 0 => StepsOfMap = DiffCount + 1
      /\ nObjects = 0 => StepsOfMap = 0 /\ DiffCount = 0
      /\ take > 0 => StepsOfMap = nObjects
  BY Sizes
<1>5. from + loops <= DiffCount
  BY SMTT(30), <1>2, <1>3, <1>4
<1>6. counted \in [1 .. nObjects -> Nat]
      /\ counted = [i \in 1 .. nObjects |-> IF i = 1 \/ i <= end THEN 1 ELSE 0]
  BY <1>2, <1>3, <1>4
<1>7. processed \in [Skills -> Seq(1 .. DiffCount)]
  <2>1. Interval(from + 1, from + loops) \in Seq(1 .. DiffCount)
    <3>1. \A i \in from + 1 .. from + loops : i \in 1 .. DiffCount
      BY <1>3, <1>4, <1>5
    <3>2. from + 1 \in Int /\ from + loops \in Int /\ from + loops >= (from + 1) - 1
      BY <1>3
    <3> QED BY <3>1, <3>2, IntervalIsSeq
  <2> QED BY <2>1, <1>2
<1>8. ASSUME NEW s \in NextSkills
      PROVE  processed[s] = Interval(1, end - 1)
  <2>1. c.processed[s] = Interval(1, from)
    <3>1. CASE c.idx = 0
      BY <3>1, <1>2, <1>3 DEF Interval
    <3>2. CASE c.idx > 0
      BY <3>2, <1>2, <1>3
    <3> QED BY <3>1, <3>2, <1>2, <1>4
  <2>2. processed[s] = Interval(1, from + loops)
    <3>1. processed[s] = c.processed[s] \o Interval(from + 1, from + loops)
      BY DEF NextSkills
    <3>2. from \in Nat /\ from + loops \in Nat /\ from <= from + loops
      BY <1>3
    <3> QED BY <2>1, <3>1, <3>2, IntervalsJoin
  <2>3. Interval(1, from + loops) = Interval(1, end - 1)
    <3>1. CASE end = 0
      BY <3>1, <1>3 DEF Interval
    <3>2. CASE end > 0
      BY <3>2, <1>3
    <3> QED BY <3>1, <3>2, <1>3, <1>2, <1>4
  <2> QED BY <2>2, <2>3
<1>9. Least(end, nObjects) = end
  BY <1>3, <1>4 DEF Least
<1>10. scored \in Seq(1 .. nObjects)
  <2>1. Interval(c.idx + 1, end) \in Seq(1 .. nObjects)
    <3>1. \A i \in c.idx + 1 .. end : i \in 1 .. nObjects
      BY <1>2, <1>3, <1>4
    <3>2. c.idx + 1 \in Int /\ end \in Int /\ end >= (c.idx + 1) - 1
      BY <1>2, <1>3, <1>4
    <3> QED BY <3>1, <3>2, IntervalIsSeq
  <2> QED BY <2>1, <1>2, <1>9
<1>11. (take > 0 \/ end = 0) => scored = Interval(1, end)
  <2> SUFFICES ASSUME take > 0 \/ end = 0 PROVE scored = Interval(1, end)
    OBVIOUS
  <2>1. c.scored = Interval(1, c.idx)
    BY <1>2, <1>3
  <2>2. c.idx \in Nat /\ end \in Nat /\ c.idx <= end
    BY <1>2, <1>3, <1>4
  <2> QED BY <2>1, <2>2, <1>9, IntervalsJoin
<1>12. Accumulated([idx |-> end, counted |-> counted, processed |-> processed, scored |-> scored])
  <2> HIDE DEF counted, processed, scored
  <2>1. end \in 0 .. StepsOfMap
    BY <1>2, <1>3, <1>4
  <2> QED BY <2>1, <1>6, <1>7, <1>8, <1>10, <1>11 DEF Accumulated, CalculatorType
<1> QED BY <1>1, <1>12, <1>3, <1>2, <1>4

(* Where no step is left nothing is skipped.                               *)
LEMMA SkipNothing ==
  ASSUME nObjects \in Nat, take \in Nat, NEW n \in Nat, NEW c, Accumulated(c),
         c.idx = StepsOfMap
  PROVE  SkipOn(c, n) = c
<1> DEFINE from == SkipFrom(c)
           loops == SkipLoops(c, n)
           counted == [i \in 1 .. nObjects |->
                        c.counted[i] + (IF i - 1 \in from + 1 .. from + loops THEN 1 ELSE 0)]
           processed == [s \in Skills |-> c.processed[s] \o Interval(from + 1, from + loops)]
           scored == c.scored \o Interval(c.idx + 1, Least(SkipEnd(c, n), nObjects))
<1>1. SkipOn(c, n) = [ idx |-> SkipEnd(c, n), counted |-> counted,
                       processed |-> processed, scored |-> scored ]
  BY DEF SkipOn
<1>2. /\ c \in CalculatorType
      /\ c.counted \in [1 .. nObjects -> Nat]
      /\ c.processed \in [Skills -> Seq(1 .. DiffCount)]
      /\ c.scored \in Seq(1 .. nObjects)
      /\ c.idx \in 0 .. StepsOfMap /\ StepsOfMap \in Nat /\ StepsOfMap <= nObjects
  BY Sizes DEF Accumulated, CalculatorType
<1>3. SkipEnd(c, n) = c.idx /\ loops = 0 /\ from \in Nat
  <2>1. /\ from \in Nat /\ loops \in Nat
        /\ SkipEnd(c, n) \in c.idx .. StepsOfMap
        /\ SkipEnd(c, n) = 0 => loops = 0
        /\ SkipEnd(c, n) > 0 => from + loops = SkipEnd(c, n) - 1
        /\ c.idx > 0 => from = c.idx - 1
    BY <1>2, SkipNumbers
  <2> HIDE DEF from, loops
  <2> QED BY <1>2, <2>1
<1>4. Least(SkipEnd(c, n), nObjects) = c.idx
  BY <1>2, <1>3 DEF Least
<1> HIDE DEF from, loops
<1>5. Interval(from + 1, from + loops) = <<>> /\ Interval(c.idx + 1, c.idx) = <<>>
  BY <1>2, <1>3 DEF Interval
<1>6. counted = c.counted
  <2>1. \A i \in 1 .. nObjects : i - 1 \notin from + 1 .. from + loops
    BY <1>3
  <2>2. \A i \in 1 .. nObjects : c.counted[i] \in Nat
    BY <1>2
  <2>3. \A i \in 1 .. nObjects : counted[i] = c.counted[i]
    BY <2>1, <2>2
  <2> QED BY <1>2, <2>3
<1>7. processed = c.processed
  <2>1. \A s \in Skills : c.processed[s] \o <<>> = c.processed[s]
    BY <1>2, ConcatEmptySeq
  <2> QED BY <1>2, <1>5, <2>1
<1>8. scored = c.scored
  <2>1. c.scored \o <<>> = c.scored
    BY <1>2, ConcatEmptySeq
  <2> QED BY <1>4, <1>5, <2>1
<1> HIDE DEF counted, processed, scored
<1> QED BY <1>1, <1>2, <1>3, <1>6, <1>7, <1>8 DEF CalculatorType

(* next() finds something exactly while steps are left.                    *)
LEMMA HasNextIsSteps ==
  ASSUME nObjects \in Nat, take \in Nat, NEW c, c.idx \in 0 .. StepsOfMap
  PROVE  HasNext(c) <=> c.idx < StepsOfMap
BY Sizes DEF HasNext

(* next() accumulates one more object and answers like the one-shot        *)
(* calculation of the objects passed.                                      *)
LEMMA NextAccumulates ==
  ASSUME nObjects \in Nat, nObjects <= MaxScored, take \in Nat,
         NEW c, Accumulated(c), HasNext(c)
  PROVE  /\ Accumulated(NextOn(c))
         /\ NextOn(c).idx = c.idx + 1
         /\ Answered(NextOn(c), Attributes(NextOn(c)))
<1>1. /\ c \in CalculatorType
      /\ c.idx \in 0 .. StepsOfMap
      /\ c.processed \in [Skills -> Seq(1 .. DiffCount)]
      /\ c.scored \in Seq(1 .. nObjects)
      /\ c.counted = [i \in 1 .. nObjects |-> IF i = 1 \/ i <= c.idx THEN 1 ELSE 0]
      /\ \A s \in NextSkills : c.processed[s] = Interval(1, c.idx - 1)
      /\ (take > 0 \/ c.idx = 0) => c.scored = Interval(1, c.idx)
  BY DEF Accumulated, CalculatorType
<1>2. /\ DiffCount \in Nat /\ StepsOfMap \in Nat /\ StepsOfMap <= nObjects
      /\ nObjects > 0 => StepsOfMap = DiffCount + 1
      /\ take = 0 => DiffCount = 0
  BY Sizes
<1>3. c.idx \in Nat /\ c.idx < StepsOfMap /\ nObjects > 0
  BY <1>1, <1>2, HasNextIsSteps
<1>4. c.scored = Interval(1, c.idx)
  BY <1>1, <1>2, <1>3
<1>5. Len(c.scored) = c.idx
  BY <1>3, <1>4 DEF Interval
<1> DEFINE k == c.idx + 1
           counted == [i \in 1 .. nObjects |-> IF i = 1 \/ i <= k THEN 1 ELSE 0]
           processed == [s \in Skills |->
                          IF c.idx > 0 /\ s \in NextSkills
                          THEN Append(c.processed[s], c.idx) ELSE c.processed[s]]
<1>6. counted \in [1 .. nObjects -> Nat]
  OBVIOUS
<1>7. processed \in [Skills -> Seq(1 .. DiffCount)]
  <2>1. ASSUME NEW s \in Skills
        PROVE  processed[s] \in Seq(1 .. DiffCount)
    <3>1. c.processed[s] \in Seq(1 .. DiffCount)
      BY <1>1
    <3>2. CASE c.idx > 0 /\ s \in NextSkills
      <4>1. c.idx \in 1 .. DiffCount
        BY <3>2, <1>2, <1>3
      <4>2. processed[s] = Append(c.processed[s], c.idx)
        BY <3>2
      <4> HIDE DEF processed
      <4> QED BY <3>1, <4>1, <4>2
    <3>3. CASE ~(c.idx > 0 /\ s \in NextSkills)
      BY <3>1, <3>3
    <3> QED BY <3>2, <3>3
  <2> QED BY <2>1
<1>8. ASSUME NEW s \in NextSkills
      PROVE  processed[s] = Interval(1, k - 1)
  <2>1. CASE c.idx = 0
    BY <2>1, <1>1 DEF NextSkills, Interval
  <2>2. CASE c.idx > 0
    <3>1. processed[s] = Append(Interval(1, c.idx - 1), (c.idx - 1) + 1)
      BY <2>2, <1>1, <1>3 DEF NextSkills
    <3>2. c.idx - 1 \in Nat
      BY <2>2, <1>3
    <3>3. Append(Interval(1, c.idx - 1), (c.idx - 1) + 1) = Interval(1, (c.idx - 1) + 1)
      BY <3>2, IntervalGrows
    <3>4. (c.idx - 1) + 1 = k - 1
      BY <1>3
    <3> HIDE DEF processed
    <3> QED BY <3>1, <3>3, <3>4
  <2> QED BY <2>1, <2>2, <1>3
<1>9. Append(c.scored, k) = Interval(1, k) /\ Append(c.scored, k) \in Seq(1 .. nObjects)
  <2>1. Append(c.scored, k) = Interval(1, k)
    BY <1>3, <1>4, IntervalGrows
  <2>2. k \in 1 .. nObjects
    BY <1>2, <1>3
  <2>3. c.scored \in Seq(1 .. nObjects)
    BY <1>1
  <2> HIDE DEF k
  <2>4. Append(c.scored, k) \in Seq(1 .. nObjects)
    BY <2>2, <2>3
  <2> QED BY <2>1, <2>4
<1>10. /\ NextOn(c) \in CalculatorType
       /\ NextOn(c).idx = k /\ NextOn(c).counted = counted
       /\ NextOn(c).processed = processed /\ NextOn(c).scored = Append(c.scored, k)
  <2> DEFINE simulated == [ idx |-> c.idx, counted |-> c.counted, processed |-> c.processed,
                            scored |-> Append(c.scored, k) ]
  <2>1. Simulate(c) = [c EXCEPT !.scored = Append(@, k)]
    BY <1>2, <1>3, <1>5, MaxScoredAssumption DEF Simulate
  <2>2. Simulate(c) = simulated
    BY <2>1, <1>1 DEF CalculatorType
  <2>3. NextOn(c) = [ProcessNext(simulated) EXCEPT !.idx = k]
    BY <2>2 DEF NextOn
  <2>4. ProcessNext(simulated) =
          [ idx |-> c.idx, counted |-> counted, processed |-> processed,
            scored |-> Append(c.scored, k) ]
    <3>1. CASE c.idx = 0
      <4>1. ProcessNext(simulated) = simulated
        BY <3>1 DEF ProcessNext
      <4>2. processed = c.processed
        BY <3>1, <1>1
      <4>3. counted = c.counted
        BY <3>1, <1>1
      <4> QED BY <4>1, <4>2, <4>3
    <3>2. CASE c.idx > 0
      <4>1. [s \in Skills |-> IF s \in NextSkills
                              THEN Append(c.processed[s], c.idx) ELSE c.processed[s]] = processed
        BY <3>2
      <4>2. [c.counted EXCEPT ![k] = @ + 1] = counted
        <5>1. k \in 1 .. nObjects /\ k # 1
          BY <3>2, <1>2, <1>3
        <5>2. \A i \in 1 .. nObjects : [c.counted EXCEPT ![k] = @ + 1][i] = counted[i]
          BY <5>1, <1>1, <1>3
        <5>3. DOMAIN [c.counted EXCEPT ![k] = @ + 1] = 1 .. nObjects
          BY <1>1
        <5> QED BY <5>2, <5>3
      <4> HIDE DEF processed, counted
      <4>3. ProcessNext(simulated) =
              [simulated EXCEPT
                !.processed = [s \in Skills |-> IF s \in NextSkills
                                                THEN Append(c.processed[s], c.idx)
                                                ELSE c.processed[s]],
                !.counted = [c.counted EXCEPT ![k] = @ + 1]]
        BY <3>2 DEF ProcessNext
      <4> QED BY <4>1, <4>2, <4>3
    <3> QED BY <3>1, <3>2, <1>3
  <2> HIDE DEF processed, counted, simulated
  <2>5. ProcessNext(simulated) \in CalculatorType
    BY SMTT(30), <2>4, <1>1, <1>6, <1>7, <1>9 DEF CalculatorType
  <2>6. k \in 0 .. StepsOfMap
    BY <1>2, <1>3
  <2>7. /\ NextOn(c).counted = ProcessNext(simulated).counted
        /\ NextOn(c).processed = ProcessNext(simulated).processed
        /\ NextOn(c).scored = ProcessNext(simulated).scored
        /\ NextOn(c).idx = k
        /\ NextOn(c) \in CalculatorType
    BY <2>3, <2>5, <2>6 DEF CalculatorType
  <2> QED BY <2>4, <2>7
<1>11. Accumulated(NextOn(c))
  <2> HIDE DEF processed
  <2> QED BY <1>8, <1>9, <1>10 DEF Accumulated
<1>12. Answered(NextOn(c), Attributes(NextOn(c)))
  <2>1. Attributes(NextOn(c)) = [ counted |-> counted, processed |-> processed,
                                  scored |-> Append(c.scored, k) ]
    BY <1>10 DEF Attributes
  <2>2. Attributes(NextOn(c)) \in AttributesType
    BY <2>1, <1>6, <1>7, <1>9 DEF AttributesType, AttributesOf
  <2>3. Least(nObjects, k) = k /\ SaturatingSub(k, 1) = k - 1
    BY <1>2, <1>3 DEF Least, SaturatingSub
  <2>4. Shared(RegularAttributes(k)) =
          [ counted   |-> [i \in 1 .. nObjects |-> IF i <= k THEN 1 ELSE 0],
            processed |-> [s \in NextSkills |-> Interval(1, k - 1)],
            scored    |-> Interval(1, k) ]
    BY <2>3 DEF Shared, RegularAttributes, NextSkills
  <2>5. counted = [i \in 1 .. nObjects |-> IF i <= k THEN 1 ELSE 0]
    BY <1>3
  <2>6. [s \in NextSkills |-> processed[s]] = [s \in NextSkills |-> Interval(1, k - 1)]
    BY <1>8
  <2> HIDE DEF counted, processed, k
  <2>7. Shared(Attributes(NextOn(c))) =
          [ counted |-> counted, processed |-> [s \in NextSkills |-> processed[s]],
            scored |-> Append(c.scored, k) ]
    BY <2>1 DEF Shared
  <2>8. Shared(Attributes(NextOn(c))) = Shared(RegularAttributes(k))
    BY <2>4, <2>5, <2>6, <2>7, <1>9
  <2> QED BY <2>2, <2>8, <1>10 DEF Answered
<1> QED BY <1>10, <1>11, <1>12

(* next() without a step left keeps what was accumulated; only a map cut   *)
(* off by passed_objects(0) simulates another object.                      *)
LEMMA ExhaustedAccumulates ==
  ASSUME nObjects \in Nat, take \in Nat, NEW c, Accumulated(c), ~HasNext(c)
  PROVE  /\ Accumulated(NextOn(c))
         /\ NextOn(c).idx = c.idx
         /\ take > 0 => NextOn(c) = c
<1>1. NextOn(c) = Simulate(c)
  BY DEF NextOn
<1>2. /\ c.idx = StepsOfMap /\ StepsOfMap \in Nat
      /\ take > 0 => StepsOfMap = nObjects
      /\ nObjects > 0 => StepsOfMap > 0
  <2>1. c.idx \in 0 .. StepsOfMap
    BY DEF Accumulated, CalculatorType
  <2>2. StepsOfMap \in Nat /\ (take > 0 => StepsOfMap = nObjects)
        /\ (nObjects > 0 => StepsOfMap > 0)
    BY Sizes
  <2>3. ~(c.idx < StepsOfMap)
    BY <2>1, HasNextIsSteps
  <2> QED BY <2>1, <2>2, <2>3
<1>3. CASE c.idx < nObjects /\ Len(c.scored) < MaxScored
  <2>1. NextOn(c) = [c EXCEPT !.scored = Append(@, c.idx + 1)]
    BY <1>1, <1>3 DEF Simulate
  <2>2. take = 0 /\ c.idx > 0 /\ c.idx + 1 \in 1 .. nObjects
    BY <1>2, <1>3
  <2>3. Append(c.scored, c.idx + 1) \in Seq(1 .. nObjects)
    BY <2>2 DEF Accumulated, CalculatorType
  <2>4. NextOn(c) \in CalculatorType
    BY <2>1, <2>3 DEF Accumulated, CalculatorType
  <2>5. /\ NextOn(c).idx = c.idx /\ NextOn(c).counted = c.counted
        /\ NextOn(c).processed = c.processed
    BY <2>1 DEF Accumulated, CalculatorType
  <2> QED BY <2>2, <2>4, <2>5 DEF Accumulated
<1>4. CASE ~(c.idx < nObjects /\ Len(c.scored) < MaxScored)
  BY <1>1, <1>4 DEF Simulate
<1> QED BY <1>3, <1>4

(***************************************************************************)
(* The theorems                                                            *)
(***************************************************************************)

(* Both calls are a skip (by nothing, for next()) followed by next().      *)
LEMMA CallAccumulates ==
  ASSUME IInv, NEW c, Accumulated(c), calc' = NextOn(c),
         answer' = IF HasNext(c) THEN Attributes(calc') ELSE None,
         UNCHANGED <<nObjects, take>>
  PROVE  IInv'
<1>1. nObjects \in Nat /\ nObjects <= MaxScored /\ take \in Nat
  BY MaxObjectsAssumption, MaxScoredAssumption, PassedObjectsAssumption DEF IInv
<1>2. Accumulated(calc')
  <2>1. CASE HasNext(c)
    BY <1>1, <2>1, NextAccumulates
  <2>2. CASE ~HasNext(c)
    BY <1>1, <2>2, ExhaustedAccumulates
  <2> QED BY <2>1, <2>2
<1>3. answer' # None => Answered(calc', answer')
  BY <1>1, NextAccumulates
<1>4. Accumulated(calc)'
  BY <1>2 DEF Accumulated, CalculatorType, StepsOfMap, DiffCount
<1>5. answer' # None => Answered(calc, answer)'
  BY <1>3 DEF Answered, AttributesType, DiffCount, Shared, RegularAttributes
<1> QED BY <1>4, <1>5 DEF IInv

(* A fresh calculator has accumulated the objects of zero steps.           *)
LEMMA InitIInv == Init => IInv
<1> SUFFICES ASSUME Init PROVE IInv
  OBVIOUS
<1>1. nObjects \in Nat /\ take \in Nat
  BY MaxObjectsAssumption, PassedObjectsAssumption DEF Init
<1>2. Accumulated(calc)
  <2>1. calc = Fresh(nObjects)
    BY DEF Init
  <2>2. calc \in CalculatorType
    BY <1>1, <2>1, Sizes DEF Fresh, CalculatorType
  <2>3. /\ calc.idx = 0 /\ calc.scored = <<>>
        /\ calc.counted = [i \in 1 .. nObjects |-> IF i = 1 THEN 1 ELSE 0]
        /\ \A s \in NextSkills : calc.processed[s] = <<>>
    BY <2>1 DEF Fresh, NextSkills
  <2> QED BY <2>2, <2>3 DEF Accumulated, Interval
<1> QED BY <1>2 DEF Init, IInv

(* next() starts from the calculator, nth(n) from where it has skipped to. *)
CallStartsAt(c) ==
  /\ Accumulated(c)
  /\ c.idx >= calc.idx
  /\ calc.idx < StepsOfMap => c.idx < StepsOfMap
  /\ calc.idx = StepsOfMap => c = calc
  /\ calc' = NextOn(c)
  /\ answer' = IF HasNext(c) THEN Attributes(calc') ELSE None
  /\ UNCHANGED <<nObjects, take>>

(* Every call of next() or nth() is one next() from such a start.        *)
LEMMA CallIsNext ==
  ASSUME IInv, CallNext \/ \E n \in Nat : CallNth(n)
  PROVE  \E c : CallStartsAt(c)
<1>1. nObjects \in Nat /\ take \in Nat /\ Accumulated(calc)
  BY MaxObjectsAssumption, PassedObjectsAssumption DEF IInv
<1>2. CASE CallNext
  <2>1. calc.idx >= calc.idx
    BY <1>1, Sizes DEF Accumulated, CalculatorType
  <2>2. CallStartsAt(calc)
    BY <1>1, <1>2, <2>1 DEF CallNext, CallStartsAt
  <2> QED BY <2>2
<1>3. ASSUME NEW n \in Nat, CallNth(n) PROVE CallStartsAt(SkipOn(calc, n))
  <2>1. /\ Accumulated(SkipOn(calc, n))
        /\ SkipOn(calc, n).idx >= calc.idx
        /\ calc.idx < StepsOfMap => SkipOn(calc, n).idx < StepsOfMap
    BY <1>1, SkipAccumulates
  <2>2. calc.idx = StepsOfMap => SkipOn(calc, n) = calc
    BY <1>1, SkipNothing
  <2> QED BY <1>3, <2>1, <2>2 DEF CallNth, NthOn, CallStartsAt
<1> QED BY <1>2, <1>3

(* Every call keeps the inductive invariant.                               *)
LEMMA CallKeepsIInv ==
  ASSUME IInv, CallNext \/ \E n \in Nat : CallNth(n)
  PROVE  IInv'
BY CallIsNext, CallAccumulates DEF CallStartsAt

(* So does a step that leaves the calculator alone.                        *)
LEMMA StutterKeepsIInv ==
  ASSUME IInv, UNCHANGED vars
  PROVE  IInv'
BY DEF vars, IInv, Accumulated, Answered, CalculatorType, AttributesType, StepsOfMap,
       DiffCount, Shared, RegularAttributes

(* The inductive invariant is kept by every step.                        *)
LEMMA NextIInv == IInv /\ [Next]_vars => IInv'
BY CallKeepsIInv, StutterKeepsIInv, SkipsAssumption DEF Next

(* The inductive invariant holds throughout.                               *)
THEOREM Invariance == Spec => []IInv
BY InitIInv, NextIInv, PTL DEF Spec

(* Type correctness: idx never leaves the map, and no counter, skill or    *)
(* score simulation is handed an object outside it (gradual.rs indexes     *)
(* osu_objects and diff_objects by idx).                                   *)
THEOREM TypeCorrectness == Spec => []TypeOK
<1>1. IInv => TypeOK
  BY DEF IInv, TypeOK, Accumulated, Answered
<1> QED BY <1>1, Invariance, PTL

(* For every map, every passed_objects and every mix of next() and nth(n): *)
(* a returned value has the counters, the legacy scores and the skills     *)
(* (reading aside) of the one-shot calculation of the objects passed.      *)
THEOREM GradualAgreesWithRegular == Spec => []AgreesWithRegular
<1>1. IInv => AgreesWithRegular
  BY DEF IInv, AgreesWithRegular, Answered
<1> QED BY <1>1, Invariance, PTL

(* Attributes are never mistaken for None.                                 *)
LEMMA AttributesAreSome ==
  ASSUME nObjects \in 0 .. MaxObjects, NEW a \in AttributesType
  PROVE  a # None
<1>1. DiffCount \in 0 .. MaxObjects
  BY MaxObjectsAssumption DEF DiffCount, SaturatingSub
<1> QED BY <1>1, NoneAssumption DEF AttributesType

(* What a call answers and where it leads: to a later step with the        *)
(* attributes of that step, or nowhere with None.                          *)
LEMMA CallAdvances ==
  ASSUME IInv, NEW c, Accumulated(c), c.idx >= calc.idx,
         calc.idx < StepsOfMap => c.idx < StepsOfMap,
         calc' = NextOn(c),
         answer' = IF HasNext(c) THEN Attributes(calc') ELSE None
  PROVE  \/ /\ calc.idx < StepsOfMap
            /\ calc'.idx \in calc.idx + 1 .. StepsOfMap
            /\ answer' # None
            /\ Shared(answer') = Shared(RegularAttributes(calc'.idx))
         \/ /\ calc.idx = StepsOfMap
            /\ calc'.idx = calc.idx
            /\ answer' = None
<1>1. /\ nObjects \in Nat /\ nObjects <= MaxScored /\ take \in Nat
      /\ nObjects \in 0 .. MaxObjects
  BY MaxObjectsAssumption, MaxScoredAssumption, PassedObjectsAssumption DEF IInv
<1>2. /\ StepsOfMap \in Nat /\ c.idx \in 0 .. StepsOfMap /\ calc.idx \in 0 .. StepsOfMap
  BY <1>1, Sizes DEF IInv, Accumulated, CalculatorType
<1>3. CASE HasNext(c)
  <2>1. /\ Accumulated(calc') /\ calc'.idx = c.idx + 1
        /\ Answered(calc', answer')
    BY <1>1, <1>3, NextAccumulates
  <2>2. c.idx < StepsOfMap
    BY <1>1, <1>2, <1>3, HasNextIsSteps
  <2>3. answer' # None
    BY <2>1, <1>1, AttributesAreSome DEF Answered
  <2> QED BY <2>1, <2>2, <2>3, <1>2 DEF Answered
<1>4. CASE ~HasNext(c)
  <2>1. calc'.idx = c.idx
    BY <1>1, <1>4, ExhaustedAccumulates
  <2>2. ~(c.idx < StepsOfMap)
    BY <1>1, <1>2, <1>4, HasNextIsSteps
  <2> QED BY <2>1, <2>2, <1>2, <1>4
<1> QED BY <1>3, <1>4

(* A call is a step of the iterator.                                       *)
LEMMA CallImplements ==
  ASSUME IInv, CallNext \/ \E n \in Nat : CallNth(n)
  PROVE  Iterator!Next
<1> DEFINE regular == [k \in 0 .. StepsOfMap |-> Shared(RegularAttributes(k))]
<1>1. PICK c : CallStartsAt(c)
  BY CallIsNext
<1>2. StepsOfMap' = StepsOfMap /\ regular' = regular
  BY <1>1 DEF CallStartsAt, StepsOfMap, DiffCount, Shared, RegularAttributes
<1>3. StepsOfMap \in Nat /\ calc.idx \in 0 .. StepsOfMap
  BY MaxObjectsAssumption, PassedObjectsAssumption, Sizes
  DEF IInv, Accumulated, CalculatorType
<1>4. CASE /\ calc.idx < StepsOfMap
           /\ calc'.idx \in calc.idx + 1 .. StepsOfMap
           /\ answer' # None
           /\ Shared(answer') = Shared(RegularAttributes(calc'.idx))
  <2>1. Shared(answer') = regular[calc'.idx]
    BY <1>3, <1>4
  <2>2. Iterator!Advance(calc'.idx)
    BY <1>2, <1>4, <2>1 DEF Iterator!Advance
  <2> QED BY <1>4, <2>2 DEF Iterator!Next
<1>5. CASE calc.idx = StepsOfMap /\ calc'.idx = calc.idx /\ answer' = None
  BY <1>2, <1>5 DEF Iterator!Next, Iterator!Exhausted
<1> QED BY <1>1, <1>4, <1>5, CallAdvances DEF CallStartsAt

(* A step that leaves the calculator alone leaves the iterator alone.      *)
LEMMA StutterImplements ==
  ASSUME UNCHANGED vars
  PROVE  UNCHANGED Iterator!gradualVars
BY DEF vars, Iterator!gradualVars, StepsOfMap, DiffCount, Shared, RegularAttributes

(* A fresh calculator is an iterator before its first step.                *)
LEMMA InitImplements == Init => Iterator!Init
<1> SUFFICES ASSUME Init PROVE Iterator!Init
  OBVIOUS
<1>1. StepsOfMap \in Nat
  BY MaxObjectsAssumption, PassedObjectsAssumption, Sizes DEF Init
<1> QED BY <1>1 DEF Init, Fresh, Iterator!Init

(* The calculator implements the iterator of GradualIterator: whatever its *)
(* callers mix, every answer is the next step or a later one, with the     *)
(* attributes of exactly that step, and None is given only once the last   *)
(* step was taken.                                                         *)
THEOREM Refinement == Spec => ImplementsIterator
<1>1. Init => Iterator!Init
  BY InitImplements
<1>2. IInv /\ [Next]_vars => [Iterator!Next]_(Iterator!gradualVars)
  BY CallImplements, StutterImplements, SkipsAssumption DEF Next
<1> QED BY <1>1, <1>2, Invariance, PTL DEF Spec, ImplementsIterator, Iterator!Spec

(* A call that answers None leaves the calculator alone, unless            *)
(* passed_objects(0) cut the map off.                                      *)
LEMMA NoneChangesNothing ==
  ASSUME IInv, CallNext \/ \E n \in Nat : CallNth(n), answer' = None, take > 0
  PROVE  calc' = calc
<1>1. PICK c : CallStartsAt(c)
  BY CallIsNext
<1>2. calc.idx = StepsOfMap
  BY <1>1, CallAdvances DEF CallStartsAt
<1>3. nObjects \in Nat /\ take \in Nat /\ nObjects <= MaxScored /\ nObjects \in 0 .. MaxObjects
  BY MaxObjectsAssumption, MaxScoredAssumption, PassedObjectsAssumption DEF IInv
<1>4. Accumulated(c) /\ c = calc /\ calc' = NextOn(c)
  BY <1>1, <1>2 DEF CallStartsAt
<1>5. ~HasNext(c)
  <2> SUFFICES ASSUME HasNext(c) PROVE FALSE
    OBVIOUS
  <2>1. Answered(calc', answer')
    BY <1>1, <1>3, <1>4, NextAccumulates DEF CallStartsAt
  <2> QED BY <1>3, <2>1, AttributesAreSome, CallAdvances, <1>1 DEF Answered, CallStartsAt
<1> QED BY <1>3, <1>4, <1>5, ExhaustedAccumulates

(* A call answered None changes nothing of the calculator (gradual.rs:188), *)
(* unless passed_objects is 0.                                           *)
THEOREM ExhaustedIsFinal == Spec => ExhaustedCallsChangeNothing
<1>1. IInv /\ [Next]_vars => [(answer' = None /\ take > 0) => calc' = calc]_vars
  BY NoneChangesNothing, SkipsAssumption DEF Next
<1> QED BY <1>1, Invariance, PTL DEF Spec, ExhaustedCallsChangeNothing

(***************************************************************************)
(* nth(n) and len() against repeated calls of next()                       *)
(***************************************************************************)

(* The calculators that a map's calls of next() can lead to.               *)
Calcs == {c \in CalculatorType : Accumulated(c)}

(* On such calculators next() advances by one until the map is exhausted. *)
LEMMA CalcsStep ==
  ASSUME IInv, NEW c \in Calcs
  PROVE  /\ NextOn(c) \in Calcs
         /\ NextOn(c).idx = Least(c.idx + 1, StepsOfMap)
         /\ HasNext(c) <=> c.idx < StepsOfMap
         /\ c.idx \in 0 .. StepsOfMap /\ StepsOfMap \in Nat
<1>1. nObjects \in Nat /\ nObjects <= MaxScored /\ take \in Nat
  BY MaxObjectsAssumption, MaxScoredAssumption, PassedObjectsAssumption DEF IInv
<1>2. Accumulated(c) /\ c.idx \in 0 .. StepsOfMap /\ StepsOfMap \in Nat
  BY <1>1, Sizes DEF Calcs, CalculatorType
<1>3. HasNext(c) <=> c.idx < StepsOfMap
  BY <1>1, <1>2, HasNextIsSteps
<1>4. CASE HasNext(c)
  <2>1. Accumulated(NextOn(c)) /\ NextOn(c).idx = c.idx + 1
    BY <1>1, <1>2, <1>4, NextAccumulates
  <2>2. NextOn(c) \in Calcs
    BY <2>1 DEF Calcs, Accumulated
  <2>3. Least(c.idx + 1, StepsOfMap) = c.idx + 1
    BY <1>2, <1>3, <1>4 DEF Least
  <2> QED BY <1>2, <1>3, <2>1, <2>2, <2>3
<1>5. CASE ~HasNext(c)
  <2>1. Accumulated(NextOn(c)) /\ NextOn(c).idx = c.idx
    BY <1>1, <1>2, <1>5, ExhaustedAccumulates
  <2>2. NextOn(c) \in Calcs
    BY <2>1 DEF Calcs, Accumulated
  <2>3. Least(c.idx + 1, StepsOfMap) = c.idx
    BY <1>2, <1>3, <1>5 DEF Least
  <2> QED BY <1>2, <1>3, <2>1, <2>2, <2>3
<1> QED BY <1>4, <1>5

(* Each further call of next() is one more step.                           *)
LEMMA AfterNextsUnfolds ==
  ASSUME IInv, NEW c \in Calcs
  PROVE  /\ AfterNexts(c, 0) = c
         /\ \A n \in Nat : /\ AfterNexts(c, n) \in Calcs
                           /\ AfterNexts(c, n + 1) = NextOn(AfterNexts(c, n))
<1> DEFINE Walks(f, n) == /\ f \in [0 .. n -> Calcs] /\ f[0] = c
                          /\ \A i \in 1 .. n : f[i] = NextOn(f[i - 1])
<1>1. ASSUME NEW n \in Nat
      PROVE  \E f : Walks(f, n) /\ AfterNexts(c, n) = f[n]
  <2> DEFINE after[i \in 0 .. n] == IF i = 0 THEN c ELSE NextOn(after[i - 1])
             step == [i \in 1 .. n |-> [p \in Calcs |-> NextOn(p)]]
  <2>1. AfterNexts(c, n) = after[n]
    BY DEF AfterNexts
  <2>2. step \in [1 .. n -> [Calcs -> Calcs]]
    BY CalcsStep
  <2>3. PICK f : Iterates(f, n, Calcs, c, step)
    <3> HIDE DEF step
    <3> QED BY <2>2, RecursionExists
  <2>4. Walks(f, n)
    <3>1. /\ f \in [0 .. n -> Calcs] /\ f[0] = c
          /\ \A i \in 1 .. n : f[i] = step[i][f[i - 1]]
      BY <2>3 DEF Iterates
    <3>2. ASSUME NEW i \in 1 .. n PROVE f[i] = NextOn(f[i - 1])
      <4>1. f[i - 1] \in Calcs
        BY <3>1
      <4> QED BY <3>1, <4>1
    <3> QED BY <3>1, <3>2
  <2>5. f = [i \in 0 .. n |-> IF i = 0 THEN c ELSE NextOn(f[i - 1])]
    BY <2>4
  <2>6. after = [i \in 0 .. n |-> IF i = 0 THEN c ELSE NextOn(after[i - 1])]
    BY <2>5 DEF after
  <2> HIDE DEF after
  <2>7. \A i \in 0 .. n : after[i] = f[i]
    <3> DEFINE S == {i \in 0 .. n : after[i] = f[i]}
    <3>1. 0 \in S
      BY <2>4, <2>6
    <3>2. ASSUME NEW i \in 1 .. n, i - 1 \in S PROVE i \in S
      BY <2>5, <2>6, <3>2
    <3> HIDE DEF S
    <3>3. \A i \in 0 .. n : i \in S
      BY <3>1, <3>2, IntervalIsReached
    <3> QED BY <3>3 DEF S
  <2> QED BY <2>1, <2>4, <2>7
<1>2. ASSUME NEW n \in Nat, NEW f, NEW g, Walks(f, n), Walks(g, n + 1) PROVE f[n] = g[n]
  <2> DEFINE S == {i \in 0 .. n : f[i] = g[i]}
  <2>1. 0 \in S
    BY <1>2
  <2>2. ASSUME NEW i \in 1 .. n, i - 1 \in S PROVE i \in S
    BY <1>2, <2>2
  <2> HIDE DEF S, Walks
  <2>3. \A i \in 0 .. n : i \in S
    BY <2>1, <2>2, IntervalIsReached
  <2> QED BY <2>3 DEF S
<1>3. AfterNexts(c, 0) = c
  <2>1. PICK f : Walks(f, 0) /\ AfterNexts(c, 0) = f[0]
    <3> HIDE DEF Walks
    <3> QED BY <1>1
  <2> QED BY <2>1
<1>4. ASSUME NEW n \in Nat
      PROVE  AfterNexts(c, n) \in Calcs /\ AfterNexts(c, n + 1) = NextOn(AfterNexts(c, n))
  <2> HIDE DEF Walks
  <2>1. PICK f : Walks(f, n) /\ AfterNexts(c, n) = f[n]
    BY <1>1
  <2>2. n + 1 \in Nat /\ n + 1 \in 1 .. n + 1 /\ (n + 1) - 1 = n
    OBVIOUS
  <2>3. PICK g : Walks(g, n + 1) /\ AfterNexts(c, n + 1) = g[n + 1]
    BY <1>1, <2>2
  <2>4. f[n] = g[n]
    BY <1>2, <2>1, <2>3
  <2>5. f[n] \in Calcs /\ g[n + 1] = NextOn(g[n])
    BY <2>1, <2>2, <2>3 DEF Walks
  <2> QED BY <2>1, <2>3, <2>4, <2>5
<1> QED BY <1>3, <1>4

(* Each passes one more object while one is left.                          *)
LEMMA AfterNextsPasses ==
  ASSUME IInv, NEW c \in Calcs, NEW n \in Nat
  PROVE  AfterNexts(c, n) \in Calcs /\ AfterNexts(c, n).idx = Least(c.idx + n, StepsOfMap)
<1> DEFINE S == {i \in 0 .. n : AfterNexts(c, i).idx = Least(c.idx + i, StepsOfMap)}
<1>1. c.idx \in 0 .. StepsOfMap /\ StepsOfMap \in Nat
  BY CalcsStep
<1>2. 0 \in S
  <2>1. Least(c.idx + 0, StepsOfMap) = c.idx
    BY <1>1 DEF Least
  <2> QED BY <2>1, AfterNextsUnfolds
<1>3. ASSUME NEW i \in 1 .. n, i - 1 \in S PROVE i \in S
  <2> DEFINE p == AfterNexts(c, i - 1)
  <2>1. i - 1 \in Nat /\ (i - 1) + 1 = i
    OBVIOUS
  <2>2. p \in Calcs /\ AfterNexts(c, i) = NextOn(p)
    BY <2>1, AfterNextsUnfolds
  <2>3. p.idx = Least(c.idx + (i - 1), StepsOfMap)
    BY <1>3
  <2> HIDE DEF p
  <2>4. NextOn(p).idx = Least(p.idx + 1, StepsOfMap)
    BY <2>2, CalcsStep
  <2>5. Least(p.idx + 1, StepsOfMap) = Least(c.idx + i, StepsOfMap)
    BY <1>1, <2>3 DEF Least
  <2> QED BY <2>2, <2>4, <2>5
<1> HIDE DEF S
<1>4. \A i \in 0 .. n : i \in S
  BY <1>2, <1>3, IntervalIsReached
<1>5. n \in S
  BY <1>4
<1> QED BY <1>5, AfterNextsUnfolds DEF S

(* nth(n) ends where n + 1 calls of next() end, and len() tells how many   *)
(* more calls of next() return Some.                                       *)
LEMMA NthsAndLen ==
  ASSUME IInv
  PROVE  NthIsRepeatedNext /\ LenTellsAnswers
<1>1. /\ nObjects \in Nat /\ nObjects <= MaxScored /\ take \in Nat /\ Accumulated(calc)
      /\ calc \in Calcs
  BY MaxObjectsAssumption, MaxScoredAssumption, PassedObjectsAssumption
  DEF IInv, Calcs, Accumulated
<1>2. /\ calc.idx \in 0 .. StepsOfMap /\ StepsOfMap \in Nat
      /\ DiffCount \in Nat
      /\ nObjects > 0 => StepsOfMap = DiffCount + 1
      /\ nObjects = 0 => StepsOfMap = 0 /\ DiffCount = 0
  BY <1>1, CalcsStep, Sizes
<1>3. AnswersLeft = StepsOfMap - calc.idx
  <2>1. Remaining(calc) = DiffCount + 1 - calc.idx
    BY DEF Remaining
  <2> QED BY <1>1, <1>2, <2>1 DEF AnswersLeft
<1>4. ASSUME NEW n \in Nat
      PROVE  LET one  == NthOn(calc, n)
                 many == AfterNexts(calc, Wanted(calc, n) + 1)
             IN  one.idx = many.idx /\ Shared(Attributes(one)) = Shared(Attributes(many))
  <2> DEFINE w == Wanted(calc, n)
             p == AfterNexts(calc, w)
             q == SkipOn(calc, n)
  <2>1. /\ w \in Nat /\ SkipEnd(calc, n) = calc.idx + w
        /\ calc.idx < StepsOfMap => calc.idx + w < StepsOfMap
        /\ calc.idx = StepsOfMap => w = 0
    <3>1. /\ w \in Nat /\ SkipEnd(calc, n) = calc.idx + w
          /\ SkipEnd(calc, n) \in calc.idx .. StepsOfMap
          /\ calc.idx < StepsOfMap => SkipEnd(calc, n) < StepsOfMap
      BY <1>1, <1>2, SkipNumbers
    <3> DEFINE k == calc.idx
    <3> HIDE DEF k, w
    <3> QED BY <1>2, <3>1 DEF k
  <2> HIDE DEF w
  <2>2. p \in Calcs /\ p.idx = Least(calc.idx + w, StepsOfMap)
    BY <1>1, <2>1, AfterNextsPasses
  <2>3. AfterNexts(calc, w + 1) = NextOn(p)
    BY <1>1, <2>1, AfterNextsUnfolds
  <2>4. NthOn(calc, n) = NextOn(q)
    BY DEF NthOn
  <2>5. CASE calc.idx = StepsOfMap
    <3>1. q = calc
      BY <1>1, <2>5, SkipNothing
    <3>2. p = calc
      BY <1>1, <2>1, <2>5, AfterNextsUnfolds
    <3> QED BY <2>3, <2>4, <3>1, <3>2 DEF w
  <2>6. CASE calc.idx < StepsOfMap
    <3>1. Accumulated(q) /\ q.idx < StepsOfMap /\ q.idx \in 0 .. StepsOfMap
      <4>1. Accumulated(q) /\ q.idx < StepsOfMap
        BY <1>1, <2>6, SkipAccumulates
      <4> QED BY <4>1 DEF Accumulated, CalculatorType
    <3>2. q.idx = calc.idx + w
      BY <2>1 DEF SkipOn
    <3>3. p.idx = calc.idx + w /\ Accumulated(p) /\ p.idx \in 0 .. StepsOfMap
      BY <1>2, <2>1, <2>2, <2>6 DEF Least, Calcs, CalculatorType
    <3> HIDE DEF p, q
    <3>4. HasNext(p) /\ HasNext(q)
      BY <1>1, <3>1, <3>2, <3>3, HasNextIsSteps
    <3>5. /\ NextOn(p).idx = p.idx + 1 /\ NextOn(q).idx = q.idx + 1
          /\ Shared(Attributes(NextOn(p))) = Shared(RegularAttributes(NextOn(p).idx))
          /\ Shared(Attributes(NextOn(q))) = Shared(RegularAttributes(NextOn(q).idx))
      BY <1>1, <3>1, <3>3, <3>4, NextAccumulates DEF Answered
    <3>6. NextOn(p).idx = NextOn(q).idx
      BY <3>2, <3>3, <3>5
    <3> QED BY <2>3, <2>4, <3>5, <3>6 DEF w
  <2> QED BY <1>2, <2>5, <2>6
<1>5. NthIsRepeatedNext
  BY <1>4, SkipsAssumption DEF NthIsRepeatedNext, Wanted
<1>6. ASSUME NEW k \in Nat
      PROVE  HasNext(AfterNexts(calc, k)) <=> k < AnswersLeft
  <2> DEFINE p == AfterNexts(calc, k)
  <2>1. p \in Calcs /\ p.idx = Least(calc.idx + k, StepsOfMap)
    BY <1>1, AfterNextsPasses
  <2> HIDE DEF p
  <2>2. HasNext(p) <=> p.idx < StepsOfMap
    BY <2>1, CalcsStep
  <2>3. p.idx < StepsOfMap <=> k < AnswersLeft
    BY <1>2, <1>3, <2>1 DEF Least
  <2> QED BY <2>2, <2>3 DEF p
<1>7. AnswersLeft >= 0
  BY <1>2, <1>3
<1> QED BY <1>5, <1>6, <1>7, MaxObjectsAssumption DEF LenTellsAnswers


(***************************************************************************)
(* osu!mania                                                               *)
(***************************************************************************)

ManiaInputs == maniaMap \in Seq([circle : BOOLEAN, ticks : Nat]) /\ take \in Nat

(* The combo and the hold notes of the first k objects of the map.         *)
ComboAt(i) == 1 + (IF maniaMap[i].circle THEN 0 ELSE maniaMap[i].ticks)
HoldAt(i) == IF maniaMap[i].circle THEN 0 ELSE 1

ManiaCombo[k \in 0 .. Len(maniaMap)] ==
  IF k = 0 THEN 0 ELSE ManiaCombo[k - 1] + [i \in 1 .. Len(maniaMap) |-> ComboAt(i)][k]

ManiaHolds[k \in 0 .. Len(maniaMap)] ==
  IF k = 0 THEN 0 ELSE ManiaHolds[k - 1] + [i \in 1 .. Len(maniaMap) |-> HoldAt(i)][k]

(* The objects counted once k were passed: the first one is from the start.*)
ManiaCounted(k) == Least(Greatest(k, 1), Len(maniaMap))

ManiaAt(k) ==
  [ idx          |-> k,
    processed    |-> Interval(1, k - 1),
    curr_combo   |-> ManiaCombo[ManiaCounted(k)],
    n_hold_notes |-> ManiaHolds[ManiaCounted(k)] ]

ManiaIInv ==
  /\ ManiaInputs
  /\ maniaCalc.idx \in 0 .. Mania!StepsOfMap
  /\ maniaCalc = ManiaAt(maniaCalc.idx)
  /\ maniaAnswer # None => maniaAnswer = Mania!RegularAttributes(maniaCalc.idx)

(***************************************************************************)
(* The definitions of the model                                            *)
(***************************************************************************)

(* Objects are circles and holds of some ticks.                            *)
LEMMA ManiaObjects ==
  ASSUME ManiaInputs, NEW i \in 1 .. Len(maniaMap)
  PROVE  maniaMap[i].circle \in BOOLEAN /\ maniaMap[i].ticks \in Nat
<1> DEFINE S == [circle : BOOLEAN, ticks : Nat]
<1>1. maniaMap \in Seq(S)
  BY DEF ManiaInputs
<1> HIDE DEF S
<1>2. maniaMap[i] \in S
  BY <1>1, ElementOfSeq
<1> QED BY <1>2 DEF S

(* The totals satisfy their recursions.                                    *)
LEMMA ManiaTotals ==
  ASSUME ManiaInputs
  PROVE  /\ Len(maniaMap) \in Nat
         /\ ManiaCombo \in [0 .. Len(maniaMap) -> Nat] /\ ManiaCombo[0] = 0
         /\ ManiaHolds \in [0 .. Len(maniaMap) -> Nat] /\ ManiaHolds[0] = 0
         /\ \A k \in 1 .. Len(maniaMap) :
              /\ ManiaCombo[k] = ManiaCombo[k - 1] + ComboAt(k)
              /\ ManiaHolds[k] = ManiaHolds[k - 1] + HoldAt(k)
              /\ ComboAt(k) \in Nat /\ HoldAt(k) \in Nat
<1> DEFINE n == Len(maniaMap)
           combos == [i \in 1 .. n |-> ComboAt(i)]
           holds == [i \in 1 .. n |-> HoldAt(i)]
<1>1. n \in Nat
  BY DEF ManiaInputs
<1>2. ASSUME NEW k \in 1 .. n PROVE ComboAt(k) \in Nat /\ HoldAt(k) \in Nat
  BY ManiaObjects DEF ComboAt, HoldAt
<1>3. combos \in [1 .. n -> Nat] /\ holds \in [1 .. n -> Nat]
  BY <1>2
<1>4. IsTotal(ManiaCombo, n, combos)
  <2>1. \E f : IsTotal(f, n, combos)
    <3> HIDE DEF combos, n
    <3> QED BY <1>1, <1>3, TotalExists
  <2> QED BY <2>1 DEF ManiaCombo, IsTotal
<1>5. IsTotal(ManiaHolds, n, holds)
  <2>1. \E f : IsTotal(f, n, holds)
    <3> HIDE DEF holds, n
    <3> QED BY <1>1, <1>3, TotalExists
  <2> QED BY <2>1 DEF ManiaHolds, IsTotal
<1>6. /\ ManiaCombo \in [0 .. n -> Nat] /\ ManiaCombo[0] = 0
      /\ \A k \in 1 .. n : ManiaCombo[k] = ManiaCombo[k - 1] + combos[k]
  <2> HIDE DEF combos, n
  <2> QED BY <1>1, <1>3, <1>4, TotalIsNatural
<1>7. /\ ManiaHolds \in [0 .. n -> Nat] /\ ManiaHolds[0] = 0
      /\ \A k \in 1 .. n : ManiaHolds[k] = ManiaHolds[k - 1] + holds[k]
  <2> HIDE DEF holds, n
  <2> QED BY <1>1, <1>3, <1>5, TotalIsNatural
<1> QED BY <1>1, <1>2, <1>6, <1>7

(* The one-shot calculation has converted the first k objects.             *)
LEMMA ManiaRegular ==
  ASSUME ManiaInputs, NEW k \in 0 .. Len(maniaMap)
  PROVE  Mania!RegularAttributes(k) =
           [ max_combo    |-> ManiaCombo[k],
             n_objects    |-> k,
             n_hold_notes |-> ManiaHolds[k],
             processed    |-> Interval(1, SaturatingSub(k, 1)) ]
<1> DEFINE n == Mania!Least(Len(maniaMap), k)
           Add(t, i) == [ max_combo    |-> t.max_combo + 1 +
                                (IF maniaMap[i].circle THEN 0 ELSE maniaMap[i].ticks),
               n_hold_notes |-> t.n_hold_notes +
                                (IF maniaMap[i].circle THEN 0 ELSE 1) ]
           zero == [max_combo |-> 0, n_hold_notes |-> 0]
           Tally(i) == [max_combo |-> ManiaCombo[i], n_hold_notes |-> ManiaHolds[i]]
           converted[i \in 0 .. n] == IF i = 0 THEN zero ELSE Add(converted[i - 1], i)
           f == [i \in 0 .. n |-> Tally(i)]
<1>1. Mania!RegularAttributes(k) =
        [ max_combo    |-> converted[n].max_combo,
          n_objects    |-> n,
          n_hold_notes |-> converted[n].n_hold_notes,
          processed    |-> Mania!Interval(1, Mania!SaturatingSub(n, 1)) ]
  BY DEF Mania!RegularAttributes
<1>2. Tally(0) = zero /\ \A i \in 1 .. k : Tally(i) = Add(Tally(i - 1), i)
  <2>1. ASSUME NEW i \in 1 .. k PROVE Tally(i) = Add(Tally(i - 1), i)
    <3>1. i \in 1 .. Len(maniaMap) /\ i - 1 \in 0 .. Len(maniaMap)
      BY ManiaTotals
    <3>2. /\ ManiaCombo[i] = ManiaCombo[i - 1] + ComboAt(i) /\ ManiaCombo[i - 1] \in Nat
          /\ ManiaHolds[i] = ManiaHolds[i - 1] + HoldAt(i) /\ ManiaHolds[i - 1] \in Nat
          /\ ComboAt(i) \in Nat
      BY <3>1, ManiaTotals
    <3>3. (IF maniaMap[i].circle THEN 0 ELSE maniaMap[i].ticks) = ComboAt(i) - 1
      BY <3>1, ManiaObjects DEF ComboAt
    <3>4. (IF maniaMap[i].circle THEN 0 ELSE 1) = HoldAt(i)
      BY DEF HoldAt
    <3>5. Add(Tally(i - 1), i) = [max_combo    |-> ManiaCombo[i - 1] + 1 + (ComboAt(i) - 1),
                                  n_hold_notes |-> ManiaHolds[i - 1] + HoldAt(i)]
      BY <3>3, <3>4, Zenon
    <3>6. ManiaCombo[i - 1] + 1 + (ComboAt(i) - 1) = ManiaCombo[i]
      BY <3>2
    <3> QED BY <3>2, <3>5, <3>6, Zenon
  <2> QED BY <2>1, ManiaTotals
<1> HIDE DEF Add, Tally, zero
<1>3. n = k /\ k \in Nat
  BY ManiaTotals DEF Mania!Least
<1> HIDE DEF n
<1>4. f = [i \in 0 .. n |-> IF i = 0 THEN zero ELSE Add(f[i - 1], i)]
  BY <1>2, <1>3
<1> HIDE DEF f
<1>5. converted = [i \in 0 .. n |-> IF i = 0 THEN zero ELSE Add(converted[i - 1], i)]
  BY <1>4 DEF converted
<1> HIDE DEF converted
<1>6. converted[n] = Tally(n)
  <2> DEFINE S == {i \in 0 .. n : converted[i] = Tally(i)}
  <2>1. 0 \in S
    BY <1>2, <1>3, <1>5
  <2>2. ASSUME NEW i \in 1 .. n, i - 1 \in S PROVE i \in S
    BY <1>2, <1>3, <1>5, <2>2
  <2> HIDE DEF S
  <2>3. \A i \in 0 .. n : i \in S
    BY <1>3, <2>1, <2>2, IntervalIsReached
  <2> QED BY <1>3, <2>3 DEF S
<1>7. Mania!Interval(1, Mania!SaturatingSub(n, 1)) = Interval(1, SaturatingSub(n, 1))
  BY DEF Mania!Interval, Interval, Mania!SaturatingSub, SaturatingSub
<1> HIDE DEF n
<1> QED BY <1>1, <1>3, <1>6, <1>7 DEF Tally

(* The sizes that a map and its passed_objects give rise to.               *)
LEMMA ManiaSizes ==
  ASSUME ManiaInputs
  PROVE  /\ Mania!DiffCount \in Nat /\ Mania!StepsOfMap \in Nat
         /\ Mania!StepsOfMap <= Len(maniaMap)
         /\ maniaMap = <<>> => Mania!StepsOfMap = 0 /\ Mania!DiffCount = 0
         /\ maniaMap # <<>> => Mania!StepsOfMap = Mania!DiffCount + 1
<1>1. maniaMap \in Seq([circle : BOOLEAN, ticks : Nat]) /\ take \in Nat
  BY DEF ManiaInputs
<1>2. Len(maniaMap) \in Nat /\ (maniaMap = <<>> <=> Len(maniaMap) = 0)
  BY <1>1, EmptySeq
<1> QED
  BY <1>1, <1>2 DEF Mania!DiffCount, Mania!StepsOfMap, Mania!SaturatingSub, Mania!Least

(***************************************************************************)
(* What a call does to the calculator that has passed k objects            *)
(***************************************************************************)

(* Its counters are those of the one-shot calculation of k objects.        *)
LEMMA ManiaAttributesAt ==
  ASSUME ManiaInputs, NEW k \in 1 .. Mania!StepsOfMap
  PROVE  Mania!Attributes(ManiaAt(k)) = Mania!RegularAttributes(k)
<1>1. k \in 0 .. Len(maniaMap) /\ k >= 1
  BY ManiaSizes
<1>2. ManiaCounted(k) = k /\ SaturatingSub(k, 1) = k - 1
  BY <1>1, ManiaTotals DEF ManiaCounted, Least, Greatest, SaturatingSub
<1>3. Mania!RegularAttributes(k) =
        [ max_combo    |-> ManiaCombo[k],
          n_objects    |-> k,
          n_hold_notes |-> ManiaHolds[k],
          processed    |-> Interval(1, SaturatingSub(k, 1)) ]
  BY <1>1, ManiaRegular
<1> QED BY <1>2, <1>3 DEF ManiaAt, Mania!Attributes

(* The first object is stepped over ...                                    *)
LEMMA ManiaFirst ==
  ASSUME ManiaInputs
  PROVE  /\ [ManiaAt(0) EXCEPT !.idx = @ + 1] = ManiaAt(1)
         /\ [ManiaAt(0) EXCEPT !.idx = @ + 0] = ManiaAt(0)
<1>1. ManiaCounted(0) = ManiaCounted(1)
  BY DEF ManiaCounted, Greatest
<1>2. Interval(1, 0 - 1) = Interval(1, 1 - 1)
  BY DEF Interval
<1> QED BY <1>1, <1>2 DEF ManiaAt

(* ... every other one is processed and counted.                           *)
LEMMA ManiaProcessAt ==
  ASSUME ManiaInputs, NEW k \in 1 .. Mania!StepsOfMap - 1
  PROVE  [Mania!Process(ManiaAt(k), k) EXCEPT !.idx = @ + 1] = ManiaAt(k + 1)
<1>1. k \in Nat /\ k + 1 \in 1 .. Len(maniaMap) /\ (k + 1) - 1 = k
  BY ManiaSizes, ManiaTotals
<1>2. ManiaCounted(k) = k /\ ManiaCounted(k + 1) = k + 1
  BY <1>1, ManiaTotals DEF ManiaCounted, Least, Greatest
<1>3. Append(Interval(1, k - 1), k) = Interval(1, (k + 1) - 1)
  <2>1. k - 1 \in Nat /\ (k - 1) + 1 = k
    BY <1>1
  <2> QED BY <2>1, <1>1, IntervalGrows
<1>4. /\ ManiaCombo[k + 1] = ManiaCombo[k] + ComboAt(k + 1)
      /\ ManiaHolds[k + 1] = ManiaHolds[k] + HoldAt(k + 1)
      /\ ManiaCombo[k] \in Nat /\ ManiaHolds[k] \in Nat
  <2>1. k \in 0 .. Len(maniaMap)
    BY <1>1, ManiaTotals
  <2> QED BY <1>1, <2>1, ManiaTotals
<1>5. maniaMap[k + 1].ticks \in Nat
  BY <1>1, ManiaObjects
<1> DEFINE log == Append(Interval(1, k - 1), k)
           was == [ idx |-> k, processed |-> log,
                    curr_combo |-> ManiaCombo[k], n_hold_notes |-> ManiaHolds[k] ]
           counted == [ idx |-> k, processed |-> log,
                        curr_combo |-> ManiaCombo[k + 1], n_hold_notes |-> ManiaHolds[k + 1] ]
<1>6. [ManiaAt(k) EXCEPT !.processed = Append(@, k)] = was
  BY SMTT(30), <1>2 DEF ManiaAt
<1> HIDE DEF log
<1>7. Mania!IncrementCombo(was, maniaMap[k + 1]) = counted
  <2>1. CASE maniaMap[k + 1].circle
    <3>1. ManiaCombo[k + 1] = ManiaCombo[k] + 1 /\ ManiaHolds[k + 1] = ManiaHolds[k]
      BY <1>4, <2>1 DEF ComboAt, HoldAt
    <3> QED BY <2>1, <3>1 DEF Mania!IncrementCombo
  <2>2. CASE ~maniaMap[k + 1].circle
    <3>1. /\ ManiaCombo[k + 1] = ManiaCombo[k] + 1 + maniaMap[k + 1].ticks
          /\ ManiaHolds[k + 1] = ManiaHolds[k] + 1
      BY <1>4, <1>5, <2>2 DEF ComboAt, HoldAt
    <3> QED BY <2>2, <3>1 DEF Mania!IncrementCombo
  <2> QED BY <2>1, <2>2
<1>8. [counted EXCEPT !.idx = @ + 1] = ManiaAt(k + 1)
  <2>1. ManiaAt(k + 1) = [ idx |-> k + 1, processed |-> log, curr_combo |-> ManiaCombo[k + 1],
                           n_hold_notes |-> ManiaHolds[k + 1] ]
    BY <1>2, <1>3 DEF ManiaAt, log
  <2> QED BY <2>1
<1> HIDE DEF was, counted
<1> QED BY <1>6, <1>7, <1>8 DEF Mania!Process

(* next() passes one more object while one is left, and then nothing.      *)
LEMMA ManiaNextAt ==
  ASSUME ManiaInputs, NEW k \in 0 .. Mania!StepsOfMap
  PROVE  /\ Mania!HasNext(ManiaAt(k)) <=> k < Mania!StepsOfMap
         /\ Mania!NextOn(ManiaAt(k)) = ManiaAt(Least(k + 1, Mania!StepsOfMap))
<1>1. Mania!HasNext(ManiaAt(k)) <=> k < Mania!StepsOfMap
  BY ManiaSizes DEF Mania!HasNext, ManiaAt
<1>2. ManiaAt(k).idx = k
  BY DEF ManiaAt
<1>3. CASE k = Mania!StepsOfMap
  <2>1. Least(k + 1, Mania!StepsOfMap) = k
    BY <1>3, ManiaSizes DEF Least
  <2> QED BY <1>1, <1>3, <2>1, ManiaSizes DEF Mania!NextOn
<1>4. CASE k < Mania!StepsOfMap /\ k = 0
  <2>1. Least(k + 1, Mania!StepsOfMap) = 1
    BY <1>4, ManiaSizes DEF Least
  <2> QED BY <1>1, <1>2, <1>4, <2>1, ManiaFirst DEF Mania!NextOn
<1>5. CASE k < Mania!StepsOfMap /\ k # 0
  <2>1. Least(k + 1, Mania!StepsOfMap) = k + 1 /\ k \in 1 .. Mania!StepsOfMap - 1
    <3>1. Mania!StepsOfMap \in Nat
      BY ManiaSizes
    <3> QED BY <1>5, <3>1 DEF Least
  <2> QED BY <1>1, <1>2, <1>5, <2>1, ManiaProcessAt DEF Mania!NextOn
<1> QED BY <1>1, <1>3, <1>4, <1>5, ManiaSizes

(* Where nth(n) skips to: never onto the last step.                        *)
ManiaSkipTo(k, n) ==
  IF Mania!DiffCount + 1 - k >= 1 THEN k + Least(n, Mania!DiffCount - k) ELSE k

(* Skipping passes the objects one by one.                                 *)
LEMMA ManiaSkipAt ==
  ASSUME ManiaInputs, NEW k \in 0 .. Mania!StepsOfMap, NEW n \in Nat
  PROVE  /\ Mania!SkipOn(ManiaAt(k), n) = ManiaAt(ManiaSkipTo(k, n))
         /\ ManiaSkipTo(k, n) \in k .. Mania!StepsOfMap
         /\ k < Mania!StepsOfMap => ManiaSkipTo(k, n) < Mania!StepsOfMap
<1> DEFINE c     == ManiaAt(k)
           want  == Mania!Wanted(c, n)
           first == IF c.idx = 0 /\ want > 0 THEN 1 ELSE 0
           loops == Mania!Least(want - first, Mania!SaturatingSub(Mania!DiffCount, Mania!SkipFrom(c)))
           start == [c EXCEPT !.idx = @ + first]
           Step(p, i) == [Mania!Process(p, Mania!SkipFrom(c) + i) EXCEPT !.idx = @ + 1]
           skip[i \in 0 .. loops] == IF i = 0 THEN start ELSE Step(skip[i - 1], i)
           f == [i \in 0 .. loops |-> ManiaAt(k + first + i)]
<1>1. Mania!SkipOn(c, n) = skip[loops]
  BY DEF Mania!SkipOn
<1>2. c.idx = k
  BY DEF ManiaAt
<1> HIDE DEF c
<1>3. /\ want \in Nat /\ k + want = ManiaSkipTo(k, n)
      /\ k + want <= Mania!StepsOfMap
      /\ want > 0 => k + want <= Mania!DiffCount /\ Mania!StepsOfMap = Mania!DiffCount + 1
      /\ k < Mania!StepsOfMap => k + want < Mania!StepsOfMap
  <2>1. want = IF Mania!DiffCount + 1 - k >= 1 THEN Least(n, Mania!DiffCount - k) ELSE 0
    BY <1>2, ManiaSizes
    DEF Mania!Wanted, Mania!Remaining, Mania!Least, Mania!SaturatingSub, Least
  <2> HIDE DEF want
  <2> QED BY SMTT(30), <2>1, ManiaSizes DEF ManiaSkipTo, Least
<1> HIDE DEF want
<1>4. Mania!SkipFrom(c) = IF k = 0 THEN 0 ELSE k - 1
  BY <1>2, ManiaSizes DEF Mania!SkipFrom, Mania!SaturatingSub
<1>5. loops \in Nat /\ loops = want - first
  BY <1>2, <1>3, <1>4, ManiaSizes DEF Mania!Least, Mania!SaturatingSub
<1>6. first \in {0, 1} /\ (k > 0 => first = 0) /\ (first = 0 /\ k = 0 => want = 0)
  BY <1>2, <1>3, ManiaSizes
<1> HIDE DEF first, loops
<1>7. start = ManiaAt(k + first)
  <2>1. CASE first = 1
    BY <2>1, <1>6, ManiaFirst, ManiaSizes DEF c
  <2>2. CASE first = 0
    BY <2>2, <1>6, ManiaSizes DEF c, ManiaAt
  <2> QED BY <2>1, <2>2, <1>6
<1>8. ASSUME NEW i \in 1 .. loops
      PROVE  Step(ManiaAt(k + first + i - 1), i) = ManiaAt(k + first + i)
  <2> DEFINE j == k + first + i - 1
  <2>1. j \in 1 .. Mania!StepsOfMap - 1 /\ Mania!SkipFrom(c) + i = j /\ j + 1 = k + first + i
    BY <1>3, <1>4, <1>5, <1>6, ManiaSizes
  <2> HIDE DEF j
  <2>2. [Mania!Process(ManiaAt(j), j) EXCEPT !.idx = @ + 1] = ManiaAt(j + 1)
    BY <2>1, ManiaProcessAt
  <2> QED BY <2>1, <2>2 DEF j
<1> HIDE DEF start, Step
<1>9. f = [i \in 0 .. loops |-> IF i = 0 THEN start ELSE Step(f[i - 1], i)]
  <2>1. f[0] = ManiaAt(k + first) /\ \A i \in 1 .. loops : f[i - 1] = ManiaAt(k + first + i - 1)
    BY <1>5, <1>6
  <2> QED BY <1>5, <1>7, <1>8, <2>1
<1> HIDE DEF f
<1>10. skip = [i \in 0 .. loops |-> IF i = 0 THEN start ELSE Step(skip[i - 1], i)]
  BY <1>9 DEF skip
<1> HIDE DEF skip
<1>11. skip[loops] = ManiaAt(k + first + loops)
  <2> DEFINE S == {i \in 0 .. loops : skip[i] = ManiaAt(k + first + i)}
  <2>1. 0 \in S
    BY <1>5, <1>6, <1>7, <1>10
  <2>2. ASSUME NEW i \in 1 .. loops, i - 1 \in S PROVE i \in S
    <3>1. k + first + (i - 1) = k + first + i - 1
      BY <1>6
    <3>2. skip[i - 1] = ManiaAt(k + first + i - 1)
      BY <2>2, <3>1
    <3> QED BY <1>5, <1>8, <1>10, <3>2
  <2> HIDE DEF S
  <2>3. \A i \in 0 .. loops : i \in S
    BY <1>5, <2>1, <2>2, IntervalIsReached
  <2> QED BY <1>5, <2>3 DEF S
<1>12. k + first + loops = ManiaSkipTo(k, n)
  BY <1>3, <1>5, <1>6
<1> QED BY <1>1, <1>3, <1>11, <1>12, ManiaSizes DEF c

(* Each of n more calls of next() passes one more object while one is left.*)
LEMMA ManiaAfterNexts ==
  ASSUME ManiaInputs, NEW k \in 0 .. Mania!StepsOfMap, NEW n \in Nat
  PROVE  Mania!AfterNexts(ManiaAt(k), n) = ManiaAt(Least(k + n, Mania!StepsOfMap))
<1> DEFINE after[i \in 0 .. n] == IF i = 0 THEN ManiaAt(k) ELSE Mania!NextOn(after[i - 1])
           At(i) == ManiaAt(Least(k + i, Mania!StepsOfMap))
           f == [i \in 0 .. n |-> At(i)]
<1>1. Mania!AfterNexts(ManiaAt(k), n) = after[n]
  BY DEF Mania!AfterNexts
<1>2. At(0) = ManiaAt(k)
  <2>1. Least(k + 0, Mania!StepsOfMap) = k
    BY ManiaSizes DEF Least
  <2> QED BY <2>1
<1>3. ASSUME NEW i \in 1 .. n PROVE At(i) = Mania!NextOn(At(i - 1))
  <2> DEFINE j == Least(k + (i - 1), Mania!StepsOfMap)
  <2>1. j \in 0 .. Mania!StepsOfMap
        /\ Least(j + 1, Mania!StepsOfMap) = Least(k + i, Mania!StepsOfMap)
    BY ManiaSizes DEF Least
  <2> HIDE DEF j
  <2>2. Mania!NextOn(ManiaAt(j)) = ManiaAt(Least(j + 1, Mania!StepsOfMap))
    BY <2>1, ManiaNextAt
  <2> QED BY <2>1, <2>2 DEF j
<1> HIDE DEF At
<1>4. f = [i \in 0 .. n |-> IF i = 0 THEN ManiaAt(k) ELSE Mania!NextOn(f[i - 1])]
  BY <1>2, <1>3
<1> HIDE DEF f
<1>5. after = [i \in 0 .. n |-> IF i = 0 THEN ManiaAt(k) ELSE Mania!NextOn(after[i - 1])]
  BY <1>4 DEF after
<1> HIDE DEF after
<1>6. after[n] = At(n)
  <2> DEFINE S == {i \in 0 .. n : after[i] = At(i)}
  <2>1. 0 \in S
    BY <1>2, <1>5
  <2>2. ASSUME NEW i \in 1 .. n, i - 1 \in S PROVE i \in S
    BY <1>3, <1>5, <2>2
  <2> HIDE DEF S
  <2>3. \A i \in 0 .. n : i \in S
    BY <2>1, <2>2, IntervalIsReached
  <2> QED BY <2>3 DEF S
<1> QED BY <1>1, <1>6 DEF At

(***************************************************************************)
(* The invariant                                                           *)
(***************************************************************************)

(* Neither the map nor what is derived from it ever changes.               *)
LEMMA ManiaMapStays ==
  ASSUME UNCHANGED <<maniaMap, take>>
  PROVE  /\ ManiaInputs' = ManiaInputs
         /\ Mania!StepsOfMap' = Mania!StepsOfMap
         /\ \A k : ManiaAt(k)' = ManiaAt(k)
         /\ \A k : Mania!RegularAttributes(k)' = Mania!RegularAttributes(k)
<1>1. ManiaCombo' = ManiaCombo /\ ManiaHolds' = ManiaHolds
  BY DEF ManiaCombo, ManiaHolds, ComboAt, HoldAt
<1>2. \A k : ManiaAt(k)' = ManiaAt(k)
  BY <1>1 DEF ManiaAt, ManiaCounted
<1>3. ASSUME NEW k PROVE Mania!RegularAttributes(k)' = Mania!RegularAttributes(k)
  BY DEF Mania!RegularAttributes
<1> QED
  BY <1>2, <1>3 DEF ManiaInputs, Mania!StepsOfMap, Mania!DiffCount

(* A fresh calculator has passed no object.                                *)
LEMMA ManiaInitIInv ==
  ASSUME ManiaInputs, Mania!Init
  PROVE  ManiaIInv
<1>1. maniaCalc = Mania!Fresh(maniaMap) /\ maniaAnswer = None
  BY DEF Mania!Init
<1>2. Mania!Fresh(maniaMap) = ManiaAt(0)
  <2>1. Interval(1, 0 - 1) = <<>>
    BY DEF Interval
  <2>2. CASE maniaMap = <<>>
    <3>1. ManiaCounted(0) = 0
      BY <2>2 DEF ManiaCounted, Least, Greatest
    <3> QED BY <2>1, <2>2, <3>1, ManiaTotals DEF Mania!Fresh, ManiaAt
  <2>3. CASE maniaMap # <<>>
    <3>1. Len(maniaMap) >= 1 /\ Len(maniaMap) \in Nat
      BY <2>3, ManiaSizes, ManiaTotals
    <3>2. ManiaCounted(0) = 1
      BY <3>1 DEF ManiaCounted, Least, Greatest
    <3>3. ManiaCombo[1] = ComboAt(1) /\ ManiaHolds[1] = HoldAt(1) /\ maniaMap[1].ticks \in Nat
      BY <3>1, ManiaTotals, ManiaObjects
    <3>4. CASE maniaMap[1].circle
      BY <2>1, <2>3, <3>2, <3>3, <3>4
      DEF Mania!Fresh, Mania!IncrementCombo, ManiaAt, ComboAt, HoldAt
    <3>5. CASE ~maniaMap[1].circle
      <4>1. ManiaCombo[1] = 0 + 1 + maniaMap[1].ticks /\ ManiaHolds[1] = 0 + 1
        BY <3>3, <3>5 DEF ComboAt, HoldAt
      <4> QED BY <2>1, <2>3, <3>2, <3>5, <4>1 DEF Mania!Fresh, Mania!IncrementCombo, ManiaAt
    <3> QED BY <3>4, <3>5
  <2> QED BY <2>2, <2>3
<1>3. ManiaAt(0).idx = 0 /\ 0 \in 0 .. Mania!StepsOfMap
  BY ManiaSizes DEF ManiaAt
<1> QED BY <1>1, <1>2, <1>3 DEF ManiaIInv

(* What a call does: it is a skip (by nothing, for next()) and next().     *)
LEMMA ManiaCall ==
  ASSUME ManiaIInv, Mania!CallNext \/ \E n \in Nat : Mania!CallNth(n)
  PROVE  \E k \in maniaCalc.idx .. Mania!StepsOfMap :
           /\ maniaCalc.idx < Mania!StepsOfMap => k < Mania!StepsOfMap
           /\ maniaCalc' = ManiaAt(Least(k + 1, Mania!StepsOfMap))
           /\ maniaAnswer' = IF k < Mania!StepsOfMap
                             THEN Mania!RegularAttributes(k + 1) ELSE None
           /\ UNCHANGED <<maniaMap, take>>
<1>1. /\ ManiaInputs /\ maniaCalc.idx \in 0 .. Mania!StepsOfMap
      /\ maniaCalc = ManiaAt(maniaCalc.idx) /\ Mania!StepsOfMap \in Nat
  BY ManiaSizes DEF ManiaIInv
<1>2. ASSUME NEW k \in maniaCalc.idx .. Mania!StepsOfMap,
             maniaCalc.idx < Mania!StepsOfMap => k < Mania!StepsOfMap,
             maniaCalc' = Mania!NextOn(ManiaAt(k)),
             maniaAnswer' = IF Mania!HasNext(ManiaAt(k)) THEN Mania!Attributes(maniaCalc')
                            ELSE None,
             UNCHANGED <<maniaMap, take>>
      PROVE  /\ maniaCalc' = ManiaAt(Least(k + 1, Mania!StepsOfMap))
             /\ maniaAnswer' = IF k < Mania!StepsOfMap
                               THEN Mania!RegularAttributes(k + 1) ELSE None
  <2>1. k \in 0 .. Mania!StepsOfMap
    BY <1>1
  <2>2. /\ maniaCalc' = ManiaAt(Least(k + 1, Mania!StepsOfMap))
        /\ Mania!HasNext(ManiaAt(k)) <=> k < Mania!StepsOfMap
    BY <1>1, <1>2, <2>1, ManiaNextAt
  <2>3. CASE k < Mania!StepsOfMap
    <3>1. Least(k + 1, Mania!StepsOfMap) = k + 1 /\ k + 1 \in 1 .. Mania!StepsOfMap
      BY <1>1, <2>1, <2>3 DEF Least
    <3>2. Mania!Attributes(ManiaAt(k + 1)) = Mania!RegularAttributes(k + 1)
      BY <1>1, <3>1, ManiaAttributesAt
    <3> QED BY <1>2, <2>2, <2>3, <3>1, <3>2
  <2>4. CASE ~(k < Mania!StepsOfMap)
    BY <1>2, <2>2, <2>4
  <2> QED BY <2>3, <2>4
<1>3. CASE Mania!CallNext
  <2>1. maniaCalc.idx \in maniaCalc.idx .. Mania!StepsOfMap
    BY <1>1
  <2> QED BY <1>1, <1>2, <1>3, <2>1 DEF Mania!CallNext
<1>4. ASSUME NEW n \in Nat, Mania!CallNth(n)
      PROVE  \E k \in maniaCalc.idx .. Mania!StepsOfMap :
               /\ maniaCalc.idx < Mania!StepsOfMap => k < Mania!StepsOfMap
               /\ maniaCalc' = Mania!NextOn(ManiaAt(k))
               /\ maniaAnswer' = IF Mania!HasNext(ManiaAt(k)) THEN Mania!Attributes(maniaCalc')
                                 ELSE None
               /\ UNCHANGED <<maniaMap, take>>
  <2> DEFINE k == ManiaSkipTo(maniaCalc.idx, n)
  <2>1. /\ Mania!SkipOn(maniaCalc, n) = ManiaAt(k)
        /\ k \in maniaCalc.idx .. Mania!StepsOfMap
        /\ maniaCalc.idx < Mania!StepsOfMap => k < Mania!StepsOfMap
    BY <1>1, <1>4, ManiaSkipAt
  <2> HIDE DEF k
  <2> QED BY <1>4, <2>1 DEF Mania!CallNth, Mania!NthOn
<1> QED BY <1>2, <1>3, <1>4

(* Every call keeps the inductive invariant.                               *)
LEMMA ManiaNextIInv ==
  ASSUME ManiaIInv, Mania!CallNext \/ \E n \in Nat : Mania!CallNth(n)
  PROVE  ManiaIInv'
<1>1. PICK k \in maniaCalc.idx .. Mania!StepsOfMap :
        /\ maniaCalc' = ManiaAt(Least(k + 1, Mania!StepsOfMap))
        /\ maniaAnswer' = IF k < Mania!StepsOfMap
                          THEN Mania!RegularAttributes(k + 1) ELSE None
        /\ UNCHANGED <<maniaMap, take>>
  BY ManiaCall
<1> DEFINE to == Least(k + 1, Mania!StepsOfMap)
<1>2. ManiaInputs /\ Mania!StepsOfMap \in Nat /\ k \in 0 .. Mania!StepsOfMap
  BY ManiaSizes DEF ManiaIInv
<1>3. to \in 0 .. Mania!StepsOfMap /\ (k < Mania!StepsOfMap => to = k + 1)
  BY <1>2 DEF Least
<1>4. maniaCalc'.idx = to
  BY <1>1 DEF ManiaAt
<1> HIDE DEF to
<1>5. /\ maniaCalc'.idx \in 0 .. Mania!StepsOfMap
      /\ maniaCalc' = ManiaAt(maniaCalc'.idx)
      /\ maniaAnswer' # None => maniaAnswer' = Mania!RegularAttributes(maniaCalc'.idx)
  BY <1>1, <1>3, <1>4 DEF to
<1>6. /\ ManiaInputs' = ManiaInputs
      /\ Mania!StepsOfMap' = Mania!StepsOfMap
      /\ \A j : ManiaAt(j)' = ManiaAt(j)
      /\ \A j : Mania!RegularAttributes(j)' = Mania!RegularAttributes(j)
  BY <1>1, ManiaMapStays
<1>7. ManiaAt(maniaCalc.idx)' = ManiaAt(maniaCalc'.idx)
  BY <1>6
<1>8. Mania!RegularAttributes(maniaCalc.idx)' = Mania!RegularAttributes(maniaCalc'.idx)
  BY <1>6
<1> QED BY <1>2, <1>5, <1>6, <1>7, <1>8 DEF ManiaIInv

(* So do the calls of other calculators.                                   *)
LEMMA ManiaStaysIInv ==
  ASSUME ManiaIInv, UNCHANGED <<maniaMap, maniaCalc, maniaAnswer, take>>
  PROVE  ManiaIInv'
BY ManiaMapStays DEF ManiaIInv

(***************************************************************************)
(* The properties                                                          *)
(***************************************************************************)

(* nth(n) ends where n + 1 calls of next() end, and len() tells how many   *)
(* more calls of next() return Some.                                       *)
LEMMA ManiaNthsAndLen ==
  ASSUME ManiaIInv
  PROVE  Mania!NthIsRepeatedNext /\ Mania!LenTellsAnswers
<1> DEFINE k == maniaCalc.idx
<1>1. /\ ManiaInputs /\ k \in 0 .. Mania!StepsOfMap /\ maniaCalc = ManiaAt(k)
      /\ Mania!StepsOfMap \in Nat /\ Mania!DiffCount \in Nat
      /\ maniaMap = <<>> => Mania!StepsOfMap = 0 /\ Mania!DiffCount = 0
      /\ maniaMap # <<>> => Mania!StepsOfMap = Mania!DiffCount + 1
      /\ Mania!StepsOfMap <= Len(maniaMap) /\ Len(maniaMap) \in Nat
  BY ManiaSizes, ManiaTotals DEF ManiaIInv
<1>2. Mania!Remaining(maniaCalc) = Mania!DiffCount + 1 - k
  BY DEF Mania!Remaining
<1> HIDE DEF k
<1>3. ASSUME NEW n \in Skips
      PROVE  Mania!NthOn(maniaCalc, n) =
               Mania!AfterNexts(maniaCalc,
                 Mania!Least(n, Mania!SaturatingSub(Mania!Remaining(maniaCalc), 1)) + 1)
  <2> DEFINE want == Mania!Least(n, Mania!SaturatingSub(Mania!Remaining(maniaCalc), 1))
             j    == ManiaSkipTo(k, n)
  <2>1. n \in Nat
    BY SkipsAssumption
  <2>2. want \in Nat /\ k + want = j
    BY <1>1, <1>2, <2>1 DEF Mania!Least, Mania!SaturatingSub, ManiaSkipTo, Least
  <2>3. /\ Mania!SkipOn(maniaCalc, n) = ManiaAt(j)
        /\ j \in k .. Mania!StepsOfMap
    BY <1>1, <2>1, ManiaSkipAt
  <2> HIDE DEF j, want
  <2>4. j \in 0 .. Mania!StepsOfMap /\ want + 1 \in Nat /\ k + (want + 1) = j + 1
    BY <1>1, <2>2, <2>3
  <2>5. Mania!NthOn(maniaCalc, n) = ManiaAt(Least(j + 1, Mania!StepsOfMap))
    BY <1>1, <2>3, <2>4, ManiaNextAt DEF Mania!NthOn
  <2>6. Mania!AfterNexts(ManiaAt(k), want + 1) = ManiaAt(Least(k + (want + 1), Mania!StepsOfMap))
    BY <1>1, <2>4, ManiaAfterNexts
  <2> QED BY <1>1, <2>4, <2>5, <2>6 DEF want
<1>4. Mania!AnswersLeft = Mania!StepsOfMap - k
  BY <1>1, <1>2 DEF Mania!AnswersLeft
<1>5. ASSUME NEW n \in Nat
      PROVE  Mania!HasNext(Mania!AfterNexts(maniaCalc, n)) <=> n < Mania!AnswersLeft
  <2>1. Mania!AfterNexts(maniaCalc, n) = ManiaAt(Least(k + n, Mania!StepsOfMap))
    BY <1>1, ManiaAfterNexts
  <2>2. /\ Least(k + n, Mania!StepsOfMap) \in 0 .. Mania!StepsOfMap
        /\ Least(k + n, Mania!StepsOfMap) < Mania!StepsOfMap <=> n < Mania!AnswersLeft
    BY <1>1, <1>4 DEF Least
  <2> QED BY <1>1, <2>1, <2>2, ManiaNextAt
<1>6. Mania!AnswersLeft >= 0
  BY <1>1, <1>4
<1> QED BY <1>1, <1>3, <1>5, <1>6 DEF Mania!NthIsRepeatedNext, Mania!LenTellsAnswers

(* A step of the composition calls this calculator or leaves it alone.     *)
LEMMA ManiaStepOfGradual ==
  ASSUME [GradualStep]_gradualVars
  PROVE  \/ Mania!CallNext \/ \E n \in Nat : Mania!CallNth(n)
         \/ UNCHANGED <<maniaMap, maniaCalc, maniaAnswer, take>>
<1>1. CASE UNCHANGED gradualVars
  BY <1>1 DEF gradualVars, vars, maniaVars
<1>2. CASE DifficultyNext
  BY <1>2 DEF DifficultyNext, CallNext, vars, maniaVars
<1>3. ASSUME NEW n \in Nat, DifficultyNth(n)
      PROVE  \/ \E i \in Nat : Mania!CallNth(i)
             \/ UNCHANGED <<maniaMap, maniaCalc, maniaAnswer, take>>
  BY <1>3 DEF DifficultyNth, CallNth, vars, maniaVars
<1>4. GradualStep => DifficultyNext \/ \E n \in Nat : DifficultyNth(n)
  BY SkipsAssumption
  DEF GradualStep, GradualNext, PerformanceNext, PerformanceNth, GradualNth
<1> QED BY <1>1, <1>2, <1>3, <1>4

(* In every behaviour of the calculators, the osu!mania calculator is the  *)
(* one that has passed the objects its position says, and its answer the   *)
(* one-shot calculation of these objects.                                  *)
THEOREM ManiaInvariance == GradualSpec => []ManiaIInv
<1>1. GradualInit => ManiaIInv
  <2> SUFFICES ASSUME GradualInit PROVE ManiaIInv
    OBVIOUS
  <2>1. Mania!Init /\ take \in Nat
    BY PassedObjectsAssumption DEF GradualInit
  <2>2. maniaMap \in Seq([circle : BOOLEAN, ticks : Nat])
    <3> DEFINE S == [circle : BOOLEAN, ticks : Nat]
    <3>1. maniaMap \in ManiaMaps \/ maniaMap = <<>>
      BY DEF GradualInit
    <3>2. ManiaMaps \subseteq Seq(S) /\ <<>> \in Seq(S)
      BY ManiaMapsAssumption
    <3> HIDE DEF S
    <3>3. maniaMap \in Seq(S)
      BY <3>1, <3>2
    <3> QED BY <3>3 DEF S
  <2> QED BY <2>1, <2>2, ManiaInitIInv DEF ManiaInputs
<1>2. ManiaIInv /\ [GradualStep]_gradualVars => ManiaIInv'
  BY ManiaStepOfGradual, ManiaNextIInv, ManiaStaysIInv
<1> QED BY <1>1, <1>2, PTL DEF GradualSpec

(* The calculator implements the iterator of GradualIterator: every answer *)
(* is the one-shot calculation of the objects passed so far, and None is   *)
(* given only once the last one was passed.                                *)
THEOREM ManiaRefinement == GradualSpec => Mania!ImplementsIterator
<1>1. GradualInit /\ ManiaIInv => Mania!Iterator!Init
  <2> SUFFICES ASSUME GradualInit, ManiaIInv PROVE Mania!Iterator!Init
    OBVIOUS
  <2>1. maniaCalc.idx = 0 /\ maniaAnswer = None
    BY DEF GradualInit, Mania!Init, Mania!Fresh, Mania!IncrementCombo
  <2> QED BY <2>1, ManiaSizes DEF ManiaIInv, Mania!Iterator!Init
<1>2. ManiaIInv /\ [GradualStep]_gradualVars
        => [Mania!Iterator!Next]_(Mania!Iterator!gradualVars)
  <2> SUFFICES ASSUME ManiaIInv, [GradualStep]_gradualVars
               PROVE  Mania!Iterator!Next \/ UNCHANGED Mania!Iterator!gradualVars
    OBVIOUS
  <2> DEFINE regular == [k \in 0 .. Mania!StepsOfMap |-> Mania!RegularAttributes(k)]
  <2>1. ASSUME UNCHANGED <<maniaMap, take>>
        PROVE  Mania!StepsOfMap' = Mania!StepsOfMap /\ regular' = regular
    BY <2>1, ManiaMapStays
  <2>2. CASE Mania!CallNext \/ \E n \in Nat : Mania!CallNth(n)
    <3>1. PICK k \in maniaCalc.idx .. Mania!StepsOfMap :
            /\ maniaCalc.idx < Mania!StepsOfMap => k < Mania!StepsOfMap
            /\ maniaCalc' = ManiaAt(Least(k + 1, Mania!StepsOfMap))
            /\ maniaAnswer' = IF k < Mania!StepsOfMap
                              THEN Mania!RegularAttributes(k + 1) ELSE None
            /\ UNCHANGED <<maniaMap, take>>
      BY <2>2, ManiaCall
    <3>2. maniaCalc.idx \in 0 .. Mania!StepsOfMap /\ Mania!StepsOfMap \in Nat
      BY ManiaSizes DEF ManiaIInv
    <3>3. maniaCalc'.idx = Least(k + 1, Mania!StepsOfMap)
      BY <3>1 DEF ManiaAt
    <3>4. Mania!StepsOfMap' = Mania!StepsOfMap /\ regular' = regular
      BY <2>1, <3>1
    <3>5. CASE k < Mania!StepsOfMap
      <4>1. /\ maniaCalc'.idx \in maniaCalc.idx + 1 .. Mania!StepsOfMap
            /\ maniaCalc'.idx \in 0 .. Mania!StepsOfMap
            /\ maniaCalc'.idx = k + 1
        BY <3>2, <3>3, <3>5 DEF Least
      <4>2. maniaAnswer' = regular[maniaCalc'.idx]
        BY <3>1, <3>5, <4>1
      <4> HIDE DEF regular
      <4>3. Mania!Iterator!Advance(maniaCalc'.idx)
        BY <3>4, <4>1, <4>2 DEF Mania!Iterator!Advance, regular
      <4> QED BY <4>1, <4>3 DEF Mania!Iterator!Next
    <3>6. CASE ~(k < Mania!StepsOfMap)
      <4>1. maniaCalc.idx = Mania!StepsOfMap /\ maniaCalc'.idx = maniaCalc.idx
        BY <3>1, <3>2, <3>3, <3>6 DEF Least
      <4> QED BY <3>1, <3>4, <3>6, <4>1 DEF Mania!Iterator!Next, Mania!Iterator!Exhausted
    <3> QED BY <3>5, <3>6
  <2>3. CASE UNCHANGED <<maniaMap, maniaCalc, maniaAnswer, take>>
    BY <2>1, <2>3 DEF Mania!Iterator!gradualVars
  <2> QED BY <2>2, <2>3, ManiaStepOfGradual
<1> QED
  BY <1>1, <1>2, ManiaInvariance, PTL
  DEF GradualSpec, Mania!ImplementsIterator, Mania!Iterator!Spec

(***************************************************************************)
(* osu!catch                                                               *)
(***************************************************************************)

Recordable == {"fruit", "droplet", "tiny"}

CatchInputs == catchMap \in Seq(Recordable)

Counts == [fruits : Nat, droplets : Nat, tiny_droplets : Nat]
Deltas == [fruit : BOOLEAN, tiny_droplets : Nat]

(***************************************************************************)
(* The builder of deltas                                                   *)
(***************************************************************************)

(* One record_* call of the builder of deltas, which holds back the tiny   *)
(* droplets since the latest palpable object.                              *)
Built(all, tiny) == [all |-> all, count |-> [fruit |-> FALSE, tiny_droplets |-> tiny]]
Delta(fruit, tiny) == [fruit |-> fruit, tiny_droplets |-> tiny]

(* How such a call changes the builder, for each kind of object.         *)
LEMMA RecordGradualStep ==
  ASSUME NEW all, NEW tiny \in Nat
  PROVE  /\ Catch!RecordGradual(Built(all, tiny), "tiny") = Built(all, tiny + 1)
         /\ Catch!RecordGradual(Built(all, tiny), "fruit") = Built(Append(all, Delta(TRUE, tiny)), 0)
         /\ Catch!RecordGradual(Built(all, tiny), "droplet")
              = Built(Append(all, Delta(FALSE, tiny)), 0)
<1> DEFINE no == FALSE
           yes == TRUE
           b == [all |-> all, count |-> [fruit |-> no, tiny_droplets |-> tiny]]
<1>1. Built(all, tiny) = b
  BY DEF Built
<1> HIDE DEF no, yes
<1>2. /\ [b EXCEPT !.count.tiny_droplets = @ + 1]
           = [all |-> all, count |-> [fruit |-> no, tiny_droplets |-> tiny + 1]]
      /\ [b.count EXCEPT !.fruit = yes] = [fruit |-> yes, tiny_droplets |-> tiny]
      /\ b.count = [fruit |-> no, tiny_droplets |-> tiny]
      /\ b.all = all
  OBVIOUS
<1> HIDE DEF b
<1>3. Catch!RecordGradual(b, "tiny") = Built(all, tiny + 1)
  BY <1>2 DEF Catch!RecordGradual, Built, no
<1>4. Catch!RecordGradual(b, "fruit") = Built(Append(all, Delta(TRUE, tiny)), 0)
  BY <1>2 DEF Catch!RecordGradual, Built, Delta, yes
<1>5. Catch!RecordGradual(b, "droplet") = Built(Append(all, Delta(FALSE, tiny)), 0)
  BY <1>2 DEF Catch!RecordGradual, Built, Delta, no
<1> QED BY <1>1, <1>3, <1>4, <1>5

(* The builder after the first i objects of the map.                       *)
CatchBuilder[i \in 0 .. Len(catchMap)] ==
  IF i = 0 THEN Built(<<>>, 0) ELSE Catch!RecordGradual(CatchBuilder[i - 1], catchMap[i])

CatchAll(i) == CatchBuilder[i].all
CatchHeld(i) == CatchBuilder[i].count.tiny_droplets

(* A map is a sequence of recordable objects.                            *)
LEMMA CatchObjects ==
  ASSUME CatchInputs
  PROVE  Len(catchMap) \in Nat /\ \A i \in 1 .. Len(catchMap) : catchMap[i] \in Recordable
<1> QED BY ElementOfSeq DEF CatchInputs

(* It holds back the tiny droplets until a palpable object comes.          *)
LEMMA CatchBuilderUnfolds ==
  ASSUME CatchInputs
  PROVE  /\ Catch!GradualCounts = CatchAll(Len(catchMap))
         /\ \A i \in 0 .. Len(catchMap) : CatchAll(i) \in Seq(Deltas) /\ CatchHeld(i) \in Nat
         /\ CatchAll(0) = <<>> /\ CatchHeld(0) = 0
         /\ \A i \in 1 .. Len(catchMap) :
              /\ catchMap[i] = "tiny" => /\ CatchAll(i) = CatchAll(i - 1)
                                         /\ CatchHeld(i) = CatchHeld(i - 1) + 1
              /\ catchMap[i] = "fruit" =>
                   CatchAll(i) = Append(CatchAll(i - 1), Delta(TRUE, CatchHeld(i - 1)))
              /\ catchMap[i] = "droplet" =>
                   CatchAll(i) = Append(CatchAll(i - 1), Delta(FALSE, CatchHeld(i - 1)))
              /\ catchMap[i] # "tiny" => CatchHeld(i) = 0
<1> DEFINE n == Len(catchMap)
           Ok(b) == \E all \in Seq(Deltas), tiny \in Nat : b = Built(all, tiny)
           Builders == {Built(all, tiny) : all \in Seq(Deltas), tiny \in Nat}
           step == [i \in 1 .. n |-> [b \in Builders |-> Catch!RecordGradual(b, catchMap[i])]]
<1>1. n \in Nat /\ \A i \in 1 .. n : catchMap[i] \in Recordable
  BY CatchObjects
<1>2. \A tiny \in Nat : Delta(TRUE, tiny) \in Deltas /\ Delta(FALSE, tiny) \in Deltas
  BY DEF Delta, Deltas
<1>3. ASSUME NEW b PROVE b \in Builders <=> Ok(b)
  OBVIOUS
<1> HIDE DEF Builders
<1>4. ASSUME NEW b \in Builders, NEW o \in Recordable
      PROVE  Catch!RecordGradual(b, o) \in Builders
  <2>1. PICK all \in Seq(Deltas), tiny \in Nat : b = Built(all, tiny)
    BY <1>3, <1>4
  <2>2. /\ Append(all, Delta(TRUE, tiny)) \in Seq(Deltas)
        /\ Append(all, Delta(FALSE, tiny)) \in Seq(Deltas)
    <3>1. \A d \in Deltas : Append(all, d) \in Seq(Deltas)
      BY <2>1, AppendProperties
    <3> QED BY <1>2, <2>1, <3>1
  <2>3. Ok(Catch!RecordGradual(b, o))
    <3>1. CASE o = "tiny"
      <4>1. tiny + 1 \in Nat
        BY <2>1
      <4>2. Catch!RecordGradual(Built(all, tiny), "tiny") = Built(all, tiny + 1)
        BY <2>1, RecordGradualStep
      <4> QED BY <2>1, <3>1, <4>1, <4>2
    <3>2. CASE o = "fruit"
      BY <2>1, <2>2, <3>2, RecordGradualStep
    <3>3. CASE o = "droplet"
      BY <2>1, <2>2, <3>3, RecordGradualStep
    <3> QED BY <1>4, <3>1, <3>2, <3>3 DEF Recordable
  <2> QED BY <1>3, <2>3
<1>5. Built(<<>>, 0) \in Builders
  <2>1. <<>> \in Seq(Deltas) /\ 0 \in Nat
    OBVIOUS
  <2>2. Ok(Built(<<>>, 0))
    BY <2>1
  <2> QED BY <1>3, <2>2
<1>6. step \in [1 .. n -> [Builders -> Builders]]
  BY <1>1, <1>4
<1>7. PICK f : Iterates(f, n, Builders, Built(<<>>, 0), step)
  <2> HIDE DEF step, n
  <2> QED BY <1>1, <1>5, <1>6, RecursionExists
<1>8. f = [i \in 0 .. n |-> IF i = 0 THEN Built(<<>>, 0)
                            ELSE Catch!RecordGradual(f[i - 1], catchMap[i])]
  <2>1. /\ f \in [0 .. n -> Builders] /\ f[0] = Built(<<>>, 0)
        /\ \A i \in 1 .. n : f[i] = step[i][f[i - 1]]
    BY <1>7 DEF Iterates
  <2>2. ASSUME NEW i \in 1 .. n
        PROVE  f[i] = Catch!RecordGradual(f[i - 1], catchMap[i])
    <3>1. f[i - 1] \in Builders
      BY <1>1, <2>1
    <3> QED BY <2>1, <3>1
  <2> QED BY <1>1, <2>1, <2>2
<1>9. CatchBuilder = [i \in 0 .. n |-> IF i = 0 THEN Built(<<>>, 0)
                            ELSE Catch!RecordGradual(CatchBuilder[i - 1], catchMap[i])]
  BY <1>8 DEF CatchBuilder
<1>10. \A i \in 0 .. n : CatchBuilder[i] \in Builders
  <2> DEFINE S == {i \in 0 .. n : CatchBuilder[i] \in Builders}
  <2>1. 0 \in S
    BY <1>1, <1>5, <1>9
  <2>2. ASSUME NEW i \in 1 .. n, i - 1 \in S PROVE i \in S
    BY <1>1, <1>4, <1>9, <2>2
  <2> HIDE DEF S, n
  <2>3. \A i \in 0 .. n : i \in S
    BY <1>1, <2>1, <2>2, IntervalIsReached
  <2> QED BY <2>3 DEF S
<1>11. ASSUME NEW i \in 0 .. n
       PROVE  /\ CatchBuilder[i] = Built(CatchAll(i), CatchHeld(i))
              /\ CatchAll(i) \in Seq(Deltas) /\ CatchHeld(i) \in Nat
  <2>1. PICK all \in Seq(Deltas), tiny \in Nat : CatchBuilder[i] = Built(all, tiny)
    BY <1>3, <1>10
  <2>2. CatchAll(i) = all /\ CatchHeld(i) = tiny
    BY <2>1 DEF CatchAll, CatchHeld, Built
  <2> QED BY <2>1, <2>2
<1>12. CatchAll(0) = <<>> /\ CatchHeld(0) = 0
  BY <1>1, <1>9 DEF CatchAll, CatchHeld, Built
<1>13. ASSUME NEW i \in 1 .. n
       PROVE  /\ catchMap[i] = "tiny" => /\ CatchAll(i) = CatchAll(i - 1)
                                         /\ CatchHeld(i) = CatchHeld(i - 1) + 1
              /\ catchMap[i] = "fruit" =>
                   CatchAll(i) = Append(CatchAll(i - 1), Delta(TRUE, CatchHeld(i - 1)))
              /\ catchMap[i] = "droplet" =>
                   CatchAll(i) = Append(CatchAll(i - 1), Delta(FALSE, CatchHeld(i - 1)))
              /\ catchMap[i] # "tiny" => CatchHeld(i) = 0
  <2> DEFINE all == CatchAll(i - 1)
             tiny == CatchHeld(i - 1)
  <2>1. CatchBuilder[i - 1] = Built(all, tiny) /\ tiny \in Nat
    BY <1>1, <1>11
  <2>2. CatchBuilder[i] = Catch!RecordGradual(Built(all, tiny), catchMap[i])
    BY <1>1, <1>9, <2>1
  <2> HIDE DEF all, tiny
  <2>3. ASSUME NEW a, NEW t, CatchBuilder[i] = Built(a, t)
        PROVE  CatchAll(i) = a /\ CatchHeld(i) = t
    BY <2>3 DEF CatchAll, CatchHeld, Built
  <2>4. /\ catchMap[i] = "tiny" => CatchBuilder[i] = Built(all, tiny + 1)
        /\ catchMap[i] = "fruit" => CatchBuilder[i] = Built(Append(all, Delta(TRUE, tiny)), 0)
        /\ catchMap[i] = "droplet" => CatchBuilder[i] = Built(Append(all, Delta(FALSE, tiny)), 0)
    BY <2>1, <2>2, RecordGradualStep
  <2>5. catchMap[i] \in Recordable
    BY <1>1
  <2> QED BY <2>3, <2>4, <2>5 DEF all, tiny, Recordable
<1>14. Catch!GradualCounts = CatchBuilder[n].all
  BY DEF Catch!GradualCounts, CatchBuilder, Built
<1>15. n \in 0 .. n
  BY <1>1
<1> QED BY <1>11, <1>12, <1>13, <1>14, <1>15 DEF CatchAll

(* One record_* call of the builder of the one-shot calculation.           *)
Regular(f, d, t, take_) ==
  [count |-> [fruits |-> f, droplets |-> d, tiny_droplets |-> t], take |-> take_]

(* How such a call changes it, for each kind of object.                  *)
LEMMA RecordRegularStep ==
  ASSUME NEW f \in Nat, NEW d \in Nat, NEW t \in Nat, NEW k \in Nat
  PROVE  /\ k = 0 => \A o : Catch!RecordRegular(Regular(f, d, t, k), o) = Regular(f, d, t, k)
         /\ k > 0 => /\ Catch!RecordRegular(Regular(f, d, t, k), "fruit")
                          = Regular(f + 1, d, t, k - 1)
                     /\ Catch!RecordRegular(Regular(f, d, t, k), "droplet")
                          = Regular(f, d + 1, t, k - 1)
                     /\ Catch!RecordRegular(Regular(f, d, t, k), "tiny")
                          = Regular(f, d, t + 1, k)
<1> DEFINE b == Regular(f, d, t, k)
<1>1. b.take = k
  BY DEF Regular
<1>2. /\ [b EXCEPT !.take = @ - 1, !.count.fruits = @ + 1] = Regular(f + 1, d, t, k - 1)
      /\ [b EXCEPT !.take = @ - 1, !.count.droplets = @ + 1] = Regular(f, d + 1, t, k - 1)
      /\ [b EXCEPT !.count.tiny_droplets = @ + 1] = Regular(f, d, t + 1, k)
  <2> DEFINE was == [fruits |-> f, droplets |-> d, tiny_droplets |-> t]
             fruit == [was EXCEPT !.fruits = was.fruits + 1]
             droplet == [was EXCEPT !.droplets = was.droplets + 1]
             tiny == [was EXCEPT !.tiny_droplets = was.tiny_droplets + 1]
  <2>1. /\ fruit = [fruits |-> f + 1, droplets |-> d, tiny_droplets |-> t]
        /\ droplet = [fruits |-> f, droplets |-> d + 1, tiny_droplets |-> t]
        /\ tiny = [fruits |-> f, droplets |-> d, tiny_droplets |-> t + 1]
    OBVIOUS
  <2>2. b = [count |-> was, take |-> k] /\ b.count = was
    BY DEF Regular
  <2> HIDE DEF was, b
  <2>3. ASSUME NEW x
        PROVE  /\ [b EXCEPT !.take = @ - 1, !.count = x] = [count |-> x, take |-> k - 1]
               /\ [b EXCEPT !.count = x] = [count |-> x, take |-> k]
    <3> DEFINE less == [b EXCEPT !.take = @ - 1]
    <3>1. [b EXCEPT !.take = @ - 1, !.count = x] = [less EXCEPT !.count = x]
      OBVIOUS
    <3>2. less = [count |-> was, take |-> k - 1]
      BY <2>2
    <3> HIDE DEF less
    <3>3. [less EXCEPT !.count = x] = [count |-> x, take |-> k - 1]
      BY <3>2
    <3> QED BY <2>2, <3>1, <3>3
  <2>4. /\ [b EXCEPT !.take = @ - 1, !.count.fruits = @ + 1]
             = [b EXCEPT !.take = @ - 1, !.count = fruit]
        /\ [b EXCEPT !.take = @ - 1, !.count.droplets = @ + 1]
             = [b EXCEPT !.take = @ - 1, !.count = droplet]
        /\ [b EXCEPT !.count.tiny_droplets = @ + 1] = [b EXCEPT !.count = tiny]
    BY <2>2
  <2> HIDE DEF fruit, droplet, tiny
  <2> QED BY <2>1, <2>3, <2>4 DEF Regular
<1> HIDE DEF b
<1>3. k = 0 => \A o : Catch!RecordRegular(b, o) = b
  BY <1>1 DEF Catch!RecordRegular
<1>4. k > 0 => /\ Catch!RecordRegular(b, "fruit") = Regular(f + 1, d, t, k - 1)
               /\ Catch!RecordRegular(b, "droplet") = Regular(f, d + 1, t, k - 1)
               /\ Catch!RecordRegular(b, "tiny") = Regular(f, d, t + 1, k)
  BY <1>1, <1>2 DEF Catch!RecordRegular
<1> QED BY <1>3, <1>4 DEF b

(* What it has built so far is the beginning of what it builds.            *)
LEMMA CatchPrefix ==
  ASSUME CatchInputs, NEW i \in 0 .. Len(catchMap)
  PROVE  /\ Len(CatchAll(i)) <= Catch!Palpables
         /\ \A j \in 1 .. Len(CatchAll(i)) : Catch!GradualCounts[j] = CatchAll(i)[j]
         /\ \A j \in 1 .. Len(CatchAll(i)) : Catch!GradualCounts[j] \in Deltas
<1> DEFINE n == Len(catchMap)
           Extends(k) == /\ Len(CatchAll(i)) <= Len(CatchAll(k))
                         /\ \A j \in 1 .. Len(CatchAll(i)) : CatchAll(k)[j] = CatchAll(i)[j]
           S == {k \in 0 .. n : k >= i => Extends(k)}
<1>1. /\ n \in Nat /\ i \in 0 .. n
      /\ \A k \in 0 .. n : CatchAll(k) \in Seq(Deltas) /\ CatchHeld(k) \in Nat
  BY CatchObjects, CatchBuilderUnfolds
<1>2. ASSUME NEW k \in 1 .. n, k - 1 >= i, Extends(k - 1) PROVE Extends(k)
  <2>1. CatchAll(k - 1) \in Seq(Deltas) /\ CatchAll(i) \in Seq(Deltas)
        /\ CatchHeld(k - 1) \in Nat
    BY <1>1
  <2>2. \/ CatchAll(k) = CatchAll(k - 1)
        \/ \E d \in Deltas : CatchAll(k) = Append(CatchAll(k - 1), d)
    <3>1. Delta(TRUE, CatchHeld(k - 1)) \in Deltas /\ Delta(FALSE, CatchHeld(k - 1)) \in Deltas
      BY <2>1 DEF Delta, Deltas
    <3>2. catchMap[k] \in Recordable
      BY CatchObjects
    <3> QED BY <3>1, <3>2, CatchBuilderUnfolds DEF Recordable
  <2>3. CASE CatchAll(k) = CatchAll(k - 1)
    BY <1>2, <2>3
  <2>4. ASSUME NEW d \in Deltas, CatchAll(k) = Append(CatchAll(k - 1), d) PROVE Extends(k)
    <3>1. /\ Len(CatchAll(k)) = Len(CatchAll(k - 1)) + 1
          /\ \A j \in 1 .. Len(CatchAll(k - 1)) : CatchAll(k)[j] = CatchAll(k - 1)[j]
      BY <2>1, <2>4, AppendProperties
    <3>2. Len(CatchAll(k - 1)) \in Nat /\ Len(CatchAll(i)) \in Nat
      BY <2>1
    <3> QED BY <1>2, <3>1, <3>2
  <2> QED BY <2>2, <2>3, <2>4
<1>3. Extends(i)
  <2>1. Len(CatchAll(i)) \in Nat
    BY <1>1
  <2> QED BY <2>1
<1> HIDE DEF Extends
<1>4. 0 \in S
  <2>1. 0 >= i => i = 0
    BY <1>1
  <2> QED BY <1>1, <1>3, <2>1
<1>5. ASSUME NEW k \in 1 .. n, k - 1 \in S PROVE k \in S
  <2>1. CASE k = i
    BY <1>1, <1>3, <2>1
  <2>2. CASE k > i
    BY <1>1, <1>2, <1>5, <2>2
  <2>3. CASE k < i
    BY <1>1, <2>3
  <2> QED BY <1>1, <2>1, <2>2, <2>3
<1> HIDE DEF S
<1>6. \A k \in 0 .. n : k \in S
  BY <1>1, <1>4, <1>5, IntervalIsReached
<1>7. Extends(n)
  <2>1. n \in S
    BY <1>1, <1>6
  <2> QED BY <1>1, <2>1 DEF S
<1>8. Catch!GradualCounts = CatchAll(n)
  BY CatchBuilderUnfolds
<1>9. \A j \in 1 .. Len(CatchAll(i)) : CatchAll(i)[j] \in Deltas
  BY <1>1, ElementOfSeq
<1> QED BY <1>7, <1>8, <1>9 DEF Extends, Catch!Palpables

(***************************************************************************)
(* Both counts agree                                                       *)
(***************************************************************************)

(* There is one delta for every palpable object.                         *)
LEMMA CatchPalpables ==
  ASSUME CatchInputs
  PROVE  /\ Catch!Palpables \in Nat
         /\ \A k \in 1 .. Catch!Palpables : Catch!GradualCounts[k] \in Deltas
<1>1. Len(catchMap) \in 0 .. Len(catchMap)
  BY CatchObjects
<1>2. /\ CatchAll(Len(catchMap)) \in Seq(Deltas)
      /\ Catch!GradualCounts = CatchAll(Len(catchMap))
  BY <1>1, CatchBuilderUnfolds
<1> QED BY <1>2, ElementOfSeq DEF Catch!Palpables

(* Adding a delta to a count.                                              *)
LEMMA AddDelta ==
  ASSUME NEW t \in Counts, NEW d \in Deltas
  PROVE  /\ Catch!AddObjectCount(t, d) \in Counts
         /\ Catch!AddObjectCount(t, d).tiny_droplets = t.tiny_droplets + d.tiny_droplets
         /\ d.fruit = TRUE => /\ Catch!AddObjectCount(t, d).fruits = t.fruits + 1
                              /\ Catch!AddObjectCount(t, d).droplets = t.droplets
         /\ d.fruit = FALSE => /\ Catch!AddObjectCount(t, d).fruits = t.fruits
                               /\ Catch!AddObjectCount(t, d).droplets = t.droplets + 1
         /\ d.fruit \in BOOLEAN
<1>1. /\ t.fruits \in Nat /\ t.droplets \in Nat /\ t.tiny_droplets \in Nat
      /\ d.tiny_droplets \in Nat /\ d.fruit \in BOOLEAN
  BY DEF Counts, Deltas
<1>2. CASE d.fruit = TRUE
  BY <1>1, <1>2 DEF Catch!AddObjectCount, Counts
<1>3. CASE d.fruit = FALSE
  BY <1>1, <1>3 DEF Catch!AddObjectCount, Counts
<1> QED BY <1>1, <1>2, <1>3

(* What the deltas of the first k palpable objects add up to.              *)
CatchTally[k \in 0 .. Catch!Palpables] ==
  IF k = 0 THEN Catch!NoCount
  ELSE Catch!AddObjectCount(CatchTally[k - 1], Catch!GradualCounts[k])

(* The tally adds one delta at a time, so k of them count k palpables.   *)
LEMMA CatchTallyUnfolds ==
  ASSUME CatchInputs
  PROVE  /\ \A k \in 0 .. Catch!Palpables : CatchTally[k] \in Counts
         /\ CatchTally[0] = Catch!NoCount
         /\ \A k \in 1 .. Catch!Palpables :
              CatchTally[k] = Catch!AddObjectCount(CatchTally[k - 1], Catch!GradualCounts[k])
         /\ \A k \in 0 .. Catch!Palpables : CatchTally[k].fruits + CatchTally[k].droplets = k
<1> DEFINE n == Catch!Palpables
           Add(t, k) == Catch!AddObjectCount(t, Catch!GradualCounts[k])
           step == [k \in 1 .. n |-> [t \in Counts |-> Add(t, k)]]
<1>1. n \in Nat
  BY CatchPalpables
<1>2. ASSUME NEW t \in Counts, NEW k \in 1 .. n
      PROVE  /\ Add(t, k) \in Counts
             /\ Add(t, k).fruits + Add(t, k).droplets = t.fruits + t.droplets + 1
  <2>1. Catch!GradualCounts[k] \in Deltas
    BY CatchPalpables
  <2>2. t.fruits \in Nat /\ t.droplets \in Nat
    BY DEF Counts
  <2> DEFINE delta == Catch!GradualCounts[k]
             u == Catch!AddObjectCount(t, delta)
  <2>3. /\ u \in Counts /\ delta.fruit \in BOOLEAN
        /\ delta.fruit = TRUE => u.fruits = t.fruits + 1 /\ u.droplets = t.droplets
        /\ delta.fruit = FALSE => u.fruits = t.fruits /\ u.droplets = t.droplets + 1
    <3> HIDE DEF delta
    <3> QED BY <2>1, AddDelta DEF delta
  <2> HIDE DEF delta, u
  <2>4. u.fruits + u.droplets = t.fruits + t.droplets + 1
    <3>1. CASE delta.fruit = TRUE
      BY <2>2, <2>3, <3>1
    <3>2. CASE delta.fruit = FALSE
      BY <2>2, <2>3, <3>2
    <3> QED BY <2>3, <3>1, <3>2
  <2> QED BY <2>3, <2>4 DEF u, delta
<1>3. Catch!NoCount \in Counts /\ Catch!NoCount.fruits + Catch!NoCount.droplets = 0
  BY DEF Catch!NoCount, Counts
<1> HIDE DEF Add, n
<1>4. step \in [1 .. n -> [Counts -> Counts]]
  BY <1>2
<1>5. PICK f : Iterates(f, n, Counts, Catch!NoCount, step)
  <2> HIDE DEF step
  <2> QED BY <1>1, <1>3, <1>4, RecursionExists
<1>6. f = [k \in 0 .. n |-> IF k = 0 THEN Catch!NoCount ELSE Add(f[k - 1], k)]
  <2>1. /\ f \in [0 .. n -> Counts] /\ f[0] = Catch!NoCount
        /\ \A k \in 1 .. n : f[k] = step[k][f[k - 1]]
    BY <1>5 DEF Iterates
  <2>2. ASSUME NEW k \in 1 .. n PROVE f[k] = Add(f[k - 1], k)
    <3>1. f[k - 1] \in Counts
      BY <1>1, <2>1
    <3> QED BY <2>1, <3>1
  <2> QED BY <1>1, <2>1, <2>2
<1>7. CatchTally = [k \in 0 .. n |-> IF k = 0 THEN Catch!NoCount ELSE Add(CatchTally[k - 1], k)]
  BY <1>6 DEF CatchTally, Add, n
<1>8. /\ CatchTally[0] = Catch!NoCount
      /\ \A k \in 1 .. n : CatchTally[k] = Add(CatchTally[k - 1], k)
  BY <1>1, <1>7
<1>9. \A k \in 0 .. n : CatchTally[k] \in Counts /\ CatchTally[k].fruits + CatchTally[k].droplets = k
  <2> DEFINE S == {k \in 0 .. n : /\ CatchTally[k] \in Counts
                                  /\ CatchTally[k].fruits + CatchTally[k].droplets = k}
  <2>1. 0 \in S
    BY <1>1, <1>3, <1>8
  <2>2. ASSUME NEW k \in 1 .. n, k - 1 \in S PROVE k \in S
    BY <1>1, <1>2, <1>8, <2>2
  <2> HIDE DEF S
  <2>3. \A k \in 0 .. n : k \in S
    BY <1>1, <2>1, <2>2, IntervalIsReached
  <2> QED BY <2>3 DEF S
<1> QED BY <1>8, <1>9 DEF Add, n

(* The builder of the one-shot calculation that stops at the k-th palpable *)
(* object, after i objects of the map: it has counted the deltas of the    *)
(* palpable objects, and while it has not stopped also the tiny droplets   *)
(* that the other builder holds back.                                      *)
CatchRegularAt(k, i) ==
  LET p == Len(CatchAll(i))
      t == CatchTally[Least(k, p)]
  IN  Regular(t.fruits, t.droplets,
              t.tiny_droplets + (IF k > p THEN CatchHeld(i) ELSE 0), k - Least(k, p))

(* Recording one more object leads from one such state to the next.      *)
LEMMA CatchRegularStep ==
  ASSUME CatchInputs, NEW k \in Nat, NEW i \in 1 .. Len(catchMap)
  PROVE  CatchRegularAt(k, i) = Catch!RecordRegular(CatchRegularAt(k, i - 1), catchMap[i])
<1> DEFINE before == CatchAll(i - 1)
           q == Len(before)
           p == Len(CatchAll(i))
           held == CatchHeld(i - 1)
           t == CatchTally[Least(k, q)]
           f == t.fruits
           d == t.droplets
           tiny == t.tiny_droplets
           left == k - Least(k, q)
<1>1. /\ i - 1 \in 0 .. Len(catchMap) /\ i \in 0 .. Len(catchMap)
      /\ before \in Seq(Deltas) /\ CatchAll(i) \in Seq(Deltas)
      /\ held \in Nat /\ q \in Nat /\ p \in Nat
      /\ q <= Catch!Palpables /\ p <= Catch!Palpables /\ Catch!Palpables \in Nat
      /\ catchMap[i] \in Recordable
  <2>1. i - 1 \in 0 .. Len(catchMap) /\ i \in 0 .. Len(catchMap) /\ catchMap[i] \in Recordable
    BY CatchObjects
  <2>2. before \in Seq(Deltas) /\ CatchAll(i) \in Seq(Deltas) /\ held \in Nat
    BY <2>1, CatchBuilderUnfolds
  <2> QED BY <2>1, <2>2, CatchPrefix, CatchPalpables
<1>2. t \in Counts /\ f \in Nat /\ d \in Nat /\ tiny \in Nat
  <2>1. Least(k, q) \in 0 .. Catch!Palpables
    BY <1>1 DEF Least
  <2>2. t \in Counts
    BY <2>1, CatchTallyUnfolds
  <2> QED BY <2>1, <2>2 DEF Counts
<1>3. CatchRegularAt(k, i - 1) = Regular(f, d, tiny + (IF k > q THEN held ELSE 0), left)
  BY DEF CatchRegularAt
<1>4. CatchRegularAt(k, i) =
        Regular(CatchTally[Least(k, p)].fruits, CatchTally[Least(k, p)].droplets,
                CatchTally[Least(k, p)].tiny_droplets + (IF k > p THEN CatchHeld(i) ELSE 0),
                k - Least(k, p))
  BY DEF CatchRegularAt
<1>5. /\ catchMap[i] = "tiny" => p = q /\ CatchHeld(i) = held + 1
      /\ catchMap[i] = "fruit" => CatchAll(i) = Append(before, Delta(TRUE, held)) /\ CatchHeld(i) = 0
      /\ catchMap[i] = "droplet" =>
           CatchAll(i) = Append(before, Delta(FALSE, held)) /\ CatchHeld(i) = 0
  BY CatchBuilderUnfolds
<1>6. Delta(TRUE, held) \in Deltas /\ Delta(FALSE, held) \in Deltas
  BY <1>1 DEF Delta, Deltas
<1>7. ASSUME NEW e \in Deltas, CatchAll(i) = Append(before, e)
      PROVE  p = q + 1 /\ CatchAll(i)[q + 1] = e
  <2> HIDE DEF before
  <2> QED BY <1>1, <1>7, AppendProperties
<1>8. p = q \/ p = q + 1
  BY <1>1, <1>5, <1>6, <1>7 DEF Recordable
<1>9. ASSUME NEW e \in Deltas, CatchAll(i) = Append(before, e), k > q
      PROVE  CatchTally[q + 1] = Catch!AddObjectCount(t, e)
  <2>1. p = q + 1 /\ CatchAll(i)[q + 1] = e
    BY <1>7, <1>9
  <2>2. q + 1 \in 1 .. p /\ q + 1 \in 1 .. Catch!Palpables /\ (q + 1) - 1 = q /\ Least(k, q) = q
    BY <1>1, <1>9, <2>1 DEF Least
  <2> HIDE DEF q, before
  <2>3. Catch!GradualCounts[q + 1] = e
    BY <1>1, <2>1, <2>2, CatchPrefix
  <2>4. CatchTally[q + 1] = Catch!AddObjectCount(CatchTally[q], e)
    BY <2>2, <2>3, CatchTallyUnfolds
  <2> QED BY <2>2, <2>4
<1>10. ASSUME NEW e \in Deltas
       PROVE  /\ Catch!AddObjectCount(t, e).tiny_droplets = tiny + e.tiny_droplets
              /\ e.fruit = TRUE => /\ Catch!AddObjectCount(t, e).fruits = f + 1
                                   /\ Catch!AddObjectCount(t, e).droplets = d
              /\ e.fruit = FALSE => /\ Catch!AddObjectCount(t, e).fruits = f
                                    /\ Catch!AddObjectCount(t, e).droplets = d + 1
  <2> HIDE DEF t
  <2> QED BY <1>2, AddDelta
<1>11. \A x \in Nat, y \in Nat :
         /\ y = 0 => \A o : Catch!RecordRegular(Regular(f, d, x, y), o) = Regular(f, d, x, y)
         /\ y > 0 => /\ Catch!RecordRegular(Regular(f, d, x, y), "fruit") = Regular(f + 1, d, x, y - 1)
                     /\ Catch!RecordRegular(Regular(f, d, x, y), "droplet") = Regular(f, d + 1, x, y - 1)
                     /\ Catch!RecordRegular(Regular(f, d, x, y), "tiny") = Regular(f, d, x + 1, y)
  <2>1. f \in Nat /\ d \in Nat
    BY <1>2
  <2> HIDE DEF f, d
  <2>2. ASSUME NEW x \in Nat, NEW y \in Nat
        PROVE  /\ y = 0 => \A o : Catch!RecordRegular(Regular(f, d, x, y), o) = Regular(f, d, x, y)
               /\ y > 0 => /\ Catch!RecordRegular(Regular(f, d, x, y), "fruit")
                                = Regular(f + 1, d, x, y - 1)
                           /\ Catch!RecordRegular(Regular(f, d, x, y), "droplet")
                                = Regular(f, d + 1, x, y - 1)
                           /\ Catch!RecordRegular(Regular(f, d, x, y), "tiny")
                                = Regular(f, d, x + 1, y)
    BY SMTT(30), <2>1, RecordRegularStep
  <2> QED BY <2>2
<1>12. CASE k <= q
  <2>1. Least(k, q) = k /\ Least(k, p) = k /\ ~(k > q) /\ ~(k > p) /\ k - Least(k, p) = 0 /\ left = 0
    BY <1>1, <1>8, <1>12 DEF Least
  <2>2. CatchTally[Least(k, p)] = t
    BY <2>1
  <2> HIDE DEF t, q, p, left
  <2>3. tiny + 0 = tiny
    BY <1>2
  <2>4. CatchRegularAt(k, i - 1) = Regular(f, d, tiny, 0)
    BY <1>3, <2>1, <2>3
  <2>5. CatchRegularAt(k, i) = Regular(f, d, tiny, 0)
    BY <1>4, <2>1, <2>2, <2>3
  <2>6. tiny \in Nat
    BY <1>2
  <2> HIDE DEF f, d, tiny
  <2>7. Catch!RecordRegular(Regular(f, d, tiny, 0), catchMap[i]) = Regular(f, d, tiny, 0)
    BY <1>11, <2>6
  <2> QED BY <2>4, <2>5, <2>7
<1>13. CASE k > q
  <2>1. Least(k, q) = q /\ left = k - q /\ left \in Nat /\ left > 0
    BY <1>1, <1>13 DEF Least
  <2>2. tiny + held \in Nat /\ (tiny + held) + 1 = tiny + (held + 1)
    <3> HIDE DEF tiny, held
    <3> QED BY <1>1, <1>2
  <2>3. CatchRegularAt(k, i - 1) = Regular(f, d, tiny + held, left)
    BY <1>3, <1>13
  <2>4. CASE catchMap[i] = "tiny"
    <3>1. p = q /\ CatchHeld(i) = held + 1
      BY <1>5, <2>4
    <3>2. CatchTally[Least(k, p)] = t /\ k > p /\ k - Least(k, p) = left
      BY <1>13, <3>1
    <3> HIDE DEF t, p, q, held, left
    <3>3. CatchRegularAt(k, i) = Regular(f, d, tiny + (held + 1), left)
      BY <1>4, <3>1, <3>2
    <3> HIDE DEF f, d, tiny
    <3> QED BY SMTT(30), <1>11, <2>1, <2>2, <2>3, <2>4, <3>3
  <2>5. ASSUME NEW e \in Deltas, CatchAll(i) = Append(before, e), CatchHeld(i) = 0,
               e.tiny_droplets = held
        PROVE  CatchRegularAt(k, i) = Regular(Catch!AddObjectCount(t, e).fruits,
                 Catch!AddObjectCount(t, e).droplets, tiny + held, left - 1)
    <3>1. p = q + 1
      BY <1>7, <2>5
    <3>2. CatchTally[q + 1] = Catch!AddObjectCount(t, e)
      BY <1>9, <1>13, <2>5
    <3>3. Least(k, p) = q + 1 /\ k - Least(k, p) = left - 1
      <4> HIDE DEF p, q, left
      <4> QED BY <1>1, <1>13, <2>1, <3>1 DEF Least
    <3>4. Catch!AddObjectCount(t, e).tiny_droplets = tiny + held
      BY <1>10, <2>5
    <3>5. (tiny + held) + (IF k > p THEN CatchHeld(i) ELSE 0) = tiny + held
      <4> HIDE DEF tiny, held, p
      <4> QED BY <2>2, <2>5
    <3> HIDE DEF t, p, q, left, tiny, held
    <3> QED BY <1>4, <3>2, <3>3, <3>4, <3>5
  <2>6. CASE catchMap[i] = "fruit"
    <3> DEFINE e == Delta(TRUE, held)
    <3>1. e.tiny_droplets = held /\ e.fruit = TRUE
      BY DEF Delta
    <3> HIDE DEF e, before
    <3>2. CatchRegularAt(k, i) = Regular(f + 1, d, tiny + held, left - 1)
      <4> HIDE DEF t, f, d, tiny, held, left
      <4> QED BY <1>5, <1>6, <1>10, <2>5, <2>6, <3>1 DEF e
    <3> HIDE DEF f, d, tiny, held, left
    <3> QED BY SMTT(30), <1>11, <2>1, <2>2, <2>3, <2>6, <3>2
  <2>7. CASE catchMap[i] = "droplet"
    <3> DEFINE e == Delta(FALSE, held)
    <3>1. e.tiny_droplets = held /\ e.fruit = FALSE
      BY DEF Delta
    <3> HIDE DEF e, before
    <3>2. CatchRegularAt(k, i) = Regular(f, d + 1, tiny + held, left - 1)
      <4> HIDE DEF t, f, d, tiny, held, left
      <4> QED BY <1>5, <1>6, <1>10, <2>5, <2>7, <3>1 DEF e
    <3> HIDE DEF f, d, tiny, held, left
    <3> QED BY SMTT(30), <1>11, <2>1, <2>2, <2>3, <2>7, <3>2
  <2> QED BY <1>1, <2>4, <2>6, <2>7 DEF Recordable
<1> QED BY <1>1, <1>12, <1>13

(* Both counts agree, whatever passed_objects is.                          *)
LEMMA CatchRegularCount ==
  ASSUME CatchInputs, NEW k \in Nat
  PROVE  Catch!RegularCount(k) = CatchRegularAt(k, Len(catchMap)).count
<1> DEFINE n == Len(catchMap)
           start == [count |-> Catch!NoCount, take |-> k]
           builder[i \in 0 .. Len(catchMap)] ==
             IF i = 0 THEN [count |-> Catch!NoCount, take |-> k]
             ELSE Catch!RecordRegular(builder[i - 1], catchMap[i])
           f == [i \in 0 .. n |-> CatchRegularAt(k, i)]
<1>1. Catch!RegularCount(k) = builder[n].count
  BY DEF Catch!RegularCount
<1>2. CatchRegularAt(k, 0) = start
  <2>1. Len(CatchAll(0)) = 0 /\ CatchHeld(0) = 0
    BY CatchBuilderUnfolds, EmptySeq
  <2>2. Least(k, 0) = 0 /\ k - 0 = k
    BY DEF Least
  <2>3. CatchTally[0] = Catch!NoCount
    BY CatchTallyUnfolds
  <2>4. CatchRegularAt(k, 0) = Regular(0, 0, 0 + 0, k)
    BY <2>1, <2>2, <2>3 DEF CatchRegularAt, Catch!NoCount
  <2> QED BY <2>4 DEF Regular, Catch!NoCount
<1>3. n \in Nat
  BY CatchObjects
<1>4. \A i \in 1 .. n : CatchRegularAt(k, i) = Catch!RecordRegular(CatchRegularAt(k, i - 1), catchMap[i])
  BY CatchRegularStep
<1>5. f = [i \in 0 .. n |-> IF i = 0 THEN start ELSE Catch!RecordRegular(f[i - 1], catchMap[i])]
  <2> HIDE DEF start, n
  <2> QED BY <1>2, <1>3, <1>4
<1> HIDE DEF f
<1>6. builder = [i \in 0 .. n |-> IF i = 0 THEN start
                                  ELSE Catch!RecordRegular(builder[i - 1], catchMap[i])]
  BY <1>5 DEF builder
<1> HIDE DEF builder, start
<1>7. builder[n] = CatchRegularAt(k, n)
  <2> DEFINE S == {i \in 0 .. n : builder[i] = CatchRegularAt(k, i)}
  <2>1. 0 \in S
    BY <1>2, <1>3, <1>6
  <2>2. ASSUME NEW i \in 1 .. n, i - 1 \in S PROVE i \in S
    BY <1>3, <1>4, <1>6, <2>2
  <2> HIDE DEF S, n
  <2>3. \A i \in 0 .. n : i \in S
    BY <1>3, <2>1, <2>2, IntervalIsReached
  <2> QED BY <1>3, <2>3 DEF S
<1> QED BY <1>1, <1>7

(* The first k palpable objects, and with no limit the whole map, for it   *)
(* does not end with a tiny droplet.                                       *)
LEMMA CountsAgree ==
  ASSUME CatchInputs, NEW k \in Nat,
         k <= Catch!Palpables \/ catchMap = <<>> \/ catchMap[Len(catchMap)] # "tiny"
  PROVE  Catch!RegularCount(k) = CatchTally[Least(k, Catch!Palpables)]
<1> DEFINE t == CatchTally[Least(k, Catch!Palpables)]
           extra == IF k > Catch!Palpables THEN CatchHeld(Len(catchMap)) ELSE 0
<1>1. Catch!Palpables \in Nat /\ Len(CatchAll(Len(catchMap))) = Catch!Palpables
  BY CatchPalpables, CatchBuilderUnfolds DEF Catch!Palpables
<1>2. extra = 0
  <2>1. CASE k <= Catch!Palpables
    BY <1>1, <2>1
  <2>2. CASE catchMap = <<>>
    BY <2>2, CatchBuilderUnfolds
  <2>3. CASE catchMap # <<>> /\ catchMap[Len(catchMap)] # "tiny"
    <3>1. Len(catchMap) \in 1 .. Len(catchMap)
      BY <2>3, CatchObjects, EmptySeq DEF CatchInputs
    <3> QED BY <2>3, <3>1, CatchBuilderUnfolds
  <2> QED BY <2>1, <2>2, <2>3
<1>3. t \in Counts
  <2>1. Least(k, Catch!Palpables) \in 0 .. Catch!Palpables
    BY <1>1 DEF Least
  <2> QED BY <2>1, CatchTallyUnfolds
<1>4. CatchRegularAt(k, Len(catchMap)) =
        Regular(t.fruits, t.droplets, t.tiny_droplets + extra, k - Least(k, Catch!Palpables))
  BY <1>1 DEF CatchRegularAt
<1> HIDE DEF t, extra
<1>5. t.tiny_droplets + extra = t.tiny_droplets
  BY <1>2, <1>3 DEF Counts
<1>6. CatchRegularAt(k, Len(catchMap)).count = t
  BY <1>3, <1>4, <1>5 DEF Regular, Counts
<1> QED BY <1>6, CatchRegularCount DEF t

(***************************************************************************)
(* What a call does to the calculator that has passed k palpable objects   *)
(***************************************************************************)

CatchAt(k) == [idx |-> k, processed |-> Interval(1, k - 1), count |-> CatchTally[k]]

CatchIInv ==
  /\ CatchInputs
  /\ catchMap = <<>> \/ catchMap[Len(catchMap)] # "tiny"
  /\ catchCalc.idx \in 0 .. Catch!Palpables
  /\ catchCalc = CatchAt(catchCalc.idx)
  /\ catchAnswer # None => catchAnswer = Catch!RegularAttributes(catchCalc.idx)

(* The difficulty objects are one fewer than the palpable ones.          *)
LEMMA CatchSizes ==
  ASSUME CatchInputs
  PROVE  /\ Catch!DiffCount \in Nat /\ Catch!Palpables \in Nat
         /\ Catch!Palpables = 0 => Catch!DiffCount = 0
         /\ Catch!Palpables > 0 => Catch!Palpables = Catch!DiffCount + 1
BY CatchPalpables DEF Catch!DiffCount, Catch!SaturatingSub

(* Its counters are those of the one-shot calculation of k objects.        *)
LEMMA CatchAttributesAt ==
  ASSUME CatchInputs, NEW k \in 1 .. Catch!Palpables
  PROVE  Catch!Attributes(CatchAt(k)) = Catch!RegularAttributes(k)
<1>1. k \in Nat /\ k >= 1 /\ k <= Catch!Palpables
  BY CatchSizes
<1>2. /\ Least(k, Catch!Palpables) = k /\ Catch!Least(Catch!Palpables, k) = k
      /\ Catch!SaturatingSub(k, 1) = k - 1
  BY <1>1, CatchSizes DEF Least, Catch!Least, Catch!SaturatingSub
<1>3. Catch!RegularCount(k) = CatchTally[k]
  BY <1>1, <1>2, CountsAgree
<1>4. Catch!Interval(1, k - 1) = Interval(1, k - 1)
  BY DEF Catch!Interval, Interval
<1> QED BY <1>2, <1>3, <1>4 DEF CatchAt, Catch!Attributes, Catch!RegularAttributes

(* Counting the next palpable object.                                      *)
LEMMA CatchCountAt ==
  ASSUME CatchInputs, NEW k \in 0 .. Catch!Palpables - 1, NEW log
  PROVE  Catch!CountAt([idx |-> k, processed |-> log, count |-> CatchTally[k]])
           = [idx |-> k + 1, processed |-> log, count |-> CatchTally[k + 1]]
<1>1. k + 1 \in 1 .. Catch!Palpables /\ (k + 1) - 1 = k
  BY CatchSizes
<1> DEFINE was == CatchTally[k]
           is == CatchTally[k + 1]
<1>2. is = Catch!AddObjectCount(was, Catch!GradualCounts[k + 1])
  BY <1>1, CatchTallyUnfolds
<1> HIDE DEF was, is
<1>3. Catch!CountAt([idx |-> k, processed |-> log, count |-> was])
        = [idx |-> k + 1, processed |-> log, count |-> is]
  <2> DEFINE c == [idx |-> k, processed |-> log, count |-> was]
             counted == [c EXCEPT !.count = is]
  <2>1. c.idx = k /\ c.count = was
    OBVIOUS
  <2>2. counted = [idx |-> k, processed |-> log, count |-> is]
    OBVIOUS
  <2>3. [counted EXCEPT !.idx = k + 1] = [idx |-> k + 1, processed |-> log, count |-> is]
    <3> HIDE DEF counted
    <3> QED BY <2>2
  <2>4. [c EXCEPT !.count = is, !.idx = k + 1] = [counted EXCEPT !.idx = k + 1]
    OBVIOUS
  <2> HIDE DEF c, counted
  <2> QED BY <1>2, <2>1, <2>3, <2>4 DEF Catch!CountAt, c
<1> QED BY <1>3 DEF was, is

(* The first object is stepped over ...                                    *)
LEMMA CatchFirst ==
  ASSUME CatchInputs, Catch!Palpables > 0
  PROVE  Catch!CountAt(CatchAt(0)) = CatchAt(1)
<1>1. 0 \in 0 .. Catch!Palpables - 1 /\ 0 + 1 = 1
  BY CatchSizes
<1>2. Interval(1, 0 - 1) = Interval(1, 1 - 1)
  BY DEF Interval
<1>3. \A log : Catch!CountAt([idx |-> 0, processed |-> log, count |-> CatchTally[0]])
                 = [idx |-> 1, processed |-> log, count |-> CatchTally[1]]
  BY <1>1, CatchCountAt
<1> QED BY <1>2, <1>3 DEF CatchAt

(* ... every other one is processed and counted.                           *)
LEMMA CatchProcessAt ==
  ASSUME CatchInputs, NEW k \in 1 .. Catch!Palpables - 1
  PROVE  Catch!CountAt(Catch!Process(CatchAt(k), k)) = CatchAt(k + 1)
<1>1. k \in 0 .. Catch!Palpables - 1 /\ (k + 1) - 1 = k
  BY CatchSizes
<1>2. Append(Interval(1, k - 1), k) = Interval(1, (k + 1) - 1)
  <2>1. k - 1 \in Nat /\ (k - 1) + 1 = k
    BY <1>1
  <2> QED BY <2>1, <1>1, IntervalGrows
<1> DEFINE log == Append(Interval(1, k - 1), k)
           t == CatchTally[k]
<1>3. Catch!Process(CatchAt(k), k) = [idx |-> k, processed |-> log, count |-> t]
  <2> DEFINE before == Interval(1, k - 1)
  <2>1. CatchAt(k) = [idx |-> k, processed |-> before, count |-> t]
    BY DEF CatchAt
  <2> HIDE DEF before, t
  <2>2. CatchAt(k).processed = before
    BY <2>1
  <2>3. Catch!Process(CatchAt(k), k) = [CatchAt(k) EXCEPT !.processed = log]
    BY <2>2 DEF Catch!Process, before
  <2> HIDE DEF log
  <2> QED BY <2>1, <2>3
<1>4. \A l : Catch!CountAt([idx |-> k, processed |-> l, count |-> t])
               = [idx |-> k + 1, processed |-> l, count |-> CatchTally[k + 1]]
  BY <1>1, CatchCountAt
<1> HIDE DEF log, t
<1> QED BY <1>2, <1>3, <1>4 DEF CatchAt, log

(* next() passes one more object while one is left, and then nothing.      *)
LEMMA CatchNextAt ==
  ASSUME CatchInputs, NEW k \in 0 .. Catch!Palpables
  PROVE  /\ Catch!HasNext(CatchAt(k)) <=> k < Catch!Palpables
         /\ Catch!NextOn(CatchAt(k)) = CatchAt(Least(k + 1, Catch!Palpables))
<1>1. Catch!HasNext(CatchAt(k)) <=> k < Catch!Palpables
  BY CatchSizes DEF Catch!HasNext, CatchAt
<1>2. CatchAt(k).idx = k
  BY DEF CatchAt
<1>3. CASE k = Catch!Palpables
  <2>1. Least(k + 1, Catch!Palpables) = k
    BY <1>3, CatchSizes DEF Least
  <2> QED BY <1>1, <1>3, <2>1, CatchSizes DEF Catch!NextOn
<1>4. CASE k < Catch!Palpables /\ k = 0
  <2>1. Least(k + 1, Catch!Palpables) = 1
    BY <1>4, CatchSizes DEF Least
  <2> QED BY <1>1, <1>2, <1>4, <2>1, CatchFirst DEF Catch!NextOn
<1>5. CASE k < Catch!Palpables /\ k # 0
  <2>1. Least(k + 1, Catch!Palpables) = k + 1 /\ k \in 1 .. Catch!Palpables - 1
    <3>1. Catch!Palpables \in Nat
      BY CatchSizes
    <3> QED BY <1>5, <3>1 DEF Least
  <2> QED BY <1>1, <1>2, <1>5, <2>1, CatchProcessAt DEF Catch!NextOn
<1> QED BY <1>1, <1>3, <1>4, <1>5, CatchSizes

(* Where nth(n) skips to: never onto the last step.                        *)
CatchSkipTo(k, n) ==
  IF Catch!DiffCount + 1 - k >= 1 THEN k + Least(n, Catch!DiffCount - k) ELSE k

(* Skipping passes the objects one by one.                                 *)
LEMMA CatchSkipAt ==
  ASSUME CatchInputs, NEW k \in 0 .. Catch!Palpables, NEW n \in Nat
  PROVE  /\ Catch!SkipOn(CatchAt(k), n) = CatchAt(CatchSkipTo(k, n))
         /\ CatchSkipTo(k, n) \in k .. Catch!Palpables
         /\ k < Catch!Palpables => CatchSkipTo(k, n) < Catch!Palpables
<1> DEFINE c     == CatchAt(k)
           want  == Catch!Wanted(c, n)
           first == IF c.idx = 0 /\ want > 0 THEN 1 ELSE 0
           loops == Catch!Least(want - first, Catch!SaturatingSub(Catch!DiffCount, Catch!SkipFrom(c)))
           start == IF first = 1 THEN Catch!CountAt(c) ELSE c
           Step(p, i) == Catch!CountAt(Catch!Process(p, Catch!SkipFrom(c) + i))
           skip[i \in 0 .. loops] == IF i = 0 THEN start ELSE Step(skip[i - 1], i)
           f == [i \in 0 .. loops |-> CatchAt(k + first + i)]
<1>1. Catch!SkipOn(c, n) = skip[loops]
  BY DEF Catch!SkipOn
<1>2. c.idx = k
  BY DEF CatchAt
<1> HIDE DEF c
<1>3. /\ want \in Nat /\ k + want = CatchSkipTo(k, n)
      /\ k + want <= Catch!Palpables
      /\ want > 0 => k + want <= Catch!DiffCount /\ Catch!Palpables = Catch!DiffCount + 1
      /\ k < Catch!Palpables => k + want < Catch!Palpables
  <2>1. want = IF Catch!DiffCount + 1 - k >= 1 THEN Least(n, Catch!DiffCount - k) ELSE 0
    BY <1>2, CatchSizes
    DEF Catch!Wanted, Catch!Remaining, Catch!Least, Catch!SaturatingSub, Least
  <2> HIDE DEF want
  <2> QED BY <2>1, CatchSizes DEF CatchSkipTo, Least
<1> HIDE DEF want
<1>4. Catch!SkipFrom(c) = IF k = 0 THEN 0 ELSE k - 1
  BY <1>2, CatchSizes DEF Catch!SkipFrom, Catch!SaturatingSub
<1>5. loops \in Nat /\ loops = want - first
  BY <1>2, <1>3, <1>4, CatchSizes DEF Catch!Least, Catch!SaturatingSub
<1>6. first \in {0, 1} /\ (k > 0 => first = 0) /\ (first = 0 /\ k = 0 => want = 0)
      /\ (first = 1 => Catch!Palpables > 0)
  BY <1>2, <1>3, CatchSizes
<1> HIDE DEF first, loops
<1>7. start = CatchAt(k + first)
  <2>1. CASE first = 1
    <3>1. k = 0 /\ Catch!Palpables > 0 /\ k + first = 1
      BY <2>1, <1>6, CatchSizes
    <3> QED BY <2>1, <3>1, CatchFirst DEF c
  <2>2. CASE first = 0
    BY <2>2, <1>6, CatchSizes DEF c, CatchAt
  <2> QED BY <2>1, <2>2, <1>6
<1>8. ASSUME NEW i \in 1 .. loops
      PROVE  Step(CatchAt(k + first + i - 1), i) = CatchAt(k + first + i)
  <2> DEFINE j == k + first + i - 1
  <2>1. j \in 1 .. Catch!Palpables - 1 /\ Catch!SkipFrom(c) + i = j /\ j + 1 = k + first + i
    BY <1>3, <1>4, <1>5, <1>6, CatchSizes
  <2> HIDE DEF j
  <2>2. Catch!CountAt(Catch!Process(CatchAt(j), j)) = CatchAt(j + 1)
    BY <2>1, CatchProcessAt
  <2> QED BY <2>1, <2>2 DEF j
<1> HIDE DEF start, Step
<1>9. f = [i \in 0 .. loops |-> IF i = 0 THEN start ELSE Step(f[i - 1], i)]
  <2>1. f[0] = CatchAt(k + first) /\ \A i \in 1 .. loops : f[i - 1] = CatchAt(k + first + i - 1)
    BY <1>5, <1>6
  <2> QED BY <1>5, <1>7, <1>8, <2>1
<1> HIDE DEF f
<1>10. skip = [i \in 0 .. loops |-> IF i = 0 THEN start ELSE Step(skip[i - 1], i)]
  BY <1>9 DEF skip
<1> HIDE DEF skip
<1>11. skip[loops] = CatchAt(k + first + loops)
  <2> DEFINE S == {i \in 0 .. loops : skip[i] = CatchAt(k + first + i)}
  <2>1. 0 \in S
    BY <1>5, <1>6, <1>7, <1>10
  <2>2. ASSUME NEW i \in 1 .. loops, i - 1 \in S PROVE i \in S
    <3>1. k + first + (i - 1) = k + first + i - 1
      BY <1>6
    <3>2. skip[i - 1] = CatchAt(k + first + i - 1)
      BY <2>2, <3>1
    <3> QED BY <1>5, <1>8, <1>10, <3>2
  <2> HIDE DEF S
  <2>3. \A i \in 0 .. loops : i \in S
    BY <1>5, <2>1, <2>2, IntervalIsReached
  <2> QED BY <1>5, <2>3 DEF S
<1>12. k + first + loops = CatchSkipTo(k, n)
  BY <1>3, <1>5, <1>6
<1> QED BY <1>1, <1>3, <1>11, <1>12, CatchSizes DEF c

(* Each of n more calls of next() passes one more object while one is left.*)
LEMMA CatchAfterNexts ==
  ASSUME CatchInputs, NEW k \in 0 .. Catch!Palpables, NEW n \in Nat
  PROVE  Catch!AfterNexts(CatchAt(k), n) = CatchAt(Least(k + n, Catch!Palpables))
<1> DEFINE after[i \in 0 .. n] == IF i = 0 THEN CatchAt(k) ELSE Catch!NextOn(after[i - 1])
           At(i) == CatchAt(Least(k + i, Catch!Palpables))
           f == [i \in 0 .. n |-> At(i)]
<1>1. Catch!AfterNexts(CatchAt(k), n) = after[n]
  BY DEF Catch!AfterNexts
<1>2. At(0) = CatchAt(k)
  <2>1. Least(k + 0, Catch!Palpables) = k
    BY CatchSizes DEF Least
  <2> QED BY <2>1
<1>3. ASSUME NEW i \in 1 .. n PROVE At(i) = Catch!NextOn(At(i - 1))
  <2> DEFINE j == Least(k + (i - 1), Catch!Palpables)
  <2>1. j \in 0 .. Catch!Palpables
        /\ Least(j + 1, Catch!Palpables) = Least(k + i, Catch!Palpables)
    BY CatchSizes DEF Least
  <2> HIDE DEF j
  <2>2. Catch!NextOn(CatchAt(j)) = CatchAt(Least(j + 1, Catch!Palpables))
    BY <2>1, CatchNextAt
  <2> QED BY <2>1, <2>2 DEF j
<1> HIDE DEF At
<1>4. f = [i \in 0 .. n |-> IF i = 0 THEN CatchAt(k) ELSE Catch!NextOn(f[i - 1])]
  BY <1>2, <1>3
<1> HIDE DEF f
<1>5. after = [i \in 0 .. n |-> IF i = 0 THEN CatchAt(k) ELSE Catch!NextOn(after[i - 1])]
  BY <1>4 DEF after
<1> HIDE DEF after
<1>6. after[n] = At(n)
  <2> DEFINE S == {i \in 0 .. n : after[i] = At(i)}
  <2>1. 0 \in S
    BY <1>2, <1>5
  <2>2. ASSUME NEW i \in 1 .. n, i - 1 \in S PROVE i \in S
    BY <1>3, <1>5, <2>2
  <2> HIDE DEF S
  <2>3. \A i \in 0 .. n : i \in S
    BY <2>1, <2>2, IntervalIsReached
  <2> QED BY <2>3 DEF S
<1> QED BY <1>1, <1>6 DEF At

(***************************************************************************)
(* The invariant                                                           *)
(***************************************************************************)

(* Neither the map nor what is derived from it ever changes.               *)
LEMMA CatchMapStays ==
  ASSUME UNCHANGED catchMap
  PROVE  /\ CatchInputs' = CatchInputs
         /\ Catch!Palpables' = Catch!Palpables
         /\ \A k : CatchAt(k)' = CatchAt(k)
         /\ \A k : Catch!RegularAttributes(k)' = Catch!RegularAttributes(k)
<1>1. Catch!GradualCounts' = Catch!GradualCounts
  BY DEF Catch!GradualCounts
<1>2. Catch!Palpables' = Catch!Palpables
  BY <1>1 DEF Catch!Palpables
<1>3. CatchTally' = CatchTally
  BY <1>1, <1>2 DEF CatchTally
<1>4. \A k : CatchAt(k)' = CatchAt(k)
  BY <1>3 DEF CatchAt
<1>5. ASSUME NEW k PROVE Catch!RegularAttributes(k)' = Catch!RegularAttributes(k)
  BY <1>2 DEF Catch!RegularAttributes, Catch!RegularCount
<1> QED
  BY <1>2, <1>4, <1>5 DEF CatchInputs

(* A fresh calculator has passed no object.                                *)
LEMMA CatchInitIInv ==
  ASSUME CatchInputs, catchMap = <<>> \/ catchMap[Len(catchMap)] # "tiny", Catch!Init
  PROVE  CatchIInv
<1>1. catchCalc = [idx |-> 0, processed |-> <<>>, count |-> Catch!NoCount] /\ catchAnswer = None
  BY DEF Catch!Init
<1>2. CatchTally[0] = Catch!NoCount /\ Interval(1, 0 - 1) = <<>>
  BY CatchTallyUnfolds DEF Interval
<1>3. catchCalc = CatchAt(0) /\ catchCalc.idx = 0 /\ 0 \in 0 .. Catch!Palpables
  BY <1>1, <1>2, CatchSizes DEF CatchAt
<1> QED BY <1>1, <1>3 DEF CatchIInv

(* What a call does: it is a skip (by nothing, for next()) and next().     *)
LEMMA CatchCall ==
  ASSUME CatchIInv, Catch!CallNext \/ \E n \in Nat : Catch!CallNth(n)
  PROVE  \E k \in catchCalc.idx .. Catch!Palpables :
           /\ catchCalc.idx < Catch!Palpables => k < Catch!Palpables
           /\ catchCalc' = CatchAt(Least(k + 1, Catch!Palpables))
           /\ catchAnswer' = IF k < Catch!Palpables
                             THEN Catch!RegularAttributes(k + 1) ELSE None
           /\ UNCHANGED catchMap
<1>1. /\ CatchInputs /\ catchCalc.idx \in 0 .. Catch!Palpables
      /\ catchCalc = CatchAt(catchCalc.idx) /\ Catch!Palpables \in Nat
  BY CatchSizes DEF CatchIInv
<1>2. ASSUME NEW k \in catchCalc.idx .. Catch!Palpables,
             catchCalc.idx < Catch!Palpables => k < Catch!Palpables,
             catchCalc' = Catch!NextOn(CatchAt(k)),
             catchAnswer' = IF Catch!HasNext(CatchAt(k)) THEN Catch!Attributes(catchCalc')
                            ELSE None,
             UNCHANGED catchMap
      PROVE  /\ catchCalc' = CatchAt(Least(k + 1, Catch!Palpables))
             /\ catchAnswer' = IF k < Catch!Palpables
                               THEN Catch!RegularAttributes(k + 1) ELSE None
  <2>1. k \in 0 .. Catch!Palpables
    BY <1>1
  <2>2. /\ catchCalc' = CatchAt(Least(k + 1, Catch!Palpables))
        /\ Catch!HasNext(CatchAt(k)) <=> k < Catch!Palpables
    BY <1>1, <1>2, <2>1, CatchNextAt
  <2>3. CASE k < Catch!Palpables
    <3>1. Least(k + 1, Catch!Palpables) = k + 1 /\ k + 1 \in 1 .. Catch!Palpables
      BY <1>1, <2>1, <2>3 DEF Least
    <3>2. Catch!Attributes(CatchAt(k + 1)) = Catch!RegularAttributes(k + 1)
      BY <1>1, <3>1, CatchAttributesAt
    <3> QED BY <1>2, <2>2, <2>3, <3>1, <3>2
  <2>4. CASE ~(k < Catch!Palpables)
    BY <1>2, <2>2, <2>4
  <2> QED BY <2>3, <2>4
<1>3. CASE Catch!CallNext
  <2>1. catchCalc.idx \in catchCalc.idx .. Catch!Palpables
    BY <1>1
  <2> QED BY <1>1, <1>2, <1>3, <2>1 DEF Catch!CallNext
<1>4. ASSUME NEW n \in Nat, Catch!CallNth(n)
      PROVE  \E k \in catchCalc.idx .. Catch!Palpables :
               /\ catchCalc.idx < Catch!Palpables => k < Catch!Palpables
               /\ catchCalc' = Catch!NextOn(CatchAt(k))
               /\ catchAnswer' = IF Catch!HasNext(CatchAt(k)) THEN Catch!Attributes(catchCalc')
                                 ELSE None
               /\ UNCHANGED catchMap
  <2> DEFINE k == CatchSkipTo(catchCalc.idx, n)
  <2>1. /\ Catch!SkipOn(catchCalc, n) = CatchAt(k)
        /\ k \in catchCalc.idx .. Catch!Palpables
        /\ catchCalc.idx < Catch!Palpables => k < Catch!Palpables
    BY <1>1, <1>4, CatchSkipAt
  <2> HIDE DEF k
  <2> QED BY <1>4, <2>1 DEF Catch!CallNth, Catch!NthOn
<1> QED BY <1>2, <1>3, <1>4

(* Every call keeps the inductive invariant.                               *)
LEMMA CatchNextIInv ==
  ASSUME CatchIInv, Catch!CallNext \/ \E n \in Nat : Catch!CallNth(n)
  PROVE  CatchIInv'
<1>1. PICK k \in catchCalc.idx .. Catch!Palpables :
        /\ catchCalc' = CatchAt(Least(k + 1, Catch!Palpables))
        /\ catchAnswer' = IF k < Catch!Palpables
                          THEN Catch!RegularAttributes(k + 1) ELSE None
        /\ UNCHANGED catchMap
  BY CatchCall
<1> DEFINE to == Least(k + 1, Catch!Palpables)
<1>2. CatchInputs /\ Catch!Palpables \in Nat /\ k \in 0 .. Catch!Palpables
  BY CatchSizes DEF CatchIInv
<1>3. to \in 0 .. Catch!Palpables /\ (k < Catch!Palpables => to = k + 1)
  BY <1>2 DEF Least
<1>4. catchCalc'.idx = to
  BY <1>1 DEF CatchAt
<1> HIDE DEF to
<1>5. /\ catchCalc'.idx \in 0 .. Catch!Palpables
      /\ catchCalc' = CatchAt(catchCalc'.idx)
      /\ catchAnswer' # None => catchAnswer' = Catch!RegularAttributes(catchCalc'.idx)
  BY <1>1, <1>3, <1>4 DEF to
<1>6. /\ CatchInputs' = CatchInputs
      /\ Catch!Palpables' = Catch!Palpables
      /\ \A j : CatchAt(j)' = CatchAt(j)
      /\ \A j : Catch!RegularAttributes(j)' = Catch!RegularAttributes(j)
  BY <1>1, CatchMapStays
<1>7. CatchAt(catchCalc.idx)' = CatchAt(catchCalc'.idx)
  BY <1>6
<1>8. Catch!RegularAttributes(catchCalc.idx)' = Catch!RegularAttributes(catchCalc'.idx)
  BY <1>6
<1>9. catchMap' = catchMap
  BY <1>1
<1> QED BY <1>2, <1>5, <1>6, <1>7, <1>8, <1>9 DEF CatchIInv

(* So do the calls of other calculators.                                   *)
LEMMA CatchStaysIInv ==
  ASSUME CatchIInv, UNCHANGED <<catchMap, catchCalc, catchAnswer>>
  PROVE  CatchIInv'
BY CatchMapStays DEF CatchIInv

(***************************************************************************)
(* The properties                                                          *)
(***************************************************************************)

(* The builder of deltas adds one delta for a palpable object.             *)
LEMMA PalpablesAreObjects ==
  ASSUME CatchInputs
  PROVE  Catch!Palpables <= Len(catchMap)
<1> DEFINE n == Len(catchMap)
           S == {i \in 0 .. n : Len(CatchAll(i)) <= i}
<1>1. n \in Nat
  BY CatchObjects
<1>2. 0 \in S
  BY <1>1, CatchBuilderUnfolds, EmptySeq
<1>3. ASSUME NEW i \in 1 .. n, i - 1 \in S PROVE i \in S
  <2> DEFINE before == CatchAll(i - 1)
             held == CatchHeld(i - 1)
  <2>1. i - 1 \in 0 .. n /\ i \in 0 .. n /\ catchMap[i] \in Recordable
    BY <1>1, CatchObjects
  <2>2. before \in Seq(Deltas) /\ held \in Nat
    BY <2>1, CatchBuilderUnfolds
  <2>3. Delta(TRUE, held) \in Deltas /\ Delta(FALSE, held) \in Deltas
    BY <2>2 DEF Delta, Deltas
  <2>4. CatchAll(i) \in {before, Append(before, Delta(TRUE, held)), Append(before, Delta(FALSE, held))}
    BY <2>1, CatchBuilderUnfolds DEF Recordable
  <2>5. Len(before) <= i - 1
    BY <1>3
  <2> HIDE DEF before, held
  <2>6. \A d \in Deltas : Len(Append(before, d)) = Len(before) + 1
    BY <2>2, AppendProperties
  <2>7. Len(before) \in Nat
    BY <2>2
  <2>8. Len(CatchAll(i)) \in {Len(before), Len(before) + 1}
    BY <2>3, <2>4, <2>6
  <2> QED BY <1>1, <2>1, <2>5, <2>7, <2>8
<1> HIDE DEF S
<1>4. \A i \in 0 .. n : i \in S
  BY <1>1, <1>2, <1>3, IntervalIsReached
<1>5. n \in S
  BY <1>1, <1>4
<1>6. Catch!Palpables = Len(CatchAll(n))
  BY CatchBuilderUnfolds DEF Catch!Palpables
<1> QED BY <1>5, <1>6 DEF S

(* nth(n) ends where n + 1 calls of next() end, len() tells how many more  *)
(* calls of next() return Some, and the last one has counted the whole map.*)
LEMMA CatchNthsAndLen ==
  ASSUME CatchIInv
  PROVE  Catch!NthIsRepeatedNext /\ Catch!LenTellsAnswers /\ Catch!LastIsTheWholeMap
<1> DEFINE k == catchCalc.idx
<1>1. /\ CatchInputs /\ k \in 0 .. Catch!Palpables /\ catchCalc = CatchAt(k)
      /\ Catch!Palpables \in Nat /\ Catch!DiffCount \in Nat
      /\ Catch!Palpables = 0 => Catch!DiffCount = 0
      /\ Catch!Palpables > 0 => Catch!Palpables = Catch!DiffCount + 1
  BY CatchSizes DEF CatchIInv
<1>2. Catch!Remaining(catchCalc) = Catch!DiffCount + 1 - k
  BY DEF Catch!Remaining
<1> HIDE DEF k
<1>3. ASSUME NEW n \in Skips
      PROVE  Catch!NthOn(catchCalc, n) =
               Catch!AfterNexts(catchCalc,
                 Catch!Least(n, Catch!SaturatingSub(Catch!Remaining(catchCalc), 1)) + 1)
  <2> DEFINE want == Catch!Least(n, Catch!SaturatingSub(Catch!Remaining(catchCalc), 1))
             j    == CatchSkipTo(k, n)
  <2>1. n \in Nat
    BY SkipsAssumption
  <2>2. want \in Nat /\ k + want = j
    BY <1>1, <1>2, <2>1 DEF Catch!Least, Catch!SaturatingSub, CatchSkipTo, Least
  <2>3. /\ Catch!SkipOn(catchCalc, n) = CatchAt(j)
        /\ j \in k .. Catch!Palpables
    BY <1>1, <2>1, CatchSkipAt
  <2> HIDE DEF j, want
  <2>4. j \in 0 .. Catch!Palpables /\ want + 1 \in Nat /\ k + (want + 1) = j + 1
    BY <1>1, <2>2, <2>3
  <2>5. Catch!NthOn(catchCalc, n) = CatchAt(Least(j + 1, Catch!Palpables))
    BY <1>1, <2>3, <2>4, CatchNextAt DEF Catch!NthOn
  <2>6. Catch!AfterNexts(CatchAt(k), want + 1) = CatchAt(Least(k + (want + 1), Catch!Palpables))
    BY <1>1, <2>4, CatchAfterNexts
  <2> QED BY <1>1, <2>4, <2>5, <2>6 DEF want
<1>4. Catch!AnswersLeft = Catch!Palpables - k
  BY <1>1, <1>2 DEF Catch!AnswersLeft
<1>5. ASSUME NEW n \in Nat
      PROVE  Catch!HasNext(Catch!AfterNexts(catchCalc, n)) <=> n < Catch!AnswersLeft
  <2>1. Catch!AfterNexts(catchCalc, n) = CatchAt(Least(k + n, Catch!Palpables))
    BY <1>1, CatchAfterNexts
  <2>2. /\ Least(k + n, Catch!Palpables) \in 0 .. Catch!Palpables
        /\ Least(k + n, Catch!Palpables) < Catch!Palpables <=> n < Catch!AnswersLeft
    BY <1>1, <1>4 DEF Least
  <2> QED BY <1>1, <2>1, <2>2, CatchNextAt
<1>6. k = Catch!Palpables => catchCalc.count = Catch!RegularCount(Len(catchMap) + 1)
  <2>1. /\ Len(catchMap) + 1 \in Nat
        /\ Least(Len(catchMap) + 1, Catch!Palpables) = Catch!Palpables
    BY <1>1, CatchObjects, PalpablesAreObjects DEF Least
  <2>2. catchMap = <<>> \/ catchMap[Len(catchMap)] # "tiny"
    BY DEF CatchIInv
  <2>3. Catch!RegularCount(Len(catchMap) + 1) = CatchTally[Catch!Palpables]
    BY <1>1, <2>1, <2>2, CountsAgree
  <2> QED BY <1>1, <2>3 DEF CatchAt
<1>7. Catch!NthIsRepeatedNext
  BY <1>3 DEF Catch!NthIsRepeatedNext
<1>8. Catch!LenTellsAnswers
  <2>1. Catch!AnswersLeft >= 0
    BY <1>1, <1>4
  <2> QED BY <1>1, <1>5, <2>1 DEF Catch!LenTellsAnswers
<1>9. Catch!LastIsTheWholeMap
  BY <1>6 DEF Catch!LastIsTheWholeMap, k
<1> QED BY <1>7, <1>8, <1>9

(* A step of the composition calls this calculator or leaves it alone.     *)
LEMMA CatchStepOfGradual ==
  ASSUME [GradualStep]_gradualVars
  PROVE  \/ Catch!CallNext \/ \E n \in Nat : Catch!CallNth(n)
         \/ UNCHANGED <<catchMap, catchCalc, catchAnswer>>
<1>1. CASE UNCHANGED gradualVars
  BY <1>1 DEF gradualVars, vars, catchVars
<1>2. CASE DifficultyNext
  BY <1>2 DEF DifficultyNext, CallNext, vars, catchVars
<1>3. ASSUME NEW n \in Nat, DifficultyNth(n)
      PROVE  \/ \E i \in Nat : Catch!CallNth(i)
             \/ UNCHANGED <<catchMap, catchCalc, catchAnswer>>
  BY <1>3 DEF DifficultyNth, CallNth, vars, catchVars
<1>4. GradualStep => DifficultyNext \/ \E n \in Nat : DifficultyNth(n)
  BY SkipsAssumption
  DEF GradualStep, GradualNext, PerformanceNext, PerformanceNth, GradualNth
<1> QED BY <1>1, <1>2, <1>3, <1>4

(* In every behaviour of the calculators, the osu!catch calculator is the  *)
(* one that has passed the objects its position says, and its answer the   *)
(* one-shot calculation of these objects.                                  *)
THEOREM CatchInvariance == GradualSpec => []CatchIInv
<1>1. GradualInit => CatchIInv
  <2> SUFFICES ASSUME GradualInit PROVE CatchIInv
    OBVIOUS
  <2>1. Catch!Init
    BY DEF GradualInit
  <2>2. /\ catchMap \in Seq(Recordable)
        /\ catchMap = <<>> \/ catchMap[Len(catchMap)] # "tiny"
    <3>1. catchMap \in CatchMaps \/ catchMap = <<>>
      BY DEF GradualInit
    <3>2. <<>> \in Seq(Recordable)
      OBVIOUS
    <3> QED BY <3>1, <3>2, CatchMapsAssumption DEF Recordable
  <2> QED BY <2>1, <2>2, CatchInitIInv DEF CatchInputs
<1>2. CatchIInv /\ [GradualStep]_gradualVars => CatchIInv'
  BY CatchStepOfGradual, CatchNextIInv, CatchStaysIInv
<1> QED BY <1>1, <1>2, PTL DEF GradualSpec

(* The calculator implements the iterator of GradualIterator: every answer *)
(* is the one-shot calculation of the objects passed so far, and None is   *)
(* given only once the last one was passed.                                *)
THEOREM CatchRefinement == GradualSpec => Catch!ImplementsIterator
<1>1. GradualInit /\ CatchIInv => Catch!Iterator!Init
  <2> SUFFICES ASSUME GradualInit, CatchIInv PROVE Catch!Iterator!Init
    OBVIOUS
  <2>1. catchCalc.idx = 0 /\ catchAnswer = None
    BY DEF GradualInit, Catch!Init
  <2> QED BY <2>1, CatchSizes DEF CatchIInv, Catch!Iterator!Init
<1>2. CatchIInv /\ [GradualStep]_gradualVars
        => [Catch!Iterator!Next]_(Catch!Iterator!gradualVars)
  <2> SUFFICES ASSUME CatchIInv, [GradualStep]_gradualVars
               PROVE  Catch!Iterator!Next \/ UNCHANGED Catch!Iterator!gradualVars
    OBVIOUS
  <2> DEFINE regular == [k \in 0 .. Catch!Palpables |-> Catch!RegularAttributes(k)]
  <2>1. ASSUME UNCHANGED catchMap
        PROVE  Catch!Palpables' = Catch!Palpables /\ regular' = regular
    BY <2>1, CatchMapStays
  <2>2. CASE Catch!CallNext \/ \E n \in Nat : Catch!CallNth(n)
    <3>1. PICK k \in catchCalc.idx .. Catch!Palpables :
            /\ catchCalc.idx < Catch!Palpables => k < Catch!Palpables
            /\ catchCalc' = CatchAt(Least(k + 1, Catch!Palpables))
            /\ catchAnswer' = IF k < Catch!Palpables
                              THEN Catch!RegularAttributes(k + 1) ELSE None
            /\ UNCHANGED catchMap
      BY <2>2, CatchCall
    <3>2. catchCalc.idx \in 0 .. Catch!Palpables /\ Catch!Palpables \in Nat
      BY CatchSizes DEF CatchIInv
    <3>3. catchCalc'.idx = Least(k + 1, Catch!Palpables)
      BY <3>1 DEF CatchAt
    <3>4. Catch!Palpables' = Catch!Palpables /\ regular' = regular
      BY <2>1, <3>1
    <3>5. CASE k < Catch!Palpables
      <4>1. /\ catchCalc'.idx \in catchCalc.idx + 1 .. Catch!Palpables
            /\ catchCalc'.idx \in 0 .. Catch!Palpables
            /\ catchCalc'.idx = k + 1
        BY <3>2, <3>3, <3>5 DEF Least
      <4>2. catchAnswer' = regular[catchCalc'.idx]
        BY <3>1, <3>5, <4>1
      <4> HIDE DEF regular
      <4>3. Catch!Iterator!Advance(catchCalc'.idx)
        BY <3>4, <4>1, <4>2 DEF Catch!Iterator!Advance, regular
      <4> QED BY <4>1, <4>3 DEF Catch!Iterator!Next
    <3>6. CASE ~(k < Catch!Palpables)
      <4>1. catchCalc.idx = Catch!Palpables /\ catchCalc'.idx = catchCalc.idx
        BY <3>1, <3>2, <3>3, <3>6 DEF Least
      <4> QED BY <3>1, <3>4, <3>6, <4>1 DEF Catch!Iterator!Next, Catch!Iterator!Exhausted
    <3> QED BY <3>5, <3>6
  <2>3. CASE UNCHANGED <<catchMap, catchCalc, catchAnswer>>
    BY <2>1, <2>3 DEF Catch!Iterator!gradualVars
  <2> QED BY <2>2, <2>3, CatchStepOfGradual
<1> QED
  BY <1>1, <1>2, CatchInvariance, PTL
  DEF GradualSpec, Catch!ImplementsIterator, Catch!Iterator!Spec

(***************************************************************************)
(* osu!taiko                                                               *)
(***************************************************************************)

TaikoInputs == taikoMap \in Seq(BOOLEAN)

(* The hits among the first i objects.                                     *)
Hits(i) == Taiko!HitsIn[i]

(* What the positions a calculator can be in have in common: its combo     *)
(* counts the hits among the objects it consumed, from the third object on *)
(* idx runs ahead of it by the first two that are no hits, and on a map    *)
(* that starts with two hits it is where a hit has led it, or has seen     *)
(* everything.                                                             *)
TaikoPosition(c) ==
  /\ c.idx < 2 => c.cursor = 0
  /\ Len(taikoMap) >= 3 =>
       /\ c.max_combo = Hits(IF c.idx < 2 THEN c.idx ELSE c.cursor + 2)
       /\ c.idx >= 2 => c.idx + Hits(2) = c.max_combo + 2
  /\ Taiko!StartsWithHits =>
       /\ c.max_combo = c.idx
       /\ c.idx >= 2 => c.cursor = Taiko!DiffCount \/ taikoMap[c.cursor + 2]

(* As many calls of next() return Some on a map of three objects or more.  *)
TaikoSteps == Taiko!TotalHits + 2 - Hits(2)

TaikoCalcs ==
  {c \in [idx : Nat, cursor : 0 .. Taiko!DiffCount, max_combo : Nat] : TaikoPosition(c)}

(* None comes when nothing is left to process, and then for good.          *)
TaikoExhausted(c) == Taiko!DiffCount = 0 \/ (c.idx >= 2 /\ c.cursor = Taiko!DiffCount)

TaikoIInv ==
  /\ TaikoInputs
  /\ taikoCalc \in TaikoCalcs
  /\ taikoAnswer = None /\ taikoCalc.idx > 0 => TaikoExhausted(taikoCalc)
  /\ taikoAnswer # None /\ Taiko!StartsWithHits =>
       taikoAnswer = Taiko!RegularAttributes(taikoCalc.idx)

(***************************************************************************)
(* Counting hits                                                           *)
(***************************************************************************)

(* The number of hits grows by one with every hit and with nothing else. *)
LEMMA HitsUnfold ==
  ASSUME TaikoInputs
  PROVE  /\ Len(taikoMap) \in Nat /\ \A i \in 1 .. Len(taikoMap) : taikoMap[i] \in BOOLEAN
         /\ Hits(0) = 0 /\ \A i \in 0 .. Len(taikoMap) : Hits(i) \in Nat
         /\ \A i \in 1 .. Len(taikoMap) :
              /\ taikoMap[i] => Hits(i) = Hits(i - 1) + 1
              /\ ~taikoMap[i] => Hits(i) = Hits(i - 1)
         /\ \A i \in 0 .. Len(taikoMap) : \A j \in i .. Len(taikoMap) : Hits(i) <= Hits(j)
         /\ Taiko!TotalHits = Hits(Len(taikoMap))
<1> DEFINE n == Len(taikoMap)
           w == [i \in 1 .. n |-> IF taikoMap[i] THEN 1 ELSE 0]
<1>1. n \in Nat /\ \A i \in 1 .. n : taikoMap[i] \in BOOLEAN
  BY ElementOfSeq DEF TaikoInputs
<1>2. w \in [1 .. n -> Nat] /\ \A i \in 1 .. n : w[i] = IF taikoMap[i] THEN 1 ELSE 0
  OBVIOUS
<1> HIDE DEF w
<1>3. PICK f : IsTotal(f, n, w)
  <2> HIDE DEF n
  <2> QED BY <1>1, <1>2, TotalExists
<1>4. f = [i \in 0 .. n |-> IF i = 0 THEN 0 ELSE f[i - 1] + (IF taikoMap[i] THEN 1 ELSE 0)]
  BY SMTT(30), <1>1, <1>2, <1>3 DEF IsTotal
<1>5. Taiko!HitsIn =
        [i \in 0 .. n |-> IF i = 0 THEN 0
                          ELSE Taiko!HitsIn[i - 1] + (IF taikoMap[i] THEN 1 ELSE 0)]
  BY <1>4 DEF Taiko!HitsIn
<1> DEFINE h == Taiko!HitsIn
<1> HIDE DEF h
<1>6. IsTotal(h, n, w)
  BY SMTT(30), <1>1, <1>2, <1>5 DEF IsTotal, h
<1>7. h \in [0 .. n -> Nat] /\ h[0] = 0 /\ \A i \in 1 .. n : h[i] = h[i - 1] + w[i]
  <2> HIDE DEF n
  <2>1. n \in Nat /\ w \in [1 .. n -> Nat]
    BY <1>1, <1>2
  <2> QED BY <1>6, <2>1, TotalIsNatural
<1>8. \A i \in 0 .. n : \A j \in i .. n : h[i] <= h[j]
  <2> HIDE DEF n
  <2> QED BY <1>1, <1>2, <1>7, TotalGrows
<1>9. ASSUME NEW i \in 1 .. n
      PROVE  /\ taikoMap[i] => h[i] = h[i - 1] + 1
             /\ ~taikoMap[i] => h[i] = h[i - 1]
  <2>1. h[i - 1] \in Nat
    BY <1>1, <1>7
  <2> QED BY <1>2, <1>7, <2>1
<1> QED BY <1>1, <1>7, <1>8, <1>9 DEF Hits, h, Taiko!TotalHits

(* Objects that are no hits leave the count alone.                         *)
LEMMA HitsStay ==
  ASSUME TaikoInputs, NEW i \in 0 .. Len(taikoMap), NEW j \in i .. Len(taikoMap),
         \A m \in i + 1 .. j : ~taikoMap[m]
  PROVE  Hits(j) = Hits(i)
<1> DEFINE n == Len(taikoMap)
           S == {m \in 0 .. n : m \in i .. j => Hits(m) = Hits(i)}
<1>1. n \in Nat
  BY HitsUnfold
<1>2. 0 \in S
  BY <1>1
<1>3. ASSUME NEW m \in 1 .. n, m - 1 \in S PROVE m \in S
  <2>1. CASE m \in i + 1 .. j
    <3>1. m - 1 \in i .. j /\ Hits(m) = Hits(m - 1)
      BY <1>1, <2>1, HitsUnfold
    <3> QED BY <1>3, <3>1
  <2>2. CASE m \notin i + 1 .. j
    BY <1>1, <2>2
  <2> QED BY <2>1, <2>2
<1> HIDE DEF S, n
<1>4. \A m \in 0 .. n : m \in S
  BY <1>1, <1>2, <1>3, IntervalIsReached
<1>5. j \in S
  BY <1>1, <1>4 DEF n
<1> QED BY <1>1, <1>5 DEF S

(* A hit adds to the count, so that no other hit has the same number.      *)
LEMMA HitCounts ==
  ASSUME TaikoInputs, NEW i \in 0 .. Len(taikoMap), NEW j \in i + 1 .. Len(taikoMap), taikoMap[j]
  PROVE  Hits(i) < Hits(j)
<1>1. j - 1 \in i .. Len(taikoMap) /\ j \in 1 .. Len(taikoMap)
  BY HitsUnfold
<1>2. Hits(j) = Hits(j - 1) + 1 /\ Hits(i) <= Hits(j - 1) /\ Hits(i) \in Nat /\ Hits(j - 1) \in Nat
  BY <1>1, HitsUnfold
<1> QED BY <1>2

(* The next hit after the cursor.                                          *)
LEMMA NextHitIs ==
  ASSUME TaikoInputs, NEW c, c.cursor \in 0 .. Taiko!DiffCount
  PROVE  /\ Taiko!DiffCount \in Nat
         /\ Taiko!NextHit(c) = 0 => \A d \in c.cursor + 1 .. Taiko!DiffCount : ~taikoMap[d + 2]
         /\ Taiko!NextHit(c) # 0 =>
              /\ Taiko!NextHit(c) \in c.cursor + 1 .. Taiko!DiffCount
              /\ taikoMap[Taiko!NextHit(c) + 2]
              /\ \A d \in c.cursor + 1 .. Taiko!NextHit(c) - 1 : ~taikoMap[d + 2]
<1> DEFINE ahead == {d \in c.cursor + 1 .. Taiko!DiffCount : taikoMap[d + 2]}
<1>1. Taiko!DiffCount \in Nat
  BY HitsUnfold DEF Taiko!DiffCount, Taiko!SaturatingSub
<1>2. CASE ahead = {}
  <2>1. Taiko!NextHit(c) = 0
    BY <1>2 DEF Taiko!NextHit
  <2> QED BY <1>1, <1>2, <2>1
<1>3. CASE ahead # {}
  <2>1. \E d \in ahead : \A e \in ahead : d <= e
    <3>1. ahead \subseteq Nat
      BY <1>1
    <3> HIDE DEF ahead
    <3> QED BY <1>3, <3>1, SmallestExists
  <2>2. Taiko!NextHit(c) = CHOOSE d \in ahead : \A e \in ahead : d <= e
    BY <1>3 DEF Taiko!NextHit
  <2>3. Taiko!NextHit(c) \in ahead /\ \A e \in ahead : Taiko!NextHit(c) <= e
    <3> HIDE DEF ahead
    <3> QED BY <2>1, <2>2
  <2> QED BY <1>1, <2>3
<1> QED BY <1>2, <1>3

(***************************************************************************)
(* next()                                                                  *)
(***************************************************************************)

TaikoCalc(i, u, m) == [idx |-> i, cursor |-> u, max_combo |-> m]

(* Changing one or two of its fields.                                      *)
WithIdx(c, x) == [c EXCEPT !.idx = x]
WithCursor(c, x) == [c EXCEPT !.cursor = x]
WithCombo(c, y) == [c EXCEPT !.max_combo = y]
Moved(c, x, y) == [c EXCEPT !.cursor = x, !.max_combo = y]
Skipped(c, x, y) == [c EXCEPT !.idx = x, !.max_combo = y]

(* What the changes above make of a calculator.                          *)
LEMMA TaikoCalcChanges ==
  /\ \A i, u, m : /\ TaikoCalc(i, u, m).idx = i /\ TaikoCalc(i, u, m).cursor = u
                  /\ TaikoCalc(i, u, m).max_combo = m
  /\ \A i, u, m, x : WithIdx(TaikoCalc(i, u, m), x) = TaikoCalc(x, u, m)
  /\ \A i, u, m, x : WithCursor(TaikoCalc(i, u, m), x) = TaikoCalc(i, x, m)
  /\ \A i, u, m, y : WithCombo(TaikoCalc(i, u, m), y) = TaikoCalc(i, u, y)
  /\ \A i, u, m, x, y : Moved(TaikoCalc(i, u, m), x, y) = TaikoCalc(i, x, y)
  /\ \A i, u, m, x, y : Skipped(TaikoCalc(i, u, m), x, y) = TaikoCalc(x, u, y)
<1>1. ASSUME NEW i, NEW u, NEW m, NEW x
      PROVE  /\ WithIdx(TaikoCalc(i, u, m), x) = TaikoCalc(x, u, m)
             /\ WithCursor(TaikoCalc(i, u, m), x) = TaikoCalc(i, x, m)
             /\ WithCombo(TaikoCalc(i, u, m), x) = TaikoCalc(i, u, x)
  BY DEF TaikoCalc, WithIdx, WithCursor, WithCombo
<1>2. ASSUME NEW c, NEW x, NEW y
      PROVE  /\ Moved(c, x, y) = WithCombo(WithCursor(c, x), y)
             /\ Skipped(c, x, y) = WithCombo(WithIdx(c, x), y)
  BY DEF Moved, Skipped, WithCombo, WithIdx, WithCursor
<1>3. ASSUME NEW i, NEW u, NEW m, NEW x, NEW y
      PROVE  /\ Moved(TaikoCalc(i, u, m), x, y) = TaikoCalc(i, x, y)
             /\ Skipped(TaikoCalc(i, u, m), x, y) = TaikoCalc(x, u, y)
  <2>1. /\ Moved(TaikoCalc(i, u, m), x, y) = WithCombo(TaikoCalc(i, x, m), y)
        /\ Skipped(TaikoCalc(i, u, m), x, y) = WithCombo(TaikoCalc(x, u, m), y)
    BY <1>1, <1>2
  <2> QED BY <1>1, <2>1
<1>4. ASSUME NEW i, NEW u, NEW m
      PROVE  /\ TaikoCalc(i, u, m).idx = i /\ TaikoCalc(i, u, m).cursor = u
             /\ TaikoCalc(i, u, m).max_combo = m
  BY DEF TaikoCalc
<1> QED BY <1>1, <1>3, <1>4

(* A calculator is made of its three fields, in their ranges.            *)
LEMMA TaikoCalcIs ==
  ASSUME NEW c \in TaikoCalcs
  PROVE  /\ c = TaikoCalc(c.idx, c.cursor, c.max_combo)
         /\ c.idx \in Nat /\ c.cursor \in 0 .. Taiko!DiffCount /\ c.max_combo \in Nat
         /\ TaikoPosition(c)
BY DEF TaikoCalcs, TaikoCalc

(* Fields in these relations make a calculator that calls can lead to.   *)
LEMMA IsTaikoCalc ==
  ASSUME NEW i \in Nat, NEW u \in 0 .. Taiko!DiffCount, NEW m \in Nat,
         i < 2 => u = 0,
         Len(taikoMap) >= 3 => /\ m = Hits(IF i < 2 THEN i ELSE u + 2)
                               /\ i >= 2 => i + Hits(2) = m + 2,
         Taiko!StartsWithHits =>
           m = i /\ (i >= 2 => u = Taiko!DiffCount \/ taikoMap[u + 2])
  PROVE  TaikoCalc(i, u, m) \in TaikoCalcs
<1>1. TaikoPosition(TaikoCalc(i, u, m))
  BY DEF TaikoPosition, TaikoCalc
<1>2. TaikoCalc(i, u, m) \in [idx : Nat, cursor : 0 .. Taiko!DiffCount, max_combo : Nat]
  BY DEF TaikoCalc
<1> QED BY <1>1, <1>2 DEF TaikoCalcs

(* A map of three or more objects has difficulty objects for all but two.  *)
LEMMA TaikoSizes ==
  ASSUME TaikoInputs
  PROVE  /\ Taiko!DiffCount \in Nat
         /\ Len(taikoMap) >= 3 => Taiko!DiffCount + 2 = Len(taikoMap) /\ Taiko!DiffCount > 0
         /\ ~(Len(taikoMap) >= 3) => Taiko!DiffCount = 0
         /\ Taiko!StartsWithHits =>
              /\ Len(taikoMap) >= 3 /\ Hits(1) = 1 /\ Hits(2) = 2
              /\ taikoMap[1] /\ taikoMap[2]
              /\ Taiko!TotalHits \in Nat /\ Taiko!TotalHits >= 2
<1>1. Len(taikoMap) \in Nat
  BY HitsUnfold
<1>2. ASSUME Taiko!StartsWithHits
      PROVE  /\ Len(taikoMap) >= 3 /\ Hits(1) = 1 /\ Hits(2) = 2
             /\ taikoMap[1] /\ taikoMap[2]
             /\ Taiko!TotalHits \in Nat /\ Taiko!TotalHits >= 2
  <2>1. Len(taikoMap) >= 3 /\ taikoMap[1] /\ taikoMap[2]
    BY <1>2 DEF Taiko!StartsWithHits
  <2>2. /\ 1 \in 1 .. Len(taikoMap) /\ 2 \in 1 .. Len(taikoMap) /\ 2 \in 0 .. Len(taikoMap)
        /\ Len(taikoMap) \in 2 .. Len(taikoMap) /\ Len(taikoMap) \in 0 .. Len(taikoMap)
        /\ 1 - 1 = 0 /\ 2 - 1 = 1
    BY <1>1, <2>1
  <2>3. Hits(1) = 0 + 1 /\ Hits(2) = Hits(1) + 1
    BY <2>1, <2>2, HitsUnfold
  <2>4. Hits(2) <= Hits(Len(taikoMap)) /\ Hits(Len(taikoMap)) \in Nat
    BY <2>2, HitsUnfold
  <2> QED BY <2>1, <2>3, <2>4, HitsUnfold
<1> DEFINE n == Len(taikoMap)
<1>3. /\ Taiko!DiffCount \in Nat
      /\ n >= 3 => Taiko!DiffCount + 2 = n /\ Taiko!DiffCount > 0
      /\ ~(n >= 3) => Taiko!DiffCount = 0
  <2>1. Taiko!DiffCount = IF n >= 2 THEN n - 2 ELSE 0
    BY DEF Taiko!DiffCount, Taiko!SaturatingSub
  <2>2. n \in Nat
    BY <1>1
  <2> HIDE DEF n
  <2> QED BY <2>1, <2>2
<1> QED BY <1>2, <1>3

(* Up to the second object the combo counts the hits among them.           *)
TaikoStart(i) == TaikoCalc(i, 0, Hits(i))

(* There is one calculator for each of the first two objects.            *)
LEMMA TaikoStartIs ==
  ASSUME TaikoInputs, Len(taikoMap) >= 3
  PROVE  /\ \A c \in TaikoCalcs : c.idx < 2 => c = TaikoStart(c.idx)
         /\ \A i \in 0 .. 2 : TaikoStart(i) \in TaikoCalcs
<1>1. ASSUME NEW c \in TaikoCalcs, c.idx < 2 PROVE c = TaikoStart(c.idx)
  <2>1. c.cursor = 0 /\ c.max_combo = Hits(c.idx)
    BY <1>1, TaikoCalcIs DEF TaikoPosition
  <2> QED BY <2>1, TaikoCalcIs DEF TaikoStart
<1>2. ASSUME NEW i \in 0 .. 2 PROVE TaikoStart(i) \in TaikoCalcs
  <2>1. i \in 0 .. Len(taikoMap) /\ i \in Nat
    BY HitsUnfold
  <2>2. Hits(i) \in Nat /\ 0 \in 0 .. Taiko!DiffCount
    BY <2>1, HitsUnfold, TaikoSizes
  <2>3. /\ Hits(i) = Hits(IF i < 2 THEN i ELSE 0 + 2)
        /\ i >= 2 => i + Hits(2) = Hits(i) + 2
    BY <2>2
  <2>4. Taiko!StartsWithHits => Hits(i) = i
    <3>1. i = 0 \/ i = 1 \/ i = 2
      OBVIOUS
    <3> QED BY <3>1, TaikoSizes, HitsUnfold
  <2>5. Taiko!StartsWithHits => taikoMap[0 + 2]
    BY TaikoSizes
  <2> QED BY <2>1, <2>2, <2>3, <2>4, <2>5, IsTaikoCalc DEF TaikoStart
<1> QED BY <1>1, <1>2

(* One or two of the first two objects are stepped over.                   *)
LEMMA TaikoFirst ==
  ASSUME TaikoInputs, Len(taikoMap) >= 3, NEW i \in 0 .. 1, NEW k \in 1 .. 2 - i
  PROVE  /\ Taiko!FirstCombos(TaikoStart(i), i + k) = Hits(i + k)
         /\ Skipped(TaikoStart(i), i + k, Hits(i + k)) = TaikoStart(i + k)
         /\ WithIdx(WithCombo(TaikoStart(i), Hits(i + k)), i + k) = TaikoStart(i + k)
<1>1. Taiko!FirstCombos(TaikoStart(i), i + k) = Hits(i + k)
  <2>1. TaikoStart(i).max_combo = Hits(i)
    BY DEF TaikoStart, TaikoCalc
  <2>2. /\ 1 \in 1 .. Len(taikoMap) /\ 2 \in 1 .. Len(taikoMap)
        /\ 1 - 1 = 0 /\ 2 - 1 = 1 /\ Len(taikoMap) >= 1 /\ Len(taikoMap) >= 2
    BY HitsUnfold
  <2>3. /\ taikoMap[1] => Hits(1) = 1
        /\ ~taikoMap[1] => Hits(1) = 0
        /\ taikoMap[2] => Hits(2) = Hits(1) + 1
        /\ ~taikoMap[2] => Hits(2) = Hits(1)
        /\ Hits(0) = 0
    BY <2>2, HitsUnfold
  <2>4. (Taiko!IsHit(1) <=> taikoMap[1]) /\ (Taiko!IsHit(2) <=> taikoMap[2])
    BY <2>2, HitsUnfold DEF Taiko!IsHit
  <2>5. \/ i = 0 /\ i + k = 1
        \/ i = 0 /\ i + k = 2
        \/ i = 1 /\ i + k = 2
    OBVIOUS
  <2> DEFINE one == taikoMap[1]
             two == taikoMap[2]
             to == i + k
  <2>6. Taiko!FirstCombos(TaikoStart(i), to)
          = IF to = 2 /\ one /\ two THEN 2 ELSE IF one \/ (to = 2 /\ two) THEN 1 ELSE Hits(i)
    BY <2>1, <2>4 DEF Taiko!FirstCombos
  <2> HIDE DEF one, two
  <2>7. CASE to = 1
    BY <2>3, <2>5, <2>6, <2>7 DEF one, two
  <2>8. CASE to = 2
    BY <2>3, <2>5, <2>6, <2>8 DEF one, two
  <2> QED BY <2>5, <2>7, <2>8
<1> QED BY <1>1, TaikoCalcChanges DEF TaikoStart

(* After them the difficulty objects are processed up to the next hit, or  *)
(* all of them when there is none.                                         *)
LEMMA TaikoProcess ==
  ASSUME TaikoInputs, NEW c \in TaikoCalcs, c.idx >= 2
  PROVE  /\ Taiko!NextHit(c) = 0 =>
              /\ Taiko!ProcessHit(c) = TaikoCalc(c.idx, Taiko!DiffCount, c.max_combo)
              /\ Taiko!ProcessHit(c) \in TaikoCalcs
         /\ Taiko!NextHit(c) # 0 =>
              /\ WithIdx(Taiko!ProcessHit(c), c.idx + 1)
                   = TaikoCalc(c.idx + 1, Taiko!NextHit(c), c.max_combo + 1)
              /\ WithIdx(Taiko!ProcessHit(c), c.idx + 1) \in TaikoCalcs
              /\ taikoMap[Taiko!NextHit(c) + 2] /\ Len(taikoMap) >= 3
              /\ Taiko!NextHit(c) \in c.cursor + 1 .. Taiko!DiffCount
<1> DEFINE i == c.idx
           u == c.cursor
           m == c.max_combo
           d == Taiko!NextHit(c)
           n == Len(taikoMap)
<1>1. /\ c = TaikoCalc(i, u, m) /\ i \in Nat /\ i >= 2 /\ ~(i < 2)
      /\ u \in 0 .. Taiko!DiffCount /\ m \in Nat
      /\ Taiko!DiffCount \in Nat /\ n \in Nat
  BY TaikoCalcIs, TaikoSizes, HitsUnfold
<1>2. /\ n >= 3 => m = Hits(u + 2) /\ i + Hits(2) = m + 2
      /\ Taiko!StartsWithHits => m = i /\ (u = Taiko!DiffCount \/ taikoMap[u + 2])
  BY <1>1, TaikoCalcIs DEF TaikoPosition
<1>3. CASE d = 0
  <2>1. Taiko!ProcessHit(c) = TaikoCalc(i, Taiko!DiffCount, m)
    <3>1. Taiko!ProcessHit(c) = WithCursor(c, Taiko!DiffCount)
      BY <1>3 DEF Taiko!ProcessHit, WithCursor
    <3> HIDE DEF i, u, m
    <3> QED BY <1>1, <3>1, TaikoCalcChanges
  <2>2. n >= 3 => m = Hits(Taiko!DiffCount + 2)
    <3> SUFFICES ASSUME n >= 3 PROVE m = Hits(Taiko!DiffCount + 2)
      OBVIOUS
    <3>1. Taiko!DiffCount + 2 = n /\ u + 2 \in 0 .. n /\ n \in u + 2 .. n
      BY <1>1, TaikoSizes
    <3>2. ASSUME NEW e \in u + 2 + 1 .. n PROVE ~taikoMap[e]
      <4>1. e - 2 \in u + 1 .. Taiko!DiffCount /\ (e - 2) + 2 = e
        BY SMTT(30), <1>1, <3>1
      <4> QED BY <1>1, <1>3, <4>1, NextHitIs
    <3> HIDE DEF n, u, m
    <3>3. Hits(n) = Hits(u + 2)
      BY <3>1, <3>2, HitsStay DEF n
    <3> QED BY <1>2, <3>1, <3>3
  <2>3. Taiko!DiffCount \in 0 .. Taiko!DiffCount
    BY <1>1
  <2> HIDE DEF i, m
  <2>4. TaikoCalc(i, Taiko!DiffCount, m) \in TaikoCalcs
    BY <1>1, <1>2, <2>2, <2>3, IsTaikoCalc DEF n
  <2> QED BY <1>3, <2>1, <2>4 DEF i, m
<1>4. CASE d # 0
  <2>1. /\ d \in u + 1 .. Taiko!DiffCount /\ taikoMap[d + 2]
        /\ \A e \in u + 1 .. d - 1 : ~taikoMap[e + 2]
    BY <1>1, <1>4, NextHitIs
  <2>2. /\ n >= 3 /\ Taiko!DiffCount + 2 = n /\ d \in 0 .. Taiko!DiffCount /\ d \in Nat
        /\ u + 2 \in 0 .. n /\ d + 2 \in 1 .. n /\ (d + 2) - 1 \in u + 2 .. n
    <3>1. d \in Nat /\ u \in Nat /\ d >= u + 1 /\ d <= Taiko!DiffCount /\ Taiko!DiffCount > 0
      BY <1>1, <2>1
    <3>2. n >= 3 /\ Taiko!DiffCount + 2 = n
      BY <3>1, TaikoSizes
    <3> HIDE DEF n, u, d
    <3> QED BY <1>1, <3>1, <3>2
  <2>3. ASSUME NEW e \in u + 2 + 1 .. (d + 2) - 1 PROVE ~taikoMap[e]
    <3>1. e - 2 \in u + 1 .. d - 1 /\ (e - 2) + 2 = e
      BY SMTT(30), <1>1, <2>1
    <3> QED BY <2>1, <3>1
  <2>4. Hits((d + 2) - 1) = Hits(u + 2)
    <3> HIDE DEF u, d
    <3> QED BY <2>2, <2>3, HitsStay DEF n
  <2>5. Hits(d + 2) = m + 1
    <3>1. Hits(d + 2) = Hits((d + 2) - 1) + 1
      <4> HIDE DEF d
      <4> QED BY <2>1, <2>2, HitsUnfold DEF n
    <3> QED BY <1>2, <2>2, <2>4, <3>1
  <2>6. WithIdx(Taiko!ProcessHit(c), i + 1) = TaikoCalc(i + 1, d, m + 1)
    <3>1. Taiko!ProcessHit(c) = Moved(c, d, m + 1)
      BY <1>4 DEF Taiko!ProcessHit, Moved
    <3> HIDE DEF i, u, m, d
    <3> QED BY <1>1, <3>1, TaikoCalcChanges
  <2> HIDE DEF i, u, m, d
  <2>7. /\ i + 1 \in Nat /\ ~(i + 1 < 2) /\ m + 1 \in Nat
        /\ (i + 1) + Hits(2) = (m + 1) + 2
    <3>1. Hits(2) \in Nat
      BY <2>2, HitsUnfold DEF n
    <3> QED BY SMTT(30), <1>1, <1>2, <2>2, <3>1
  <2>8. TaikoCalc(i + 1, d, m + 1) \in TaikoCalcs
    BY <1>2, <2>1, <2>2, <2>5, <2>7, IsTaikoCalc
  <2> QED BY <1>4, <2>1, <2>2, <2>6, <2>8 DEF i, m, d, u
<1> QED BY <1>3, <1>4

(* What next() does to any calculator.                                     *)
LEMMA TaikoNext ==
  ASSUME TaikoInputs, NEW c \in TaikoCalcs
  PROVE  /\ Taiko!NextOn(c) \in TaikoCalcs
         /\ Taiko!HasNext(c) => /\ Taiko!NextOn(c).idx = c.idx + 1 /\ Len(taikoMap) >= 3
                                /\ c.idx >= 2 => taikoMap[Taiko!NextOn(c).cursor + 2]
                                /\ c.idx < 2 => Taiko!NextOn(c).cursor = 0
         /\ ~Taiko!HasNext(c) => /\ Taiko!NextOn(c).idx = c.idx
                                 /\ TaikoExhausted(Taiko!NextOn(c))
         /\ TaikoExhausted(c) => ~Taiko!HasNext(c) /\ Taiko!NextOn(c) = c
<1>1. /\ c = TaikoCalc(c.idx, c.cursor, c.max_combo) /\ c.idx \in Nat
      /\ c.cursor \in 0 .. Taiko!DiffCount /\ Taiko!DiffCount \in Nat
  BY TaikoCalcIs, TaikoSizes
<1>2. CASE c.idx < 2 /\ Taiko!DiffCount > 0
  <2>1. Len(taikoMap) >= 3 /\ Taiko!HasNext(c) /\ ~(c.idx >= 2)
    BY <1>1, <1>2, TaikoSizes DEF Taiko!HasNext
  <2>2. c = TaikoStart(c.idx) /\ c.idx \in 0 .. 1
    BY <1>1, <1>2, <2>1, TaikoStartIs
  <2> DEFINE i == c.idx
  <2>3. 1 \in 1 .. 2 - i /\ i + 1 \in 0 .. 2
    BY <2>2
  <2>4. WithIdx(WithCombo(c, Taiko!FirstCombos(c, i + 1)), i + 1) = TaikoStart(i + 1)
    <3> HIDE DEF i
    <3> QED BY <2>1, <2>2, <2>3, TaikoFirst DEF i
  <2>5. Taiko!NextOn(c) = WithIdx(WithCombo(c, Taiko!FirstCombos(c, i + 1)), i + 1)
    <3>1. WithCombo(c, Taiko!FirstCombos(c, i + 1)).idx = i
      BY <2>2, TaikoCalcChanges DEF TaikoStart
    <3> QED BY <2>1, <3>1 DEF Taiko!NextOn, WithIdx, WithCombo
  <2>6. /\ TaikoStart(i + 1) \in TaikoCalcs
        /\ TaikoStart(i + 1).idx = i + 1 /\ TaikoStart(i + 1).cursor = 0
    BY <2>1, <2>3, TaikoStartIs, TaikoCalcChanges DEF TaikoStart
  <2>7. ~TaikoExhausted(c)
    BY <1>2, <2>1 DEF TaikoExhausted
  <2> QED BY <2>1, <2>4, <2>5, <2>6, <2>7
<1>3. CASE c.idx < 2 /\ ~(Taiko!DiffCount > 0)
  <2>1. Taiko!DiffCount = 0 /\ ~Taiko!HasNext(c) /\ ~(c.idx >= 2)
    BY <1>1, <1>3 DEF Taiko!HasNext
  <2>2. Taiko!NextOn(c) = c
    BY <2>1 DEF Taiko!NextOn
  <2> QED BY <2>1, <2>2 DEF TaikoExhausted
<1>4. CASE c.idx >= 2 /\ Taiko!NextHit(c) = 0
  <2>1. ~Taiko!HasNext(c)
    BY <1>4 DEF Taiko!HasNext
  <2>2. Taiko!NextOn(c) = Taiko!ProcessHit(c)
    BY <1>4, <2>1 DEF Taiko!NextOn
  <2>3. /\ Taiko!ProcessHit(c) = TaikoCalc(c.idx, Taiko!DiffCount, c.max_combo)
        /\ Taiko!ProcessHit(c) \in TaikoCalcs
    BY <1>4, TaikoProcess
  <2>4. Taiko!ProcessHit(c).idx = c.idx /\ Taiko!ProcessHit(c).cursor = Taiko!DiffCount
    BY <2>3, TaikoCalcChanges
  <2>5. TaikoExhausted(Taiko!ProcessHit(c))
    BY <1>4, <2>4 DEF TaikoExhausted
  <2>6. TaikoExhausted(c) => c.cursor = Taiko!DiffCount
    BY <1>1, <1>4 DEF TaikoExhausted
  <2>7. TaikoExhausted(c) => Taiko!ProcessHit(c) = c
    BY <1>1, <2>3, <2>6
  <2> QED BY <2>1, <2>2, <2>3, <2>4, <2>5, <2>7
<1>5. CASE c.idx >= 2 /\ Taiko!NextHit(c) # 0
  <2>1. Taiko!HasNext(c)
    BY <1>5 DEF Taiko!HasNext
  <2> DEFINE d == Taiko!NextHit(c)
  <2>2. /\ WithIdx(Taiko!ProcessHit(c), c.idx + 1) = TaikoCalc(c.idx + 1, d, c.max_combo + 1)
        /\ WithIdx(Taiko!ProcessHit(c), c.idx + 1) \in TaikoCalcs
        /\ taikoMap[d + 2] /\ Len(taikoMap) >= 3 /\ d \in c.cursor + 1 .. Taiko!DiffCount
    BY <1>5, TaikoProcess
  <2>3. Taiko!NextOn(c) = WithIdx(Taiko!ProcessHit(c), c.idx + 1)
    <3>1. Taiko!ProcessHit(c) = Moved(c, d, c.max_combo + 1)
      BY <1>5 DEF Taiko!ProcessHit, Moved
    <3>2. Taiko!ProcessHit(c).idx = c.idx
      <4> HIDE DEF d
      <4>1. Moved(c, d, c.max_combo + 1) = TaikoCalc(c.idx, d, c.max_combo + 1)
        BY <1>1, TaikoCalcChanges
      <4> QED BY <3>1, <4>1, TaikoCalcChanges
    <3> QED BY <1>5, <2>1, <3>2 DEF Taiko!NextOn, WithIdx
  <2>4. ~TaikoExhausted(c)
    BY <1>1, <2>2 DEF TaikoExhausted
  <2> HIDE DEF d
  <2>5. /\ TaikoCalc(c.idx + 1, d, c.max_combo + 1).idx = c.idx + 1
        /\ TaikoCalc(c.idx + 1, d, c.max_combo + 1).cursor = d
    BY TaikoCalcChanges
  <2>6. ~(c.idx < 2)
    BY <1>1, <1>5
  <2> QED BY <2>1, <2>2, <2>3, <2>4, <2>5, <2>6
<1> QED BY <1>1, <1>2, <1>3, <1>4, <1>5

(* The objects seen up to a hit.                                           *)
LEMMA TaikoSeen ==
  ASSUME TaikoInputs, NEW i \in 1 .. Len(taikoMap), taikoMap[i]
  PROVE  /\ Taiko!SeenObjects(Hits(i)) = i
         /\ Hits(i) \in 1 .. Taiko!TotalHits /\ Taiko!TotalHits \in Nat
<1>1. /\ 0 \in 0 .. Len(taikoMap) /\ i \in 0 + 1 .. Len(taikoMap) /\ i \in 0 .. Len(taikoMap)
      /\ Len(taikoMap) \in i .. Len(taikoMap) /\ Len(taikoMap) \in 0 .. Len(taikoMap)
  BY HitsUnfold
<1>2. Hits(i) >= 1 /\ Hits(i) <= Taiko!TotalHits /\ Hits(i) \in Nat /\ Taiko!TotalHits \in Nat
  <2>1. Hits(0) < Hits(i) /\ Hits(0) = 0
    BY <1>1, HitCounts, HitsUnfold
  <2>2. Hits(i) <= Hits(Len(taikoMap)) /\ Hits(i) \in Nat /\ Hits(Len(taikoMap)) \in Nat
    BY <1>1, HitsUnfold
  <2> QED BY <2>1, <2>2, HitsUnfold
<1>3. \A n \in 1 .. Len(taikoMap) : taikoMap[n] /\ Hits(n) = Hits(i) => n = i
  <2> SUFFICES ASSUME NEW n \in 1 .. Len(taikoMap), taikoMap[n], Hits(n) = Hits(i), n # i
               PROVE  FALSE
    OBVIOUS
  <2>1. n \in 0 .. Len(taikoMap) /\ (n \in i + 1 .. Len(taikoMap) \/ i \in n + 1 .. Len(taikoMap))
    BY <1>1
  <2>2. Hits(n) < Hits(i) \/ Hits(i) < Hits(n)
    BY <1>1, <2>1, HitCounts
  <2> QED BY <1>2, <2>2
<1>4. i = CHOOSE n \in 1 .. Len(taikoMap) : taikoMap[n] /\ Taiko!HitsIn[n] = Hits(i)
  BY <1>3 DEF Hits
<1> DEFINE k == Hits(i)
<1>5. ~(k = 0) /\ ~(k >= Taiko!TotalHits /\ (k > Taiko!TotalHits \/ Taiko!TotalHits = 0))
  BY <1>2
<1> HIDE DEF k
<1>6. Taiko!SeenObjects(k) = CHOOSE n \in 1 .. Len(taikoMap) : taikoMap[n] /\ Taiko!HitsIn[n] = k
  BY <1>5 DEF Taiko!SeenObjects
<1>7. Hits(i) \in 1 .. Taiko!TotalHits
  BY <1>2
<1> QED BY <1>2, <1>4, <1>6, <1>7 DEF k

(* On a map of three objects or more a step is one of the first two objects*)
(* or a hit after them ...                                                 *)
LEMMA TaikoStepsLeft ==
  ASSUME TaikoInputs, Len(taikoMap) >= 3, NEW c \in TaikoCalcs
  PROVE  /\ c.idx \in 0 .. TaikoSteps /\ TaikoSteps \in Nat
         /\ Taiko!HasNext(c) <=> c.idx < TaikoSteps
<1> DEFINE h == Taiko!TotalHits
<1>1. /\ Len(taikoMap) \in Nat /\ h \in Nat /\ Hits(2) \in Nat /\ Hits(2) <= h
      /\ Taiko!DiffCount > 0 /\ Taiko!DiffCount + 2 = Len(taikoMap)
      /\ c.idx \in Nat /\ c.cursor \in 0 .. Taiko!DiffCount /\ Taiko!DiffCount \in Nat
  <2>1. 2 \in 0 .. Len(taikoMap) /\ Len(taikoMap) \in 2 .. Len(taikoMap)
    BY HitsUnfold
  <2>2. Len(taikoMap) \in 0 .. Len(taikoMap)
    BY HitsUnfold
  <2> QED BY <2>1, <2>2, TaikoSizes, TaikoCalcIs, HitsUnfold
<1>2. TaikoSteps = h + 2 - Hits(2)
  BY DEF TaikoSteps
<1>3. CASE c.idx < 2
  BY SMTT(30), <1>1, <1>2, <1>3 DEF Taiko!HasNext
<1>4. CASE c.idx >= 2
  <2>1. c.idx + Hits(2) = c.max_combo + 2
    BY <1>4, TaikoCalcIs DEF TaikoPosition
  <2>2. CASE Taiko!NextHit(c) = 0
    <3> DEFINE p == TaikoCalc(c.idx, Taiko!DiffCount, c.max_combo)
    <3>1. p \in TaikoCalcs
      BY <1>4, <2>2, TaikoProcess
    <3>2. p.idx = c.idx /\ p.cursor = Taiko!DiffCount /\ p.max_combo = c.max_combo
      BY TaikoCalcChanges
    <3> HIDE DEF p
    <3>3. p.max_combo = Hits(p.cursor + 2)
      BY <1>1, <1>4, <3>1, <3>2, TaikoCalcIs DEF TaikoPosition
    <3>4. c.max_combo = h
      BY <1>1, <3>2, <3>3, HitsUnfold
    <3>5. c.idx = TaikoSteps
      BY SMTT(30), <1>1, <1>2, <2>1, <3>4
    <3> QED BY <1>1, <1>4, <2>2, <3>5 DEF Taiko!HasNext
  <2>3. CASE Taiko!NextHit(c) # 0
    <3> DEFINE d == Taiko!NextHit(c)
               p == TaikoCalc(c.idx + 1, d, c.max_combo + 1)
    <3>1. p \in TaikoCalcs /\ d \in c.cursor + 1 .. Taiko!DiffCount
      BY <1>4, <2>3, TaikoProcess
    <3>2. p.idx = c.idx + 1 /\ p.cursor = d /\ p.max_combo = c.max_combo + 1
      BY TaikoCalcChanges
    <3> HIDE DEF p
    <3>3. p.max_combo = Hits(p.cursor + 2)
      BY SMTT(30), <1>1, <1>4, <3>1, <3>2, TaikoCalcIs DEF TaikoPosition
    <3>4. d + 2 \in 0 .. Len(taikoMap) /\ Len(taikoMap) \in d + 2 .. Len(taikoMap)
      BY SMTT(30), <1>1, <3>1
    <3>5. Hits(d + 2) <= h /\ c.max_combo \in Nat
      BY <3>4, HitsUnfold, TaikoCalcIs
    <3>6. c.max_combo + 1 = Hits(d + 2)
      BY <3>2, <3>3
    <3>7. c.idx < TaikoSteps /\ TaikoSteps \in Nat
      <4> DEFINE x == Hits(d + 2)
                 y == Hits(2)
                 m == c.max_combo
                 k == c.idx
                 n == TaikoSteps
      <4>1. /\ x <= h /\ x = m + 1 /\ k + y = m + 2 /\ n = h + 2 - y /\ y <= h
            /\ h \in Nat /\ y \in Nat /\ m \in Nat /\ k \in Nat
        BY <1>1, <1>2, <2>1, <3>5, <3>6
      <4> HIDE DEF d, h, x, y, m, k, n
      <4>2. k < n /\ n \in Nat
        BY <4>1
      <4> QED BY <4>2 DEF k, n
    <3> QED BY <1>1, <1>4, <2>3, <3>7 DEF Taiko!HasNext
  <2> QED BY <2>2, <2>3
<1> QED BY <1>1, <1>3, <1>4

(* ... so that the steps are the hits if it starts with two of them ...    *)
LEMMA TaikoHasNext ==
  ASSUME TaikoInputs, Taiko!StartsWithHits, NEW c \in TaikoCalcs
  PROVE  /\ c.idx \in 0 .. Taiko!TotalHits /\ Taiko!TotalHits \in Nat
         /\ Taiko!HasNext(c) <=> c.idx < Taiko!TotalHits
<1>1. TaikoSteps = Taiko!TotalHits
  BY TaikoSizes DEF TaikoSteps
<1> QED BY <1>1, TaikoSizes, TaikoStepsLeft

(* ... and each answer is the one-shot calculation of the hits so far.     *)
LEMMA TaikoAttributes ==
  ASSUME TaikoInputs, Taiko!StartsWithHits, NEW c \in TaikoCalcs, Taiko!HasNext(c)
  PROVE  Taiko!Attributes(Taiko!NextOn(c)) = Taiko!RegularAttributes(c.idx + 1)
<1> DEFINE p == Taiko!NextOn(c)
           k == c.idx + 1
<1>1. /\ p \in TaikoCalcs /\ p.idx = k
      /\ c.idx >= 2 => taikoMap[p.cursor + 2]
      /\ c.idx < 2 => p.cursor = 0
  BY TaikoNext
<1> HIDE DEF p
<1>2. /\ p.cursor \in 0 .. Taiko!DiffCount /\ p.max_combo = k /\ c.idx \in Nat
      /\ k >= 2 => p.max_combo = Hits(p.cursor + 2)
  <2>1. c.idx \in Nat /\ p.cursor \in 0 .. Taiko!DiffCount /\ TaikoPosition(p)
    BY <1>1, TaikoCalcIs
  <2>2. Len(taikoMap) >= 3 /\ k \in Nat /\ (k >= 2 => ~(k < 2))
    BY <2>1, TaikoSizes
  <2> HIDE DEF k
  <2> QED BY <1>1, <2>1, <2>2 DEF TaikoPosition
<1>3. /\ Taiko!DiffCount \in Nat /\ Taiko!DiffCount + 2 = Len(taikoMap) /\ Len(taikoMap) \in Nat
      /\ taikoMap[1] /\ taikoMap[2] /\ Hits(1) = 1
  BY TaikoSizes, HitsUnfold
<1>4. PICK e \in 1 .. Len(taikoMap) :
        taikoMap[e] /\ Hits(e) = k /\ p.cursor = Taiko!SaturatingSub(e, 2)
  <2>1. CASE c.idx = 0
    <3>1. 1 \in 1 .. Len(taikoMap) /\ k = 1 /\ Taiko!SaturatingSub(1, 2) = 0
      BY <1>3, <2>1 DEF Taiko!SaturatingSub
    <3> QED BY <1>1, <1>3, <2>1, <3>1
  <2>2. CASE c.idx # 0
    <3> DEFINE e == p.cursor + 2
    <3>1. /\ e \in 1 .. Len(taikoMap) /\ k >= 2
          /\ p.cursor = Taiko!SaturatingSub(e, 2)
      BY SMTT(30), <1>2, <1>3, <2>2 DEF Taiko!SaturatingSub
    <3>2. taikoMap[e]
      <4>1. CASE c.idx >= 2
        BY <1>1, <4>1
      <4>2. CASE c.idx < 2
        BY <1>1, <1>3, <4>2
      <4> QED BY <1>2, <4>1, <4>2
    <3> HIDE DEF k
    <3> QED BY <1>2, <3>1, <3>2
  <2> QED BY <2>1, <2>2
<1>5. Taiko!SeenObjects(k) = e /\ k \in 1 .. Taiko!TotalHits /\ Taiko!TotalHits \in Nat
  <2> HIDE DEF k
  <2> QED BY <1>4, TaikoSeen
<1>6. Taiko!Least(k, Taiko!TotalHits) = k
  BY <1>5 DEF Taiko!Least
<1>7. Taiko!Least(Taiko!DiffCount, Taiko!SaturatingSub(e, 2)) = p.cursor
  BY <1>2, <1>3, <1>4 DEF Taiko!Least
<1>8. Taiko!Attributes(p) = Taiko!RegularAttributes(k)
  <2> HIDE DEF k
  <2> QED BY <1>2, <1>5, <1>6, <1>7 DEF Taiko!Attributes, Taiko!RegularAttributes
<1> QED BY <1>8 DEF p

(***************************************************************************)
(* nth(n)                                                                  *)
(***************************************************************************)

(* Each further call of next() is one more step.                           *)
LEMMA TaikoAfterUnfolds ==
  ASSUME TaikoInputs, NEW c \in TaikoCalcs
  PROVE  /\ Taiko!AfterNexts(c, 0) = c
         /\ \A n \in Nat : /\ Taiko!AfterNexts(c, n) \in TaikoCalcs
                           /\ Taiko!AfterNexts(c, n + 1) = Taiko!NextOn(Taiko!AfterNexts(c, n))
<1> DEFINE Walks(f, n) == /\ f \in [0 .. n -> TaikoCalcs] /\ f[0] = c
                          /\ \A i \in 1 .. n : f[i] = Taiko!NextOn(f[i - 1])
<1>1. ASSUME NEW n \in Nat
      PROVE  \E f : Walks(f, n) /\ Taiko!AfterNexts(c, n) = f[n]
  <2> DEFINE after[i \in 0 .. n] == IF i = 0 THEN c ELSE Taiko!NextOn(after[i - 1])
             step == [i \in 1 .. n |-> [p \in TaikoCalcs |-> Taiko!NextOn(p)]]
  <2>1. Taiko!AfterNexts(c, n) = after[n]
    BY DEF Taiko!AfterNexts
  <2>2. step \in [1 .. n -> [TaikoCalcs -> TaikoCalcs]]
    BY TaikoNext
  <2>3. PICK f : Iterates(f, n, TaikoCalcs, c, step)
    <3> HIDE DEF step
    <3> QED BY <2>2, RecursionExists
  <2>4. Walks(f, n)
    <3>1. /\ f \in [0 .. n -> TaikoCalcs] /\ f[0] = c
          /\ \A i \in 1 .. n : f[i] = step[i][f[i - 1]]
      BY <2>3 DEF Iterates
    <3>2. ASSUME NEW i \in 1 .. n PROVE f[i] = Taiko!NextOn(f[i - 1])
      <4>1. f[i - 1] \in TaikoCalcs
        BY <3>1
      <4> QED BY <3>1, <4>1
    <3> QED BY <3>1, <3>2
  <2>5. f = [i \in 0 .. n |-> IF i = 0 THEN c ELSE Taiko!NextOn(f[i - 1])]
    BY <2>4
  <2>6. after = [i \in 0 .. n |-> IF i = 0 THEN c ELSE Taiko!NextOn(after[i - 1])]
    BY <2>5 DEF after
  <2> HIDE DEF after
  <2>7. \A i \in 0 .. n : after[i] = f[i]
    <3> DEFINE S == {i \in 0 .. n : after[i] = f[i]}
    <3>1. 0 \in S
      BY <2>4, <2>6
    <3>2. ASSUME NEW i \in 1 .. n, i - 1 \in S PROVE i \in S
      BY <2>5, <2>6, <3>2
    <3> HIDE DEF S
    <3>3. \A i \in 0 .. n : i \in S
      BY <3>1, <3>2, IntervalIsReached
    <3> QED BY <3>3 DEF S
  <2> QED BY <2>1, <2>4, <2>7
<1>2. ASSUME NEW n \in Nat, NEW f, NEW g, Walks(f, n), Walks(g, n + 1) PROVE f[n] = g[n]
  <2> DEFINE S == {i \in 0 .. n : f[i] = g[i]}
  <2>1. 0 \in S
    BY <1>2
  <2>2. ASSUME NEW i \in 1 .. n, i - 1 \in S PROVE i \in S
    BY <1>2, <2>2
  <2> HIDE DEF S, Walks
  <2>3. \A i \in 0 .. n : i \in S
    BY <2>1, <2>2, IntervalIsReached
  <2> QED BY <2>3 DEF S
<1>3. Taiko!AfterNexts(c, 0) = c
  <2>1. PICK f : Walks(f, 0) /\ Taiko!AfterNexts(c, 0) = f[0]
    <3> HIDE DEF Walks
    <3> QED BY <1>1
  <2> QED BY <2>1
<1>4. ASSUME NEW n \in Nat
      PROVE  /\ Taiko!AfterNexts(c, n) \in TaikoCalcs
             /\ Taiko!AfterNexts(c, n + 1) = Taiko!NextOn(Taiko!AfterNexts(c, n))
  <2> HIDE DEF Walks
  <2>1. PICK f : Walks(f, n) /\ Taiko!AfterNexts(c, n) = f[n]
    BY <1>1
  <2>2. n + 1 \in Nat /\ n + 1 \in 1 .. n + 1 /\ (n + 1) - 1 = n
    OBVIOUS
  <2>3. PICK g : Walks(g, n + 1) /\ Taiko!AfterNexts(c, n + 1) = g[n + 1]
    BY <1>1, <2>2
  <2>4. f[n] = g[n]
    BY <1>2, <2>1, <2>3
  <2>5. f[n] \in TaikoCalcs /\ g[n + 1] = Taiko!NextOn(g[n])
    BY <2>1, <2>2, <2>3 DEF Walks
  <2> QED BY <2>1, <2>3, <2>4, <2>5
<1> QED BY <1>3, <1>4

(* Calls add up.                                                           *)
LEMMA TaikoAfterAdds ==
  ASSUME TaikoInputs, NEW c \in TaikoCalcs, NEW a \in Nat, NEW n \in Nat
  PROVE  Taiko!AfterNexts(Taiko!AfterNexts(c, a), n) = Taiko!AfterNexts(c, a + n)
<1> DEFINE p == Taiko!AfterNexts(c, a)
           S == {i \in 0 .. n : Taiko!AfterNexts(p, i) = Taiko!AfterNexts(c, a + i)}
<1>1. p \in TaikoCalcs
  BY TaikoAfterUnfolds
<1>2. 0 \in S
  <2>1. a + 0 = a /\ Taiko!AfterNexts(p, 0) = p
    BY <1>1, TaikoAfterUnfolds
  <2> QED BY <2>1
<1>3. ASSUME NEW i \in 1 .. n, i - 1 \in S PROVE i \in S
  <2>1. i - 1 \in Nat /\ (i - 1) + 1 = i /\ a + (i - 1) \in Nat /\ (a + (i - 1)) + 1 = a + i
    OBVIOUS
  <2>2. Taiko!AfterNexts(p, i - 1) = Taiko!AfterNexts(c, a + (i - 1))
    BY <1>3
  <2> HIDE DEF p
  <2>3. Taiko!AfterNexts(p, (i - 1) + 1) = Taiko!NextOn(Taiko!AfterNexts(p, i - 1))
    BY <1>1, <2>1, TaikoAfterUnfolds
  <2>4. Taiko!AfterNexts(c, (a + (i - 1)) + 1)
          = Taiko!NextOn(Taiko!AfterNexts(c, a + (i - 1)))
    <3> DEFINE j == a + (i - 1)
    <3>1. j \in Nat
      BY <2>1
    <3> HIDE DEF j
    <3>2. Taiko!AfterNexts(c, j + 1) = Taiko!NextOn(Taiko!AfterNexts(c, j))
      BY <3>1, TaikoAfterUnfolds
    <3> QED BY <3>2 DEF j
  <2>5. Taiko!AfterNexts(p, i) = Taiko!AfterNexts(c, a + i)
    BY <2>1, <2>2, <2>3, <2>4
  <2> QED BY <2>5 DEF p
<1> HIDE DEF S
<1>4. \A i \in 0 .. n : i \in S
  BY <1>2, <1>3, IntervalIsReached
<1> QED BY <1>4 DEF S

(* A calculator that has processed everything stays as it is.              *)
LEMMA TaikoAfterExhausted ==
  ASSUME TaikoInputs, NEW c \in TaikoCalcs, TaikoExhausted(c), NEW n \in Nat
  PROVE  Taiko!AfterNexts(c, n) = c
<1> DEFINE S == {i \in 0 .. n : Taiko!AfterNexts(c, i) = c}
<1>1. 0 \in S
  BY TaikoAfterUnfolds
<1>2. ASSUME NEW i \in 1 .. n, i - 1 \in S PROVE i \in S
  <2>1. i - 1 \in Nat /\ (i - 1) + 1 = i
    OBVIOUS
  <2>2. Taiko!AfterNexts(c, (i - 1) + 1) = Taiko!NextOn(Taiko!AfterNexts(c, i - 1))
    BY <2>1, TaikoAfterUnfolds
  <2> QED BY <1>2, <2>1, <2>2, TaikoNext
<1> HIDE DEF S
<1>3. \A i \in 0 .. n : i \in S
  BY <1>1, <1>2, IntervalIsReached
<1> QED BY <1>3 DEF S

(* One turn of the outer loop of nth().                                    *)
SkipState(p, ok) == [calc |-> p, ok |-> ok]

SkipTurn(s) ==
  LET p == s.calc
  IN  IF ~s.ok THEN s
      ELSE IF Taiko!NextHit(p) = 0 THEN [calc |-> Taiko!ProcessHit(p), ok |-> FALSE]
      ELSE [calc |-> [Taiko!ProcessHit(p) EXCEPT !.idx = @ + 1], ok |-> TRUE]

(* What a turn does: nothing once it failed, one hit or the failure else. *)
LEMMA SkipTurnIs ==
  ASSUME NEW p
  PROVE  /\ SkipTurn(SkipState(p, FALSE)) = SkipState(p, FALSE)
         /\ Taiko!NextHit(p) = 0 =>
              SkipTurn(SkipState(p, TRUE)) = SkipState(Taiko!ProcessHit(p), FALSE)
         /\ Taiko!NextHit(p) # 0 =>
              SkipTurn(SkipState(p, TRUE))
                = SkipState([Taiko!ProcessHit(p) EXCEPT !.idx = @ + 1], TRUE)
         /\ SkipState(p, FALSE).calc = p /\ SkipState(p, TRUE).calc = p
         /\ SkipState(p, FALSE).ok = FALSE /\ SkipState(p, TRUE).ok = TRUE
<1>1. /\ SkipState(p, FALSE).calc = p /\ SkipState(p, TRUE).calc = p
      /\ SkipState(p, FALSE).ok = FALSE /\ SkipState(p, TRUE).ok = TRUE
  BY DEF SkipState
<1>2. SkipTurn(SkipState(p, FALSE)) = SkipState(p, FALSE)
  BY <1>1 DEF SkipTurn
<1>3. ASSUME Taiko!NextHit(p) = 0
      PROVE  SkipTurn(SkipState(p, TRUE)) = [calc |-> Taiko!ProcessHit(p), ok |-> FALSE]
  BY <1>1, <1>3 DEF SkipTurn
<1>4. ASSUME Taiko!NextHit(p) # 0
      PROVE  SkipTurn(SkipState(p, TRUE))
               = [calc |-> [Taiko!ProcessHit(p) EXCEPT !.idx = @ + 1], ok |-> TRUE]
  BY <1>1, <1>4 DEF SkipTurn
<1> QED BY <1>1, <1>2, <1>3, <1>4 DEF SkipState

(* The loop leads where as many calls of next() lead, and leaves early     *)
(* only when everything was processed.                                     *)
LEMMA TaikoSkipHits ==
  ASSUME TaikoInputs, NEW c \in TaikoCalcs, NEW k \in Nat, k > 0 => c.idx >= 2
  PROVE  /\ Taiko!SkipHits(c, k).calc = Taiko!AfterNexts(c, k)
         /\ ~Taiko!SkipHits(c, k).ok => TaikoExhausted(Taiko!SkipHits(c, k).calc)
<1> DEFINE At(i) == Taiko!AfterNexts(c, i)
           Ok(i) == \A j \in 0 .. i - 1 : Taiko!NextHit(At(j)) # 0
           State(i) == IF Ok(i) THEN SkipState(At(i), TRUE) ELSE SkipState(At(i), FALSE)
           start == SkipState(c, TRUE)
           skip[i \in 0 .. k] ==
             IF i = 0 THEN [calc |-> c, ok |-> TRUE]
             ELSE LET p == skip[i - 1].calc
                  IN  IF ~skip[i - 1].ok THEN skip[i - 1]
                      ELSE IF Taiko!NextHit(p) = 0
                           THEN [calc |-> Taiko!ProcessHit(p), ok |-> FALSE]
                      ELSE [calc |-> [Taiko!ProcessHit(p) EXCEPT !.idx = @ + 1], ok |-> TRUE]
           turns[i \in 0 .. k] == IF i = 0 THEN start ELSE SkipTurn(turns[i - 1])
           f == [i \in 0 .. k |-> State(i)]
<1>1. Taiko!SkipHits(c, k) = skip[k]
  BY DEF Taiko!SkipHits
<1>2. skip = turns
  BY DEF SkipTurn, SkipState
<1> HIDE DEF skip, turns
<1>3. At(0) = c /\ \A i \in Nat : At(i) \in TaikoCalcs /\ At(i + 1) = Taiko!NextOn(At(i))
  BY TaikoAfterUnfolds
<1> HIDE DEF At
<1>4. State(0) = start
  <2>1. Ok(0)
    OBVIOUS
  <2> HIDE DEF Ok
  <2> QED BY <1>3, <2>1
<1>5. \A i \in 0 .. k : k > 0 => At(i).idx >= 2
  <2> DEFINE S == {i \in 0 .. k : k > 0 => At(i).idx >= 2}
  <2>1. 0 \in S
    BY <1>3
  <2>2. ASSUME NEW i \in 1 .. k, i - 1 \in S PROVE i \in S
    <3>1. i - 1 \in Nat /\ (i - 1) + 1 = i
      OBVIOUS
    <3>2. At(i - 1) \in TaikoCalcs /\ At(i) = Taiko!NextOn(At(i - 1))
      BY <1>3, <3>1
    <3>3. At(i).idx = At(i - 1).idx + 1 \/ At(i).idx = At(i - 1).idx
      BY <3>2, TaikoNext
    <3>4. At(i - 1).idx \in Nat
      BY <3>2, TaikoCalcIs
    <3> QED BY <2>2, <3>3, <3>4
  <2> HIDE DEF S
  <2>3. \A i \in 0 .. k : i \in S
    BY <2>1, <2>2, IntervalIsReached
  <2> QED BY <2>3 DEF S
<1>6. ASSUME NEW i \in 0 .. k, ~Ok(i) PROVE TaikoExhausted(At(i))
  <2> DEFINE S == {j \in 0 .. k : ~Ok(j) => TaikoExhausted(At(j))}
  <2>1. 0 \in S
    OBVIOUS
  <2>2. ASSUME NEW j \in 1 .. k, j - 1 \in S PROVE j \in S
    <3> SUFFICES ASSUME ~Ok(j) PROVE TaikoExhausted(At(j))
      OBVIOUS
    <3>1. /\ j - 1 \in Nat /\ (j - 1) + 1 = j /\ j - 1 \in 0 .. k /\ k > 0
          /\ At(j - 1) \in TaikoCalcs /\ At(j) = Taiko!NextOn(At(j - 1))
      <4>1. j - 1 \in Nat /\ (j - 1) + 1 = j /\ j - 1 \in 0 .. k /\ k > 0
        OBVIOUS
      <4> QED BY <1>3, <4>1
    <3>2. CASE ~Ok(j - 1)
      BY <2>2, <3>1, <3>2, TaikoNext
    <3>3. CASE Ok(j - 1)
      <4>1. Taiko!NextHit(At(j - 1)) = 0
        BY <3>1, <3>3
      <4>2. At(j - 1).idx >= 2
        BY <1>5, <3>1
      <4>3. ~Taiko!HasNext(At(j - 1))
        BY <4>1, <4>2 DEF Taiko!HasNext
      <4> QED BY <3>1, <4>3, TaikoNext
    <3> QED BY <3>2, <3>3
  <2> HIDE DEF S
  <2>3. \A j \in 0 .. k : j \in S
    BY <2>1, <2>2, IntervalIsReached
  <2> QED BY <1>6, <2>3 DEF S
<1>7. ASSUME NEW i \in 1 .. k PROVE State(i) = SkipTurn(State(i - 1))
  <2> DEFINE p == At(i - 1)
  <2>1. i - 1 \in Nat /\ (i - 1) + 1 = i /\ i - 1 \in 0 .. k /\ k > 0
    OBVIOUS
  <2>2. p \in TaikoCalcs /\ At(i) = Taiko!NextOn(p) /\ p.idx >= 2
    BY <1>3, <1>5, <2>1
  <2>3. Ok(i) <=> Ok(i - 1) /\ Taiko!NextHit(p) # 0
    BY <2>1
  <2>4. CASE ~Ok(i - 1)
    <3>1. At(i) = p
      BY <1>6, <2>1, <2>2, <2>4, TaikoNext
    <3>2. State(i) = SkipState(p, FALSE) /\ State(i - 1) = SkipState(p, FALSE)
      BY <2>3, <2>4, <3>1
    <3> HIDE DEF State, p
    <3> QED BY <3>2, SkipTurnIs
  <2>5. CASE Ok(i - 1) /\ Taiko!NextHit(p) = 0
    <3>1. At(i) = Taiko!ProcessHit(p)
      BY <2>2, <2>5 DEF Taiko!NextOn, Taiko!HasNext
    <3>2. State(i) = SkipState(Taiko!ProcessHit(p), FALSE) /\ State(i - 1) = SkipState(p, TRUE)
      BY <2>3, <2>5, <3>1
    <3> HIDE DEF State, p
    <3> QED BY <2>5, <3>2, SkipTurnIs
  <2>6. CASE Ok(i - 1) /\ Taiko!NextHit(p) # 0
    <3>1. At(i) = [Taiko!ProcessHit(p) EXCEPT !.idx = @ + 1]
      BY <2>2, <2>6 DEF Taiko!NextOn, Taiko!HasNext
    <3>2. /\ State(i) = SkipState([Taiko!ProcessHit(p) EXCEPT !.idx = @ + 1], TRUE)
          /\ State(i - 1) = SkipState(p, TRUE)
      BY <2>3, <2>6, <3>1
    <3> HIDE DEF State, p
    <3> QED BY <2>6, <3>2, SkipTurnIs
  <2> QED BY <2>4, <2>5, <2>6
<1> HIDE DEF State, start
<1>8. f = [i \in 0 .. k |-> IF i = 0 THEN start ELSE SkipTurn(f[i - 1])]
  BY <1>4, <1>7
<1> HIDE DEF f
<1>9. turns = [i \in 0 .. k |-> IF i = 0 THEN start ELSE SkipTurn(turns[i - 1])]
  BY <1>8 DEF turns
<1>10. turns[k] = State(k)
  <2> DEFINE S == {i \in 0 .. k : turns[i] = State(i)}
  <2>1. 0 \in S
    BY <1>4, <1>9
  <2>2. ASSUME NEW i \in 1 .. k, i - 1 \in S PROVE i \in S
    BY <1>7, <1>9, <2>2
  <2> HIDE DEF S
  <2>3. \A i \in 0 .. k : i \in S
    BY <2>1, <2>2, IntervalIsReached
  <2> QED BY <2>3 DEF S
<1> HIDE DEF Ok
<1>11. State(k).calc = At(k) /\ (~State(k).ok => ~Ok(k))
  <2>1. CASE Ok(k)
    <3>1. State(k) = SkipState(At(k), TRUE)
      BY <2>1 DEF State
    <3> QED BY <3>1, SkipTurnIs
  <2>2. CASE ~Ok(k)
    <3>1. State(k) = SkipState(At(k), FALSE)
      BY <2>2 DEF State
    <3> QED BY <2>2, <3>1, SkipTurnIs
  <2> QED BY <2>1, <2>2
<1>12. ~Ok(k) => TaikoExhausted(At(k))
  BY <1>6 DEF Ok
<1> QED BY <1>1, <1>2, <1>10, <1>11, <1>12 DEF At

(* The first two objects are skipped as next() steps over them.            *)
LEMMA TaikoSkipFirst ==
  ASSUME TaikoInputs, NEW c \in TaikoCalcs, NEW n \in Nat
  PROVE  /\ Taiko!Wanted(c, n) \in Nat
         /\ Taiko!SkippedFirst(c, n) \in 0 .. Taiko!Wanted(c, n)
         /\ Taiko!SkipFirst(c, n) \in TaikoCalcs
         /\ Taiko!SkippedFirst(c, n) < Taiko!Wanted(c, n) => Taiko!SkipFirst(c, n).idx >= 2
         /\ Len(taikoMap) >= 3 =>
              Taiko!SkipFirst(c, n) = Taiko!AfterNexts(c, Taiko!SkippedFirst(c, n))
<1> DEFINE i == c.idx
           w == Taiko!Wanted(c, n)
           k == Taiko!SkippedFirst(c, n)
<1>1. /\ c = TaikoCalc(i, c.cursor, c.max_combo) /\ i \in Nat
      /\ c.cursor \in 0 .. Taiko!DiffCount /\ c.max_combo \in Nat /\ TaikoPosition(c)
      /\ Taiko!DiffCount \in Nat /\ Len(taikoMap) \in Nat
  BY TaikoCalcIs, TaikoSizes, HitsUnfold
<1>2. w \in Nat
  <2>1. Taiko!Remaining(c) \in Int
    <3>1. Taiko!TotalHits \in Nat
      BY HitsUnfold
    <3> QED BY <1>1, <3>1 DEF Taiko!Remaining
  <2> QED BY <2>1 DEF Taiko!Wanted, Taiko!Least, Taiko!SaturatingSub
<1> HIDE DEF w
<1>3. /\ k \in 0 .. w /\ (i >= 2 => k = 0) /\ (i < 2 => k <= 2 - i)
      /\ k < w => i + k >= 2
  BY <1>1, <1>2 DEF Taiko!SkippedFirst, Taiko!Least, w
<1> HIDE DEF k
<1>4. CASE k = 0
  <2>1. Taiko!SkipFirst(c, n) = c
    BY <1>4 DEF Taiko!SkipFirst, k
  <2>2. Taiko!AfterNexts(c, 0) = c
    BY TaikoAfterUnfolds
  <2> QED BY <1>1, <1>2, <1>3, <1>4, <2>1, <2>2 DEF k, w
<1>5. CASE k # 0
  <2> DEFINE y == Taiko!FirstCombos(c, i + k)
  <2>1. k \in Nat /\ i < 2 /\ k \in 1 .. 2 - i /\ i \in 0 .. 1 /\ c.cursor = 0 /\ i + k \in 0 .. 2
    BY <1>1, <1>2, <1>3, <1>5 DEF TaikoPosition
  <2>2. Taiko!SkipFirst(c, n) = Skipped(c, i + k, y)
    BY <1>5 DEF Taiko!SkipFirst, Skipped, k
  <2>3. CASE Len(taikoMap) >= 3
    <3>1. c = TaikoStart(i)
      BY <2>1, <2>3, TaikoStartIs
    <3>2. Skipped(c, i + k, y) = TaikoStart(i + k)
      <4> HIDE DEF i
      <4> QED BY <2>1, <2>3, <3>1, TaikoFirst
    <3>3. TaikoStart(i + k) \in TaikoCalcs /\ TaikoStart(i + k).idx = i + k
      BY <2>1, <2>3, TaikoStartIs, TaikoCalcChanges DEF TaikoStart
    <3>4. ASSUME NEW j \in 0 .. 1 PROVE Taiko!NextOn(TaikoStart(j)) = TaikoStart(j + 1)
      <4> DEFINE p == TaikoStart(j)
      <4>1. p \in TaikoCalcs /\ p.idx = j /\ j \in 0 .. 2
        BY <2>3, TaikoStartIs, TaikoCalcChanges DEF TaikoStart
      <4>2. Taiko!HasNext(p)
        BY <2>3, <4>1, TaikoSizes DEF Taiko!HasNext
      <4>3. /\ Taiko!NextOn(p) \in TaikoCalcs /\ Taiko!NextOn(p).idx = j + 1
            /\ Taiko!NextOn(p).cursor = 0
        <5> HIDE DEF p
        <5>1. p.idx < 2
          BY <4>1
        <5> QED BY <4>1, <4>2, <5>1, TaikoNext
      <4> HIDE DEF p
      <4> DEFINE q == Taiko!NextOn(p)
      <4> HIDE DEF q
      <4>4. q = TaikoCalc(q.idx, q.cursor, q.max_combo) /\ TaikoPosition(q)
        BY <4>3, TaikoCalcIs DEF q
      <4>5. q.max_combo = Hits(j + 1)
        <5>1. q.idx = j + 1 /\ q.cursor = 0 /\ 0 + 2 = 2
          BY <4>3 DEF q
        <5>2. IF j + 1 < 2 THEN TRUE ELSE j + 1 = 2
          OBVIOUS
        <5> QED BY <2>3, <4>4, <5>1, <5>2 DEF TaikoPosition
      <4> QED BY <4>3, <4>4, <4>5 DEF TaikoStart, p, q
    <3>5. Taiko!AfterNexts(c, k) = TaikoStart(i + k)
      <4>1. /\ Taiko!AfterNexts(c, 0) = c
            /\ Taiko!AfterNexts(c, 0 + 1) = Taiko!NextOn(Taiko!AfterNexts(c, 0))
            /\ Taiko!AfterNexts(c, 1 + 1) = Taiko!NextOn(Taiko!AfterNexts(c, 1))
        BY TaikoAfterUnfolds
      <4>2. \/ i = 0 /\ k = 1
            \/ i = 0 /\ k = 2
            \/ i = 1 /\ k = 1
        BY <2>1
      <4>3. /\ Taiko!NextOn(TaikoStart(0)) = TaikoStart(1)
            /\ Taiko!NextOn(TaikoStart(1)) = TaikoStart(2)
        <5>1. 0 \in 0 .. 1 /\ 1 \in 0 .. 1 /\ 0 + 1 = 1 /\ 1 + 1 = 2
          OBVIOUS
        <5>2. /\ Taiko!NextOn(TaikoStart(0)) = TaikoStart(0 + 1)
              /\ Taiko!NextOn(TaikoStart(1)) = TaikoStart(1 + 1)
          BY <3>4, <5>1
        <5> QED BY <5>1, <5>2
      <4> HIDE DEF i
      <4> QED BY <3>1, <4>1, <4>2, <4>3
    <3>6. k < w => TaikoStart(i + k).idx >= 2
      BY <1>3, <3>3
    <3> HIDE DEF i, y
    <3> QED BY <1>2, <1>3, <2>2, <3>2, <3>3, <3>5, <3>6 DEF k, w
  <2>4. CASE ~(Len(taikoMap) >= 3)
    <3>1. y \in Nat
      BY <1>1 DEF Taiko!FirstCombos
    <3>2. ~Taiko!StartsWithHits
      BY <2>4 DEF Taiko!StartsWithHits
    <3>3. 0 \in 0 .. Taiko!DiffCount /\ i + k \in Nat
      BY <1>1, <2>1
    <3> HIDE DEF i, y
    <3>4. Skipped(c, i + k, y) = TaikoCalc(i + k, 0, y)
      BY <1>1, <2>1, TaikoCalcChanges
    <3>5. TaikoCalc(i + k, 0, y) \in TaikoCalcs
      BY <2>4, <3>1, <3>2, <3>3, IsTaikoCalc
    <3>6. TaikoCalc(i + k, 0, y).idx = i + k
      BY TaikoCalcChanges
    <3> QED BY <1>2, <1>3, <2>2, <2>4, <3>4, <3>5, <3>6 DEF k, w
  <2> QED BY <2>3, <2>4
<1> QED BY <1>4, <1>5

(* nth(n) ends where as many calls of next() end as it skips objects, and  *)
(* one more; from the third object on, or from the first on a map with     *)
(* difficulty objects.                                                     *)
LEMMA TaikoNth ==
  ASSUME TaikoInputs, NEW c \in TaikoCalcs, NEW n \in Nat
  PROVE  /\ Taiko!NthOn(c, n) \in TaikoCalcs
         /\ ~Taiko!NthAnswers(c, n) => TaikoExhausted(Taiko!NthOn(c, n))
         /\ TaikoExhausted(c) => ~Taiko!NthAnswers(c, n)
         /\ Len(taikoMap) >= 3 =>
              /\ Taiko!NthOn(c, n) = Taiko!AfterNexts(c, Taiko!Wanted(c, n) + 1)
              /\ Taiko!NthAnswers(c, n)
                   <=> Taiko!HasNext(Taiko!AfterNexts(c, Taiko!Wanted(c, n)))
<1> DEFINE w == Taiko!Wanted(c, n)
           k == Taiko!SkippedFirst(c, n)
           s == Taiko!SkipFirst(c, n)
           left == w - k
           skipped == Taiko!SkipHits(s, left)
           p == skipped.calc
<1>1. /\ w \in Nat /\ k \in 0 .. w /\ s \in TaikoCalcs /\ (k < w => s.idx >= 2)
      /\ Len(taikoMap) >= 3 => s = Taiko!AfterNexts(c, k)
  BY TaikoSkipFirst
<1>2. Taiko!SkipOn(c, n) = skipped
  BY DEF Taiko!SkipOn
<1> HIDE DEF w, k, s
<1>3. left \in Nat /\ (left > 0 => s.idx >= 2) /\ k \in Nat /\ k + left = w
  BY <1>1
<1> HIDE DEF left
<1>4. p = Taiko!AfterNexts(s, left) /\ (~skipped.ok => TaikoExhausted(p))
  BY <1>1, <1>3, TaikoSkipHits
<1> HIDE DEF skipped
<1>5. p \in TaikoCalcs /\ Taiko!AfterNexts(s, left + 1) = Taiko!NextOn(p)
  BY <1>1, <1>3, <1>4, TaikoAfterUnfolds
<1> HIDE DEF p
<1>6. /\ Taiko!NthOn(c, n) = Taiko!NextOn(p)
      /\ Taiko!NthAnswers(c, n) <=> Taiko!HasNext(p)
  <2>1. Taiko!NthOn(c, n) = IF skipped.ok THEN Taiko!NextOn(p) ELSE p
    BY <1>2 DEF Taiko!NthOn, p
  <2>2. Taiko!NthAnswers(c, n) <=> skipped.ok /\ Taiko!HasNext(p)
    BY <1>2 DEF Taiko!NthAnswers, p
  <2>3. CASE skipped.ok
    BY <2>1, <2>2, <2>3
  <2>4. CASE ~skipped.ok
    BY <1>4, <1>5, <2>1, <2>2, <2>4, TaikoNext
  <2> QED BY <2>3, <2>4
<1>7. ASSUME Len(taikoMap) >= 3
      PROVE  p = Taiko!AfterNexts(c, w) /\ Taiko!NextOn(p) = Taiko!AfterNexts(c, w + 1)
  <2>1. Taiko!AfterNexts(Taiko!AfterNexts(c, k), left) = Taiko!AfterNexts(c, k + left)
    BY <1>3, TaikoAfterAdds
  <2>2. p = Taiko!AfterNexts(c, w)
    BY <1>1, <1>3, <1>4, <1>7, <2>1
  <2> QED BY <1>1, <2>2, TaikoAfterUnfolds
<1>8. TaikoExhausted(c) => ~Taiko!HasNext(p)
  <2>1. CASE Len(taikoMap) >= 3
    BY <1>1, <1>5, <1>7, <2>1, TaikoAfterExhausted, TaikoNext
  <2>2. CASE ~(Len(taikoMap) >= 3)
    <3>1. TaikoExhausted(p)
      BY <2>2, TaikoSizes DEF TaikoExhausted
    <3> QED BY <1>5, <3>1, TaikoNext
  <2> QED BY <2>1, <2>2
<1>9. ~Taiko!HasNext(p) => TaikoExhausted(Taiko!NextOn(p))
  BY <1>5, TaikoNext
<1>10. Taiko!NextOn(p) \in TaikoCalcs
  BY <1>5, TaikoNext
<1> QED BY <1>6, <1>7, <1>8, <1>9, <1>10 DEF w

(* On a map of three objects or more each call of next() takes one more    *)
(* step while one is left.                                                 *)
LEMMA TaikoAfterSteps ==
  ASSUME TaikoInputs, Len(taikoMap) >= 3, NEW c \in TaikoCalcs, NEW n \in Nat
  PROVE  /\ Taiko!AfterNexts(c, n) \in TaikoCalcs
         /\ Taiko!AfterNexts(c, n).idx = Least(c.idx + n, TaikoSteps)
<1> DEFINE h == TaikoSteps
           S == {i \in 0 .. n : Taiko!AfterNexts(c, i).idx = Least(c.idx + i, h)}
<1>1. c.idx \in 0 .. h /\ h \in Nat
  BY TaikoStepsLeft
<1> HIDE DEF h
<1>2. 0 \in S
  <2>1. Least(c.idx + 0, h) = c.idx
    BY <1>1 DEF Least
  <2> QED BY SMTT(30), <2>1, TaikoAfterUnfolds
<1>3. ASSUME NEW i \in 1 .. n, i - 1 \in S PROVE i \in S
  <2> DEFINE p == Taiko!AfterNexts(c, i - 1)
  <2>1. i - 1 \in Nat /\ (i - 1) + 1 = i
    OBVIOUS
  <2>2. p \in TaikoCalcs /\ Taiko!AfterNexts(c, i) = Taiko!NextOn(p)
    BY <2>1, TaikoAfterUnfolds
  <2>3. p.idx = Least(c.idx + (i - 1), h)
    BY <1>3
  <2> HIDE DEF p
  <2>4. /\ Taiko!HasNext(p) <=> p.idx < h
        /\ Taiko!HasNext(p) => Taiko!NextOn(p).idx = p.idx + 1
        /\ ~Taiko!HasNext(p) => Taiko!NextOn(p).idx = p.idx
    BY <2>2, TaikoStepsLeft, TaikoNext DEF h
  <2>5. Taiko!NextOn(p).idx = IF p.idx < h THEN p.idx + 1 ELSE p.idx
    BY <2>4
  <2>6. Taiko!NextOn(p).idx = Least(c.idx + i, h)
    BY <1>1, <2>3, <2>5 DEF Least
  <2> QED BY <2>2, <2>6
<1> HIDE DEF S
<1>4. \A i \in 0 .. n : i \in S
  BY <1>2, <1>3, IntervalIsReached
<1>5. n \in S
  BY <1>4
<1> QED BY <1>5, TaikoAfterUnfolds DEF S, h

(* If it starts with two hits it passes one more hit.                      *)
LEMMA TaikoAfterPosition ==
  ASSUME TaikoInputs, Taiko!StartsWithHits, NEW c \in TaikoCalcs, NEW n \in Nat
  PROVE  /\ Taiko!AfterNexts(c, n) \in TaikoCalcs
         /\ Taiko!AfterNexts(c, n).idx = Least(c.idx + n, Taiko!TotalHits)
<1>1. TaikoSteps = Taiko!TotalHits
  BY TaikoSizes DEF TaikoSteps
<1> QED BY <1>1, TaikoSizes, TaikoAfterSteps

(***************************************************************************)
(* The invariant                                                           *)
(***************************************************************************)

(* Neither the map nor what is derived from it ever changes.               *)
LEMMA TaikoMapStays ==
  ASSUME UNCHANGED taikoMap
  PROVE  /\ TaikoInputs' = TaikoInputs
         /\ TaikoCalcs' = TaikoCalcs
         /\ Taiko!TotalHits' = Taiko!TotalHits
         /\ Taiko!StartsWithHits' = Taiko!StartsWithHits
         /\ Taiko!DiffCount' = Taiko!DiffCount
         /\ \A k : Taiko!RegularAttributes(k)' = Taiko!RegularAttributes(k)
<1>1. Taiko!HitsIn' = Taiko!HitsIn
  BY DEF Taiko!HitsIn
<1>2. Taiko!DiffCount' = Taiko!DiffCount /\ Taiko!StartsWithHits' = Taiko!StartsWithHits
  BY DEF Taiko!DiffCount, Taiko!StartsWithHits
<1>3. Taiko!TotalHits' = Taiko!TotalHits
  BY <1>1 DEF Taiko!TotalHits
<1>4. TaikoCalcs' = TaikoCalcs
  BY <1>1, <1>2 DEF TaikoCalcs, TaikoPosition, Hits
<1>5. ASSUME NEW k PROVE Taiko!RegularAttributes(k)' = Taiko!RegularAttributes(k)
  <2>1. Taiko!SeenObjects(k)' = Taiko!SeenObjects(k)
    BY <1>1, <1>3 DEF Taiko!SeenObjects
  <2> QED BY <1>2, <1>3, <2>1 DEF Taiko!RegularAttributes
<1> QED BY <1>2, <1>3, <1>4, <1>5 DEF TaikoInputs

(* A fresh calculator has consumed nothing.                                *)
LEMMA TaikoInitIInv ==
  ASSUME TaikoInputs, Taiko!Init
  PROVE  TaikoIInv
<1>1. taikoCalc = TaikoCalc(0, 0, 0) /\ taikoAnswer = None
  BY DEF Taiko!Init, TaikoCalc
<1>2. TaikoCalc(0, 0, 0) \in TaikoCalcs
  <2>1. 0 \in 0 .. Taiko!DiffCount /\ Hits(0) = 0
    BY TaikoSizes, HitsUnfold
  <2>2. Len(taikoMap) >= 3 => 0 = Hits(IF 0 < 2 THEN 0 ELSE 0 + 2)
    BY <2>1
  <2> QED BY <2>1, <2>2, IsTaikoCalc
<1>3. taikoCalc.idx = 0
  BY <1>1, TaikoCalcChanges
<1> QED BY <1>1, <1>2, <1>3 DEF TaikoIInv

(* A call takes an exhausted calculator nowhere and answers None; on a map *)
(* that starts with two hits it passes at least one more while one is left.*)
TaikoAdvances(k) ==
  /\ k \in taikoCalc.idx + 1 .. Taiko!TotalHits
  /\ taikoCalc'.idx = k
  /\ taikoAnswer' = Taiko!RegularAttributes(k)

TaikoIsOver ==
  /\ taikoCalc.idx = Taiko!TotalHits
  /\ taikoCalc'.idx = Taiko!TotalHits
  /\ taikoAnswer' = None

(* Every call of next() or nth() from a calculator that calls can lead to. *)
LEMMA TaikoCall ==
  ASSUME TaikoInputs, taikoCalc \in TaikoCalcs,
         Taiko!CallNext \/ \E n \in Nat : Taiko!CallNth(n)
  PROVE  /\ taikoCalc' \in TaikoCalcs /\ UNCHANGED taikoMap
         /\ TaikoExhausted(taikoCalc) => taikoAnswer' = None
         /\ taikoAnswer' = None => TaikoExhausted(taikoCalc')
         /\ Taiko!StartsWithHits => TaikoIsOver \/ \E k \in Nat : TaikoAdvances(k)
<1> DEFINE c == taikoCalc
           h == Taiko!TotalHits
<1>1. ASSUME NEW p \in TaikoCalcs PROVE Taiko!Attributes(p) # None
  BY TaikoCalcIs, TaikoNoneAssumption, TaikoSizes DEF Taiko!Attributes
<1>2. ASSUME Taiko!StartsWithHits, NEW w \in Nat,
             c.idx + w < h \/ w = 0,
             taikoCalc' = Taiko!AfterNexts(c, w + 1),
             taikoAnswer' = IF Taiko!HasNext(Taiko!AfterNexts(c, w))
                            THEN Taiko!Attributes(taikoCalc') ELSE None
      PROVE  TaikoIsOver \/ \E k \in Nat : TaikoAdvances(k)
  <2> DEFINE p == Taiko!AfterNexts(c, w)
  <2>1. /\ p \in TaikoCalcs /\ p.idx = Least(c.idx + w, h)
        /\ taikoCalc' = Taiko!NextOn(p)
    BY <1>2, TaikoAfterPosition, TaikoAfterUnfolds
  <2> HIDE DEF p
  <2>2. c.idx \in 0 .. h /\ h \in Nat /\ p.idx \in 0 .. h
    BY <1>2, <2>1, TaikoHasNext
  <2>3. p.idx = c.idx + w
    BY <1>2, <2>1, <2>2 DEF Least
  <2>4. CASE Taiko!HasNext(p)
    <3>1. /\ p.idx < h /\ taikoCalc'.idx = p.idx + 1
          /\ taikoAnswer' = Taiko!RegularAttributes(p.idx + 1)
      BY <1>2, <2>1, <2>4, TaikoHasNext, TaikoNext, TaikoAttributes DEF p
    <3>2. p.idx + 1 \in c.idx + 1 .. h /\ p.idx + 1 \in Nat
      BY <1>2, <2>2, <2>3, <3>1
    <3>3. TaikoAdvances(p.idx + 1)
      BY <3>1, <3>2 DEF TaikoAdvances
    <3> QED BY <3>2, <3>3
  <2>5. CASE ~Taiko!HasNext(p)
    <3>1. ~(p.idx < h) /\ taikoCalc'.idx = p.idx /\ taikoAnswer' = None
      BY <1>2, <2>1, <2>5, TaikoHasNext, TaikoNext DEF p
    <3>2. p.idx = h /\ c.idx = h
      BY <1>2, <2>2, <2>3, <3>1
    <3> QED BY <3>1, <3>2 DEF TaikoIsOver
  <2> QED BY <2>4, <2>5
<1>3. CASE Taiko!CallNext
  <2>1. /\ taikoCalc' = Taiko!NextOn(c) /\ UNCHANGED taikoMap
        /\ taikoAnswer' = IF Taiko!HasNext(c) THEN Taiko!Attributes(taikoCalc') ELSE None
    BY <1>3 DEF Taiko!CallNext
  <2>2. /\ Taiko!AfterNexts(c, 0) = c /\ 0 \in Nat
        /\ Taiko!AfterNexts(c, 0 + 1) = Taiko!NextOn(Taiko!AfterNexts(c, 0))
    BY TaikoAfterUnfolds
  <2>3. Taiko!StartsWithHits => TaikoIsOver \/ \E k \in Nat : TaikoAdvances(k)
    BY <1>2, <2>1, <2>2
  <2> QED BY <1>1, <2>1, <2>3, TaikoNext
<1>4. ASSUME NEW n \in Nat, Taiko!CallNth(n)
      PROVE  /\ taikoCalc' \in TaikoCalcs /\ UNCHANGED taikoMap
             /\ TaikoExhausted(taikoCalc) => taikoAnswer' = None
             /\ taikoAnswer' = None => TaikoExhausted(taikoCalc')
             /\ Taiko!StartsWithHits => TaikoIsOver \/ \E k \in Nat : TaikoAdvances(k)
  <2>1. /\ taikoCalc' = Taiko!NthOn(c, n) /\ UNCHANGED taikoMap
        /\ taikoAnswer' = IF Taiko!NthAnswers(c, n) THEN Taiko!Attributes(taikoCalc') ELSE None
    BY <1>4 DEF Taiko!CallNth
  <2>2. /\ taikoCalc' \in TaikoCalcs
        /\ TaikoExhausted(taikoCalc) => taikoAnswer' = None
        /\ taikoAnswer' = None => TaikoExhausted(taikoCalc')
    BY <1>1, <2>1, TaikoNth
  <2>3. ASSUME Taiko!StartsWithHits
        PROVE  TaikoIsOver \/ \E k \in Nat : TaikoAdvances(k)
    <3> DEFINE w == Taiko!Wanted(c, n)
    <3>1. c.idx \in 0 .. h /\ h \in Nat
      BY <2>3, TaikoHasNext
    <3>2. w \in Nat /\ (c.idx + w < h \/ w = 0)
      BY <3>1 DEF Taiko!Wanted, Taiko!Remaining, Taiko!Least, Taiko!SaturatingSub
    <3>3. /\ taikoCalc' = Taiko!AfterNexts(c, w + 1)
          /\ Taiko!NthAnswers(c, n) <=> Taiko!HasNext(Taiko!AfterNexts(c, w))
      BY <2>1, <2>3, TaikoNth, TaikoSizes
    <3> HIDE DEF w
    <3> QED BY <1>2, <2>1, <2>3, <3>2, <3>3
  <2> QED BY <2>1, <2>2, <2>3
<1> QED BY <1>3, <1>4

(* Every call keeps the inductive invariant.                               *)
LEMMA TaikoNextIInv ==
  ASSUME TaikoIInv, Taiko!CallNext \/ \E n \in Nat : Taiko!CallNth(n)
  PROVE  TaikoIInv'
<1>1. TaikoInputs /\ taikoCalc \in TaikoCalcs
  BY DEF TaikoIInv
<1>2. /\ taikoCalc' \in TaikoCalcs /\ UNCHANGED taikoMap
      /\ taikoAnswer' = None => TaikoExhausted(taikoCalc')
      /\ Taiko!StartsWithHits => TaikoIsOver \/ \E k \in Nat : TaikoAdvances(k)
  BY <1>1, TaikoCall
<1>3. /\ TaikoInputs' = TaikoInputs /\ TaikoCalcs' = TaikoCalcs
      /\ Taiko!StartsWithHits' = Taiko!StartsWithHits
      /\ Taiko!DiffCount' = Taiko!DiffCount
      /\ \A k : Taiko!RegularAttributes(k)' = Taiko!RegularAttributes(k)
  BY <1>2, TaikoMapStays
<1>4. Taiko!RegularAttributes(taikoCalc.idx)' = Taiko!RegularAttributes(taikoCalc'.idx)
  BY <1>3
<1>5. Taiko!StartsWithHits /\ taikoAnswer' # None =>
        taikoAnswer' = Taiko!RegularAttributes(taikoCalc'.idx)
  BY <1>2 DEF TaikoIsOver, TaikoAdvances
<1>6. TaikoExhausted(taikoCalc)' <=> TaikoExhausted(taikoCalc')
  BY <1>3 DEF TaikoExhausted
<1> QED BY <1>1, <1>2, <1>3, <1>4, <1>5, <1>6 DEF TaikoIInv

(* So do the calls of other calculators.                                   *)
LEMMA TaikoStaysIInv ==
  ASSUME TaikoIInv, UNCHANGED <<taikoMap, taikoCalc, taikoAnswer>>
  PROVE  TaikoIInv'
<1>1. TaikoExhausted(taikoCalc)' <=> TaikoExhausted(taikoCalc)
  BY TaikoMapStays DEF TaikoExhausted
<1>2. Taiko!RegularAttributes(taikoCalc.idx)' = Taiko!RegularAttributes(taikoCalc.idx)
  <2>1. Taiko!RegularAttributes(taikoCalc.idx)' = Taiko!RegularAttributes(taikoCalc'.idx)
    BY TaikoMapStays
  <2> QED BY <2>1
<1>3. /\ TaikoInputs' = TaikoInputs /\ TaikoCalcs' = TaikoCalcs
      /\ Taiko!StartsWithHits' = Taiko!StartsWithHits
  BY TaikoMapStays
<1> QED BY <1>1, <1>2, <1>3 DEF TaikoIInv

(* A step of the composition calls this calculator or leaves it alone.     *)
LEMMA TaikoStepOfGradual ==
  ASSUME [GradualStep]_gradualVars
  PROVE  \/ Taiko!CallNext \/ \E n \in Nat : Taiko!CallNth(n)
         \/ UNCHANGED <<taikoMap, taikoCalc, taikoAnswer>>
<1>1. CASE UNCHANGED gradualVars
  BY <1>1 DEF gradualVars, taikoVars
<1>2. CASE DifficultyNext
  BY <1>2 DEF DifficultyNext, taikoVars
<1>3. ASSUME NEW n \in Nat, DifficultyNth(n)
      PROVE  \/ \E i \in Nat : Taiko!CallNth(i)
             \/ UNCHANGED <<taikoMap, taikoCalc, taikoAnswer>>
  BY <1>3 DEF DifficultyNth, taikoVars
<1>4. GradualStep => DifficultyNext \/ \E n \in Nat : DifficultyNth(n)
  BY SkipsAssumption
  DEF GradualStep, GradualNext, PerformanceNext, PerformanceNth, GradualNth
<1> QED BY <1>1, <1>2, <1>3, <1>4

(***************************************************************************)
(* The properties                                                          *)
(***************************************************************************)

(* The combo counts the hits consumed on every map, nth(n) is n + 1 calls  *)
(* of next() on every map of three objects, and on every map len() and the *)
(* first two objects tell how many more calls of next() return Some.       *)
LEMMA TaikoComboNthsAndLen ==
  ASSUME TaikoIInv
  PROVE  Taiko!ComboCountsHits /\ Taiko!NthIsRepeatedNext /\ Taiko!LenTellsAnswers
<1> DEFINE c == taikoCalc
           h == Taiko!TotalHits
<1>1. TaikoInputs /\ c \in TaikoCalcs
  BY DEF TaikoIInv
<1>2. Taiko!ComboCountsHits
  BY <1>1, TaikoCalcIs DEF Taiko!ComboCountsHits, Taiko!Consumed, TaikoPosition, Hits
<1>3. Taiko!NthIsRepeatedNext
  <2> SUFFICES ASSUME Len(taikoMap) >= 3, Taiko!Remaining(c) >= 0, NEW n \in Skips
               PROVE  Taiko!NthOn(c, n) =
                        Taiko!AfterNexts(c,
                          Taiko!Least(n, Taiko!SaturatingSub(Taiko!Remaining(c), 1)) + 1)
    BY DEF Taiko!NthIsRepeatedNext
  <2>1. Taiko!Remaining(c) \in Int
    BY <1>1, TaikoCalcIs, HitsUnfold DEF Taiko!Remaining
  <2>2. Taiko!Wanted(c, n) = Taiko!Least(n, Taiko!SaturatingSub(Taiko!Remaining(c), 1))
    BY <2>1 DEF Taiko!Wanted
  <2>3. n \in Nat
    BY SkipsAssumption
  <2> QED BY <1>1, <2>2, <2>3, TaikoNth
<1>4. ASSUME Len(taikoMap) >= 3
      PROVE  /\ Taiko!AnswersLeft >= 0
             /\ \A k \in 0 .. Len(taikoMap) :
                  Taiko!HasNext(Taiko!AfterNexts(c, k)) <=> k < Taiko!AnswersLeft
  <2>1. c.idx \in 0 .. TaikoSteps /\ TaikoSteps \in Nat
    BY <1>1, <1>4, TaikoStepsLeft
  <2>2. Taiko!AnswersLeft = TaikoSteps - c.idx
    <3>1. h \in Nat /\ Hits(2) \in Nat /\ c.idx \in Nat
      <4>1. 2 \in 0 .. Len(taikoMap) /\ Len(taikoMap) \in 0 .. Len(taikoMap)
        BY <1>1, <1>4, HitsUnfold
      <4> QED BY <1>1, <2>1, <4>1, HitsUnfold
    <3>2. TaikoSteps = h + 2 - Hits(2)
      BY DEF TaikoSteps
    <3>3. Taiko!AnswersLeft = (h - c.idx) + (2 - Hits(2))
      BY <1>4 DEF Taiko!AnswersLeft, Taiko!Remaining, Hits
    <3> HIDE DEF h
    <3> QED BY <3>1, <3>2, <3>3
  <2>3. ASSUME NEW k \in Nat
        PROVE  Taiko!HasNext(Taiko!AfterNexts(c, k)) <=> k < Taiko!AnswersLeft
    <3> DEFINE p == Taiko!AfterNexts(c, k)
    <3>1. p \in TaikoCalcs /\ p.idx = Least(c.idx + k, TaikoSteps)
      BY <1>1, <1>4, TaikoAfterSteps
    <3> HIDE DEF p
    <3>2. Taiko!HasNext(p) <=> p.idx < TaikoSteps
      BY <1>1, <1>4, <3>1, TaikoStepsLeft
    <3>3. p.idx < TaikoSteps <=> k < TaikoSteps - c.idx
      BY <2>1, <3>1 DEF Least
    <3> QED BY <2>2, <3>2, <3>3 DEF p
  <2> QED BY <2>1, <2>2, <2>3
<1>5. ASSUME ~(Len(taikoMap) >= 3)
      PROVE  /\ Taiko!AnswersLeft = 0
             /\ \A k \in Nat : ~Taiko!HasNext(Taiko!AfterNexts(c, k))
  <2>1. Len(taikoMap) < 3 /\ TaikoExhausted(c)
    BY <1>1, <1>5, TaikoSizes, HitsUnfold DEF TaikoExhausted
  <2>2. Taiko!AnswersLeft = 0
    BY <2>1 DEF Taiko!AnswersLeft
  <2>3. ASSUME NEW k \in Nat PROVE ~Taiko!HasNext(Taiko!AfterNexts(c, k))
    BY <1>1, <2>1, TaikoAfterExhausted, TaikoNext
  <2> QED BY <2>2, <2>3
<1>6. Taiko!LenTellsAnswers
  <2>1. Len(taikoMap) \in Nat
    BY <1>1, HitsUnfold
  <2> QED BY <1>4, <1>5, <2>1 DEF Taiko!LenTellsAnswers
<1> QED BY <1>2, <1>3, <1>6

(* In every behaviour of the calculators, the combo of the osu!taiko       *)
(* calculator is the number of hits it has consumed, None means that       *)
(* nothing is left, and on a map that starts with two hits the answer is   *)
(* the one-shot calculation of the hits passed.                            *)
THEOREM TaikoInvariance == GradualSpec => []TaikoIInv
<1>1. GradualInit => TaikoIInv
  <2> SUFFICES ASSUME GradualInit PROVE TaikoIInv
    OBVIOUS
  <2>1. Taiko!Init
    BY DEF GradualInit
  <2>2. taikoMap \in Seq(BOOLEAN)
    <3>1. taikoMap \in TaikoMaps \/ taikoMap = <<>>
      BY DEF GradualInit
    <3>2. TaikoMaps \subseteq Seq(BOOLEAN) /\ <<>> \in Seq(BOOLEAN)
      BY TaikoMapsAssumption
    <3> QED BY <3>1, <3>2
  <2> QED BY <2>1, <2>2, TaikoInitIInv DEF TaikoInputs
<1>2. TaikoIInv /\ [GradualStep]_gradualVars => TaikoIInv'
  BY TaikoStepOfGradual, TaikoNextIInv, TaikoStaysIInv
<1> QED BY <1>1, <1>2, PTL DEF GradualSpec

(* No call that follows a None returns anything else, on any map: nth()    *)
(* finds no further hit where next() found none, even where len() has      *)
(* underflowed.                                                            *)
THEOREM TaikoNoneIsFinal == GradualSpec => Taiko!NoneIsFinal
<1>1. TaikoIInv /\ [GradualStep]_gradualVars
        => [taikoAnswer = None /\ taikoCalc.idx > 0 => taikoAnswer' = None]_(Taiko!vars)
  <2> SUFFICES ASSUME TaikoIInv, [GradualStep]_gradualVars,
                      taikoAnswer = None, taikoCalc.idx > 0, ~UNCHANGED Taiko!vars
               PROVE  taikoAnswer' = None
    OBVIOUS
  <2>1. TaikoInputs /\ taikoCalc \in TaikoCalcs /\ TaikoExhausted(taikoCalc)
    BY DEF TaikoIInv
  <2>2. Taiko!CallNext \/ \E n \in Nat : Taiko!CallNth(n)
    BY TaikoStepOfGradual DEF Taiko!vars
  <2> QED BY <2>1, <2>2, TaikoCall
<1> QED BY <1>1, TaikoInvariance, PTL DEF GradualSpec, Taiko!NoneIsFinal

(* On a map that starts with two hits the calculator implements the        *)
(* iterator of GradualIterator, its steps being the hits.                  *)
THEOREM TaikoRefinement == GradualSpec => Taiko!ImplementsIterator
<1> DEFINE h == Taiko!HitFirst(Taiko!TotalHits, 0)
           regular == [k \in 0 .. h |-> Taiko!RegularAttributes(k)]
           position == Taiko!HitFirst(taikoCalc.idx, 0)
           shown == Taiko!HitFirst(taikoAnswer, None)
<1>1. GradualInit /\ TaikoIInv => Taiko!Iterator!Init
  <2> SUFFICES ASSUME GradualInit, TaikoIInv PROVE Taiko!Iterator!Init
    OBVIOUS
  <2>1. taikoCalc.idx = 0 /\ taikoAnswer = None
    BY DEF GradualInit, Taiko!Init
  <2>2. h \in Nat /\ position = 0 /\ shown = None
    BY <2>1, TaikoSizes DEF TaikoIInv, Taiko!HitFirst
  <2>3. DOMAIN regular = 0 .. h
    OBVIOUS
  <2> HIDE DEF regular, h, position, shown
  <2> QED BY <2>2, <2>3 DEF Taiko!Iterator!Init, regular, h, position, shown
<1>2. TaikoIInv /\ [GradualStep]_gradualVars
        => [Taiko!Iterator!Next]_(Taiko!Iterator!gradualVars)
  <2> SUFFICES ASSUME TaikoIInv, [GradualStep]_gradualVars
               PROVE  Taiko!Iterator!Next \/ UNCHANGED Taiko!Iterator!gradualVars
    OBVIOUS
  <2>1. UNCHANGED taikoMap /\
        (Taiko!StartsWithHits => \/ TaikoIsOver \/ \E k \in Nat : TaikoAdvances(k)
                                 \/ UNCHANGED <<taikoCalc, taikoAnswer>>)
    BY TaikoStepOfGradual, TaikoCall DEF TaikoIInv
  <2>2. /\ Taiko!StartsWithHits' = Taiko!StartsWithHits
        /\ Taiko!TotalHits' = Taiko!TotalHits
        /\ \A k : Taiko!RegularAttributes(k)' = Taiko!RegularAttributes(k)
    BY <2>1, TaikoMapStays
  <2>3. h' = h /\ regular' = regular
    BY <2>2 DEF Taiko!HitFirst
  <2>4. CASE ~Taiko!StartsWithHits
    <3>1. position = 0 /\ position' = 0 /\ shown = None /\ shown' = None
      BY <2>2, <2>4 DEF Taiko!HitFirst
    <3> HIDE DEF h, regular, position, shown
    <3>2. UNCHANGED <<h, regular, position, shown>>
      BY <2>3, <3>1
    <3> QED BY <3>2 DEF h, regular, position, shown, Taiko!Iterator!gradualVars
  <2>5. CASE Taiko!StartsWithHits
    <3>1. /\ h = Taiko!TotalHits /\ position = taikoCalc.idx /\ shown = taikoAnswer
          /\ position' = taikoCalc'.idx /\ shown' = taikoAnswer'
      BY <2>2, <2>5 DEF Taiko!HitFirst
    <3>2. ASSUME NEW k \in Nat, TaikoAdvances(k)
          PROVE  Taiko!Iterator!Advance(k) /\ k \in position + 1 .. h
      <4>1. k \in position + 1 .. h /\ k \in 0 .. h
        BY <3>1, <3>2 DEF TaikoAdvances
      <4>2. position' = k /\ shown' = regular[k]
        BY <3>1, <3>2, <4>1 DEF TaikoAdvances
      <4> HIDE DEF h, regular, position, shown
      <4> QED BY <2>3, <4>1, <4>2
          DEF Taiko!Iterator!Advance, h, regular, position, shown
    <3>3. CASE TaikoIsOver
      <4>1. position = h /\ position' = position /\ shown' = None
        BY <3>1, <3>3 DEF TaikoIsOver
      <4> HIDE DEF h, regular, position, shown
      <4>2. Taiko!Iterator!Exhausted
        BY <2>3, <4>1 DEF Taiko!Iterator!Exhausted, h, regular, position, shown
      <4> QED BY <4>2 DEF Taiko!Iterator!Next
    <3>4. CASE UNCHANGED <<taikoCalc, taikoAnswer>>
      <4>1. position' = position /\ shown' = shown
        BY <3>1, <3>4
      <4> HIDE DEF h, regular, position, shown
      <4>2. UNCHANGED <<h, regular, position, shown>>
        BY <2>3, <4>1
      <4> QED BY <4>2 DEF h, regular, position, shown, Taiko!Iterator!gradualVars
    <3>5. ASSUME NEW k \in Nat, TaikoAdvances(k) PROVE Taiko!Iterator!Next
      <4>1. Taiko!Iterator!Advance(k) /\ k \in position + 1 .. h
        BY <3>2, <3>5
      <4> HIDE DEF h, position
      <4> QED BY <4>1 DEF Taiko!Iterator!Next, h, position
    <3> QED BY <2>1, <2>5, <3>3, <3>4, <3>5
  <2> QED BY <2>4, <2>5
<1> QED
  BY <1>1, <1>2, TaikoInvariance, PTL
  DEF GradualSpec, Taiko!ImplementsIterator, Taiko!Iterator!Spec

(***************************************************************************)
(* All modes together                                                      *)
(***************************************************************************)

(* The latest performance was calculated from the answer of this position. *)
PerformanceInv ==
  /\ mode \in Modes
  /\ passed # None => wrapped /\ Answer # None /\ passed = Position

GradualIInv ==
  /\ IInv
  /\ TaikoIInv
  /\ CatchIInv
  /\ ManiaIInv
  /\ PerformanceInv

(* A step calls the osu!standard calculator or leaves it alone.            *)
LEMMA OsuStepOfGradual ==
  ASSUME [GradualStep]_gradualVars
  PROVE  CallNext \/ (\E n \in Nat : CallNth(n)) \/ UNCHANGED vars
<1>1. CASE UNCHANGED gradualVars
  BY <1>1 DEF gradualVars
<1>2. CASE DifficultyNext
  BY <1>2 DEF DifficultyNext
<1>3. ASSUME NEW n \in Nat, DifficultyNth(n)
      PROVE  (\E i \in Nat : CallNth(i)) \/ UNCHANGED vars
  BY <1>3 DEF DifficultyNth
<1>4. GradualStep => DifficultyNext \/ \E n \in Nat : DifficultyNth(n)
  BY SkipsAssumption
  DEF GradualStep, GradualNext, PerformanceNext, PerformanceNth, GradualNth
<1> QED BY <1>1, <1>2, <1>3, <1>4

(* The osu!standard calculator accumulates what the one-shot calculation   *)
(* of the objects passed has, also when a performance calculator owns it.  *)
THEOREM OsuInvariance == GradualSpec => []IInv
<1>1. GradualInit => IInv
  BY InitIInv DEF GradualInit
<1>2. IInv /\ [GradualStep]_gradualVars => IInv'
  BY OsuStepOfGradual, CallKeepsIInv, StutterKeepsIInv
<1> QED BY <1>1, <1>2, PTL DEF GradualSpec

(* A performance is calculated only from an answer, and is told the        *)
(* position of the calculator that gave it.                                *)
LEMMA PerformanceFollowsAnswer == GradualSpec => []PerformanceInv
<1>1. GradualInit => PerformanceInv
  BY DEF GradualInit, PerformanceInv
<1>2. PerformanceInv /\ [GradualStep]_gradualVars => PerformanceInv'
  <2> SUFFICES ASSUME PerformanceInv, [GradualStep]_gradualVars PROVE PerformanceInv'
    OBVIOUS
  <2>1. CASE UNCHANGED gradualVars
    <3>1. /\ mode' = mode /\ wrapped' = wrapped /\ passed' = passed
          /\ UNCHANGED <<vars, taikoVars, catchVars, maniaVars>>
      BY <2>1 DEF gradualVars
    <3>2. Answer' = Answer /\ Position' = Position
      BY <3>1 DEF Answer, Position, vars, taikoVars, catchVars, maniaVars
    <3> QED BY <3>1, <3>2 DEF PerformanceInv
  <2>2. CASE ~wrapped /\ UNCHANGED <<mode, wrapped, passed>>
    BY <2>2 DEF PerformanceInv
  <2>3. ASSUME NEW n, PerformanceNth(n) PROVE PerformanceInv'
    <3>1. passed' = IF Answer' = None THEN None ELSE Position'
      BY <2>3 DEF PerformanceNth, Passed
    <3> QED BY <2>3, <3>1 DEF PerformanceNth, PerformanceInv
  <2> QED
    BY <2>1, <2>2, <2>3 DEF GradualStep, GradualNext, GradualNth, PerformanceNext
<1> QED BY <1>1, <1>2, PTL DEF GradualSpec

(* The inductive invariant of the composition.                             *)
THEOREM GradualInvariance == GradualSpec => []GradualIInv
BY OsuInvariance, TaikoInvariance, CatchInvariance, ManiaInvariance,
   PerformanceFollowsAnswer, PTL DEF GradualIInv

(* What the osu!standard calculator does on its own it does inside the     *)
(* composition: it stays in the map, its answers agree with the one-shot   *)
(* calculation, and None leaves it alone.                                  *)
THEOREM OsuInGradual ==
  GradualSpec => []TypeOK /\ []AgreesWithRegular /\ ExhaustedCallsChangeNothing
<1>1. IInv => TypeOK /\ AgreesWithRegular
  BY DEF IInv, TypeOK, Accumulated, Answered, AgreesWithRegular
<1>2. IInv /\ [GradualStep]_gradualVars
        => [(answer' = None /\ take > 0) => calc' = calc]_vars
  BY OsuStepOfGradual, NoneChangesNothing
<1> QED BY <1>1, <1>2, OsuInvariance, PTL DEF GradualSpec, ExhaustedCallsChangeNothing

(* The osu!standard calculator implements the gradual iterator inside the  *)
(* composition too.                                                        *)
THEOREM OsuRefinement == GradualSpec => ImplementsIterator
<1>1. GradualInit => Iterator!Init
  BY InitImplements DEF GradualInit
<1>2. IInv /\ [GradualStep]_gradualVars => [Iterator!Next]_(Iterator!gradualVars)
  BY OsuStepOfGradual, CallImplements, StutterImplements
<1> QED
  BY <1>1, <1>2, OsuInvariance, PTL DEF GradualSpec, ImplementsIterator, Iterator!Spec

(* So do the calculators of the other modes (osu!taiko on maps that start  *)
(* with two hits), and nothing but None follows None in osu!taiko.         *)
THEOREM ModesRefinement == GradualSpec => ModesImplementIterator
BY TaikoRefinement, TaikoNoneIsFinal, CatchRefinement, ManiaRefinement
DEF ModesImplementIterator

(* In every mode nth(n) leaves the calculator where n + 1 calls of next()  *)
(* leave it, whatever calls came before.                                   *)
THEOREM NthsAreNexts == GradualSpec => []NthsAreRepeatedNexts
<1>1. GradualIInv => NthsAreRepeatedNexts
  BY NthsAndLen, TaikoComboNthsAndLen, CatchNthsAndLen, ManiaNthsAndLen, ModesAssumption
  DEF GradualIInv, PerformanceInv, NthsAreRepeatedNexts
<1> QED BY <1>1, GradualInvariance, PTL

(* In every mode and on every map len() tells how many more calls of next()*)
(* return Some: less one on a map without objects (none on an osu!taiko map*)
(* shorter than three), and in osu!taiko one more for each of the first two*)
(* objects that is no hit. The last answer of osu!catch has counted the    *)
(* tiny droplets of the whole map.                                         *)
THEOREM LensCountAnswers == GradualSpec => []LensTellAnswers
<1>1. GradualIInv => LensTellAnswers
  BY NthsAndLen, TaikoComboNthsAndLen, CatchNthsAndLen, ManiaNthsAndLen, ModesAssumption
  DEF GradualIInv, PerformanceInv, LensTellAnswers
<1> QED BY <1>1, GradualInvariance, PTL

(***************************************************************************)
(* The objects a performance is calculated for                             *)
(***************************************************************************)

(* The osu!standard answer of a position counts that many objects.         *)
LEMMA OsuCountsObjects ==
  ASSUME IInv, answer # None
  PROVE  calc.idx = Cardinality({i \in 1 .. nObjects : answer.counted[i] > 0})
<1> DEFINE k == calc.idx
<1>1. Shared(answer) = Shared(RegularAttributes(k))
  BY DEF IInv, Answered
<1>2. answer.counted = [i \in 1 .. nObjects |-> IF i <= k THEN 1 ELSE 0]
  <2>1. /\ Shared(answer).counted = answer.counted
        /\ Shared(RegularAttributes(k)).counted = RegularAttributes(k).counted
    BY DEF Shared
  <2> QED BY <1>1, <2>1 DEF RegularAttributes
<1>3. k \in 0 .. StepsOfMap /\ StepsOfMap \in Nat /\ StepsOfMap <= nObjects /\ nObjects \in Nat
  BY Sizes, MaxObjectsAssumption, PassedObjectsAssumption DEF IInv, Accumulated, CalculatorType
<1> HIDE DEF k
<1>4. {i \in 1 .. nObjects : answer.counted[i] > 0} = 1 .. k
  BY <1>2, <1>3
<1>5. Cardinality(1 .. k) = k
  <2>1. 1 \in Int /\ k \in Int /\ ~(1 > k + 1)
    BY <1>3
  <2>2. Cardinality(1 .. k) = IF 1 > k THEN 0 ELSE k - 1 + 1
    BY <2>1, FS_Interval
  <2> QED BY <1>3, <2>2
<1> QED BY <1>4, <1>5 DEF k

(* The osu!taiko answer on a map that starts with two hits.                *)
LEMMA TaikoCountsObjects ==
  ASSUME TaikoIInv, taikoAnswer # None, Taiko!StartsWithHits
  PROVE  taikoCalc.idx = taikoAnswer.max_combo
<1>1. /\ taikoAnswer = Taiko!RegularAttributes(taikoCalc.idx)
      /\ taikoCalc.idx \in 0 .. Taiko!TotalHits /\ Taiko!TotalHits \in Nat
  BY TaikoHasNext DEF TaikoIInv
<1>2. Taiko!Least(taikoCalc.idx, Taiko!TotalHits) = taikoCalc.idx
  BY <1>1 DEF Taiko!Least
<1> QED BY <1>1, <1>2 DEF Taiko!RegularAttributes

(* The osu!catch answer: what is not a fruit is a droplet.                 *)
LEMMA CatchCountsObjects ==
  ASSUME CatchIInv, catchAnswer # None
  PROVE  catchCalc.idx = catchAnswer.count.fruits + catchAnswer.count.droplets
<1> DEFINE k == catchCalc.idx
<1>1. /\ CatchInputs /\ k \in 0 .. Catch!Palpables /\ Catch!Palpables \in Nat
      /\ catchAnswer = Catch!RegularAttributes(k)
  BY CatchSizes DEF CatchIInv
<1> HIDE DEF k
<1>2. k \in Nat /\ k <= Catch!Palpables /\ Least(k, Catch!Palpables) = k
  BY <1>1 DEF Least
<1>3. Catch!RegularCount(k) = CatchTally[k]
  BY <1>1, <1>2, CountsAgree
<1>4. CatchTally[k].fruits + CatchTally[k].droplets = k
  BY <1>1, CatchTallyUnfolds
<1>5. catchAnswer.count = CatchTally[k]
  BY <1>1, <1>3 DEF Catch!RegularAttributes
<1> QED BY <1>4, <1>5 DEF k

(* The osu!mania answer.                                                   *)
LEMMA ManiaCountsObjects ==
  ASSUME ManiaIInv, maniaAnswer # None
  PROVE  maniaCalc.idx = maniaAnswer.n_objects
<1> DEFINE k == maniaCalc.idx
<1>1. /\ ManiaInputs /\ k \in 0 .. Mania!StepsOfMap /\ Mania!StepsOfMap \in Nat
      /\ Mania!StepsOfMap <= Len(maniaMap) /\ Len(maniaMap) \in Nat
      /\ maniaAnswer = Mania!RegularAttributes(k)
  BY ManiaSizes, ManiaTotals DEF ManiaIInv
<1> HIDE DEF k
<1>2. k \in 0 .. Len(maniaMap)
  BY <1>1
<1>3. Mania!RegularAttributes(k).n_objects = k
  BY <1>1, <1>2, ManiaRegular
<1> QED BY <1>1, <1>3 DEF k

(* The attributes every performance is calculated from count exactly the   *)
(* objects it is told were passed, so that the hits generated for a score  *)
(* are those of these objects. In osu!taiko this takes a map that starts   *)
(* with two hits; on any map the combo counts the hits consumed.           *)
THEOREM PerformanceCounts == GradualSpec => []PerformanceCountsItsObjects
<1>1. GradualIInv => PerformanceCountsItsObjects
  <2> SUFFICES ASSUME GradualIInv PROVE PerformanceCountsItsObjects
    OBVIOUS
  <2>1. Taiko!ComboCountsHits
    BY TaikoComboNthsAndLen DEF GradualIInv
  <2>2. ASSUME passed # None, mode = "taiko" => Taiko!StartsWithHits
        PROVE  passed = ObjectsIn(Answer)
    <3>1. passed = Position /\ Answer # None /\ mode \in {"osu", "taiko", "catch", "mania"}
      BY <2>2, ModesAssumption DEF GradualIInv, PerformanceInv
    <3>2. CASE mode = "osu"
      BY <3>1, <3>2, OsuCountsObjects DEF GradualIInv, Answer, Position, ObjectsIn
    <3>3. CASE mode = "taiko"
      BY <2>2, <3>1, <3>3, TaikoCountsObjects DEF GradualIInv, Answer, Position, ObjectsIn
    <3>4. CASE mode = "catch"
      BY <3>1, <3>4, CatchCountsObjects DEF GradualIInv, Answer, Position, ObjectsIn
    <3>5. CASE mode = "mania"
      BY <3>1, <3>5, ManiaCountsObjects DEF GradualIInv, Answer, Position, ObjectsIn
    <3> QED BY <3>1, <3>2, <3>3, <3>4, <3>5
  <2> QED BY <2>1, <2>2 DEF PerformanceCountsItsObjects
<1> QED BY <1>1, GradualInvariance, PTL
=============================================================================
