------------------------- MODULE LegacyScoreProofs -------------------------
(***************************************************************************)
(* Proofs about the legacy score simulators (LegacyScore), for every map   *)
(* that a file can hold, whatever its breaks.                              *)
(*                                                                         *)
(* The gradual simulator's invariant says which breaks it has passed (all  *)
(* are over, the next has not begun once a call is through), that it has   *)
(* added up these and measures none but the one an object lies in, and     *)
(* that its score is the one-shot score of as many objects. That sums      *)
(* formed in two ways are equal is proved by induction along running       *)
(* totals.                                                                 *)
(***************************************************************************)
EXTENDS LegacyScore, Induction, FiniteSetTheorems

(***************************************************************************)
(* The inductive invariant                                                 *)
(***************************************************************************)

Scores == [combo : Nat, accuracy : Nat, bonus : Nat, factors : Seq(Nat)]

Sims ==
  [ next_break : 1 .. Len(map.breaks) + 1, elapsed : Nat, prelim : Nat,
    object_count : 0 .. Len(map.starts), start_time : Int, score : Scores ]

(* A break is measured while an object lies inside it, and only then.      *)
Measured ==
  \/ sim.elapsed = 0
  \/ /\ pc = "breaks" /\ HasBreak
     /\ Break.start < Time /\ Time <= Break.end
     /\ sim.elapsed = Time - Break.start

(* The breaks passed are over, when an object is being prepared, or after  *)
(* its call; and then the next one has not begun.                          *)
PassedBreaksAreOver ==
  \A b \in 1 .. sim.next_break - 1 :
    /\ pc = "breaks" => map.breaks[b].end < Time
    /\ pc = "idle" =>
         sim.object_count > 0 /\ map.breaks[b].end < map.starts[sim.object_count]

NextBreakIsAhead ==
  Counted /\ HasBreak => Break.start >= map.starts[sim.object_count]

IInv ==
  /\ map \in Maps
  /\ pc \in {"idle", "breaks"}
  /\ sim \in Sims
  /\ pc = "breaks" => sim.object_count < Len(map.starts)
  /\ sim.object_count > 0 => sim.start_time = map.starts[1]
  /\ sim.prelim = FirstBreaks(sim.next_break - 1)
  /\ Measured
  /\ PassedBreaksAreOver
  /\ NextBreakIsAhead
  /\ sim.score = RegularScore(sim.object_count)

(***************************************************************************)
(* Sums                                                                    *)
(***************************************************************************)

Adds(u, n, s) ==
  u \in [0 .. n -> Nat] /\ u[0] = 0 /\ (\A i \in 1 .. n : u[i] = u[i - 1] + s[i])

(* There is one running total of a sequence, which ends with its sum.      *)
LEMMA TotalAdds ==
  ASSUME NEW n \in Nat, NEW s \in [1 .. n -> Nat]
  PROVE  \E u : Adds(u, n, s) /\ u[n] = Total(s)
<1>1. Len(s) = n
  OBVIOUS
<1>2. Total(s) = (CHOOSE u : IsTotal(u, n, s))[n]
  BY <1>1 DEF Total, IsTotal
<1>3. \E u : IsTotal(u, n, s)
  BY TotalExists
<1> DEFINE u == CHOOSE u : IsTotal(u, n, s)
<1>4. IsTotal(u, n, s)
  BY <1>3
<1> HIDE DEF u
<1>5. Adds(u, n, s)
  BY <1>4, TotalIsNatural DEF Adds
<1> QED BY <1>2, <1>5 DEF u

(* What adds up the first k elements has added up the sum of these.        *)
LEMMA TotalOfFirst ==
  ASSUME NEW n \in Nat, NEW s \in [1 .. n -> Nat], NEW u, Adds(u, n, s),
         NEW k \in 0 .. n, NEW t \in [1 .. k -> Nat], \A i \in 1 .. k : t[i] = s[i]
  PROVE  u[k] = Total(t)
<1>1. PICK v : Adds(v, k, t) /\ v[k] = Total(t)
  BY TotalAdds
<1> DEFINE S == {i \in 0 .. k : u[i] = v[i]}
<1>2. 0 \in S
  BY <1>1 DEF Adds
<1>3. \A i \in 1 .. k : i - 1 \in S => i \in S
  BY <1>1 DEF Adds
<1> HIDE DEF S
<1>4. k \in Nat
  OBVIOUS
<1>5. \A i \in 0 .. k : i \in S
  BY <1>2, <1>3, <1>4, IntervalIsReached
<1>6. k \in S
  BY <1>4, <1>5
<1> QED BY <1>1, <1>6 DEF S

(* The sum of one element more is that much larger.                        *)
LEMMA TotalGrowsBy ==
  ASSUME NEW n \in Nat \ {0}, NEW s \in [1 .. n -> Nat],
         NEW t \in [1 .. n - 1 -> Nat], \A i \in 1 .. n - 1 : t[i] = s[i]
  PROVE  Total(s) = Total(t) + s[n] /\ Total(s) \in Nat /\ Total(t) \in Nat
<1>1. PICK u : Adds(u, n, s) /\ u[n] = Total(s)
  BY TotalAdds
<1>2. u[n - 1] = Total(t)
  BY <1>1, TotalOfFirst
<1>3. n \in 1 .. n /\ n - 1 \in 0 .. n /\ n \in 0 .. n
  OBVIOUS
<1> QED BY <1>1, <1>2, <1>3 DEF Adds

(* The first k elements add up to no more than all of them, and to the     *)
(* same if the others are zero.                                            *)
LEMMA TotalOfPrefix ==
  ASSUME NEW n \in Nat, NEW s \in [1 .. n -> Nat],
         NEW k \in 0 .. n, NEW t \in [1 .. k -> Nat], \A i \in 1 .. k : t[i] = s[i]
  PROVE  /\ Total(t) \in Nat /\ Total(s) \in Nat
         /\ Total(t) <= Total(s)
         /\ (\A i \in k + 1 .. n : s[i] = 0) => Total(t) = Total(s)
<1>1. PICK u : Adds(u, n, s) /\ u[n] = Total(s)
  BY TotalAdds
<1>2. u[k] = Total(t)
  BY <1>1, TotalOfFirst, SMTT(40)
<1>3. u \in [0 .. n -> Nat] /\ n \in 0 .. n /\ n \in k .. n
  <2>1. u \in [0 .. n -> Nat]
    BY <1>1 DEF Adds
  <2> QED BY <2>1
<1>4. u[k] <= u[n]
  BY <1>1, <1>3, TotalGrows DEF Adds
<1>5. ASSUME \A i \in k + 1 .. n : s[i] = 0 PROVE u[k] = u[n]
  <2> DEFINE S == {i \in 0 .. n : i >= k => u[i] = u[k]}
  <2>1. 0 \in S
    OBVIOUS
  <2>2. ASSUME NEW i \in 1 .. n, i - 1 \in S PROVE i \in S
    <3>1. u[i] = u[i - 1] + s[i] /\ u[i - 1] \in Nat
      BY <1>1 DEF Adds
    <3>2. CASE i <= k
      BY <3>2
    <3>3. CASE i > k
      <4>1. s[i] = 0 /\ i - 1 >= k
        BY <1>5, <3>3
      <4> QED BY <2>2, <3>1, <4>1
    <3> QED BY <3>2, <3>3
  <2> HIDE DEF S
  <2>3. \A i \in 0 .. n : i \in S
    BY <2>1, <2>2, IntervalIsReached
  <2>4. n \in S
    BY <1>3, <2>3
  <2> QED BY <1>3, <2>4 DEF S
<1> QED BY <1>1, <1>2, <1>3, <1>4, <1>5

LEMMA SaturatedSum ==
  ASSUME NEW a \in Nat, NEW b \in Nat, NEW x \in Nat, NEW y \in Nat, NEW M \in Nat,
         Least(a, M) = Least(x, M), b = Least(y, M)
  PROVE  Least(a + b, M) = Least(x + y, M)
BY DEF Least

(* Saturating every summand or the sum alone is the same, once saturated.  *)
LEMMA SaturatedTotal ==
  ASSUME NEW n \in Nat, NEW s \in [1 .. n -> Nat], NEW M \in Nat,
         NEW t \in [1 .. n -> Nat], \A i \in 1 .. n : t[i] = Least(s[i], M)
  PROVE  /\ Least(Total(t), M) = Least(Total(s), M)
         /\ Total(t) \in Nat /\ Total(s) \in Nat
<1>1. PICK u : Adds(u, n, s) /\ u[n] = Total(s)
  BY TotalAdds
<1>2. PICK v : Adds(v, n, t) /\ v[n] = Total(t)
  BY TotalAdds
<1> DEFINE S == {i \in 0 .. n : Least(v[i], M) = Least(u[i], M)}
<1>3. 0 \in S
  BY <1>1, <1>2 DEF Adds
<1>4. ASSUME NEW i \in 1 .. n, i - 1 \in S PROVE i \in S
  <2> DEFINE x == u[i - 1]
             y == s[i]
             a == v[i - 1]
             b == t[i]
  <2>1. u[i] = x + y /\ v[i] = a + b /\ i - 1 \in 0 .. n
    BY <1>1, <1>2 DEF Adds
  <2>2. x \in Nat /\ a \in Nat /\ y \in Nat /\ b \in Nat
    BY <1>1, <1>2, <2>1 DEF Adds
  <2>3. Least(a, M) = Least(x, M) /\ b = Least(y, M)
    BY <1>4
  <2> HIDE DEF x, y, a, b
  <2>4. Least(a + b, M) = Least(x + y, M)
    BY <2>2, <2>3, SaturatedSum
  <2> QED BY <2>1, <2>4
<1> HIDE DEF S
<1>5. \A i \in 0 .. n : i \in S
  BY <1>3, <1>4, IntervalIsReached
<1>6. n \in S /\ n \in 0 .. n
  BY <1>5
<1> QED BY <1>1, <1>2, <1>6 DEF S, Adds

(* A common factor can be taken out of a sum.                              *)
LEMMA TotalOfProducts ==
  ASSUME NEW n \in Nat, NEW s \in [1 .. n -> Nat], NEW m \in Nat,
         NEW t \in [1 .. n -> Nat], \A i \in 1 .. n : t[i] = m * s[i]
  PROVE  Total(t) = m * Total(s)
<1>1. PICK u : Adds(u, n, s) /\ u[n] = Total(s)
  BY TotalAdds
<1>2. PICK v : Adds(v, n, t) /\ v[n] = Total(t)
  BY TotalAdds
<1> DEFINE S == {i \in 0 .. n : v[i] = m * u[i]}
<1>3. 0 \in S
  BY <1>1, <1>2 DEF Adds
<1>4. ASSUME NEW i \in 1 .. n, i - 1 \in S PROVE i \in S
  <2> DEFINE x == u[i - 1]
             y == s[i]
  <2>1. u[i] = x + y /\ v[i] = v[i - 1] + t[i] /\ i - 1 \in 0 .. n
    BY <1>1, <1>2 DEF Adds
  <2>2. x \in Nat /\ y \in Nat
    BY <1>1, <2>1 DEF Adds
  <2>3. v[i - 1] = m * x /\ t[i] = m * y
    BY <1>4
  <2> HIDE DEF x, y
  <2>4. m * (x + y) = m * x + m * y
    BY <2>2
  <2> QED BY <2>1, <2>3, <2>4
<1> HIDE DEF S
<1>5. \A i \in 0 .. n : i \in S
  BY <1>3, <1>4, IntervalIsReached
<1>6. n \in S
  BY <1>5
<1> QED BY <1>1, <1>2, <1>6 DEF S

(***************************************************************************)
(* Scores                                                                  *)
(***************************************************************************)

JudgementType ==
  [score : Nat, multiplied : BOOLEAN, increase : BOOLEAN, bonus : BOOLEAN]

Spinners == [kind : {"spinner"}, possible : Nat, required : Nat]

LEMMA HalfSpinIs ==
  ASSUME NEW i \in Nat, NEW q \in Nat
  PROVE  HalfSpin(i, q) \in Seq(JudgementType)
<1>1. Bonus(1100) \in JudgementType /\ Bonus(100) \in JudgementType
  BY DEF Bonus, JudgementType
<1>2. \A j \in JudgementType : <<j>> \in Seq(JudgementType)
  OBVIOUS
<1>3. <<>> \in Seq(JudgementType)
  OBVIOUS
<1> QED BY <1>1, <1>2, <1>3 DEF HalfSpin

LEMMA HalfSpinsAre ==
  ASSUME NEW h \in Spinners
  PROVE  HalfSpins(h) \in Seq(JudgementType)
<1> DEFINE n == h.possible
           q == h.required + 3
           T == Seq(JudgementType)
           Run(f) == f = [i \in 0 .. n |-> IF i = 0 THEN <<>> ELSE f[i - 1] \o HalfSpin(i, q)]
           step == [i \in 1 .. n |-> [s \in T |-> s \o HalfSpin(i, q)]]
<1>1. n \in Nat /\ q \in Nat
  BY DEF Spinners
<1>2. HalfSpins(h) = (CHOOSE f : Run(f))[n]
  BY DEF HalfSpins
<1> HIDE DEF n, q
<1>3. \A i \in 1 .. n : HalfSpin(i, q) \in T
  BY <1>1, HalfSpinIs
<1>4. <<>> \in T /\ \A s, t \in T : s \o t \in T
  OBVIOUS
<1> HIDE DEF T
<1>5. step \in [1 .. n -> [T -> T]]
  BY <1>3, <1>4
<1>6. \A i \in 1 .. n, s \in T : step[i][s] = s \o HalfSpin(i, q)
  OBVIOUS
<1> HIDE DEF step
<1>7. PICK f : Iterates(f, n, T, <<>>, step)
  BY <1>1, <1>4, <1>5, RecursionExists
<1>8. /\ f \in [0 .. n -> T] /\ f[0] = <<>>
      /\ \A i \in 1 .. n : f[i] = step[i][f[i - 1]]
  BY <1>7 DEF Iterates
<1>9. ASSUME NEW i \in 1 .. n PROVE f[i] = f[i - 1] \o HalfSpin(i, q)
  <2>1. f[i - 1] \in T
    BY <1>1, <1>8
  <2>2. step[i][f[i - 1]] = f[i - 1] \o HalfSpin(i, q)
    BY <1>6, <2>1
  <2> QED BY <1>8, <2>2
<1>10. Run(f)
  BY <1>8, <1>9
<1> HIDE DEF Run
<1> DEFINE g == CHOOSE g : Run(g)
<1>11. Run(g)
  BY <1>10
<1> HIDE DEF g
<1>12. g[0] = <<>> /\ \A i \in 1 .. n : g[i] = g[i - 1] \o HalfSpin(i, q)
  <2>1. g = [i \in 0 .. n |-> IF i = 0 THEN <<>> ELSE g[i - 1] \o HalfSpin(i, q)]
    BY <1>11 DEF Run
  <2>2. 0 \in 0 .. n
    BY <1>1
  <2>3. g[0] = <<>>
    BY <2>1, <2>2, Zenon
  <2>4. ASSUME NEW i \in 1 .. n PROVE g[i] = g[i - 1] \o HalfSpin(i, q)
    <3>1. i \in 0 .. n /\ i # 0
      BY <1>1
    <3> QED BY <2>1, <3>1, Zenon
  <2> QED BY <2>3, <2>4
<1> DEFINE S == {i \in 0 .. n : g[i] \in T}
<1>13. 0 \in S
  BY <1>1, <1>4, <1>12
<1>14. ASSUME NEW i \in 1 .. n, i - 1 \in S PROVE i \in S
  <2>1. g[i - 1] \in T /\ HalfSpin(i, q) \in T /\ i \in 0 .. n
    BY <1>1, <1>3, <1>14
  <2>2. g[i - 1] \o HalfSpin(i, q) \in T
    BY <1>4, <2>1
  <2> QED BY <1>12, <2>1, <2>2
<1> HIDE DEF S
<1>15. \A i \in 0 .. n : i \in S
  BY <1>1, <1>13, <1>14, IntervalIsReached
<1>16. n \in S
  BY <1>1, <1>15
<1> QED BY <1>2, <1>16 DEF S, g, T

LEMMA JudgementsAre ==
  ASSUME NEW h \in HitObjects
  PROVE  Judgements(h) \in Seq(JudgementType)
<1> DEFINE J == JudgementType
<1>1. /\ <<Judged(300, TRUE, TRUE)>> \in Seq(J)
      /\ <<Judged(30, FALSE, TRUE)>> \in Seq(J)
      /\ <<Judged(300, TRUE, FALSE)>> \in Seq(J)
      /\ Judged(10, FALSE, TRUE) \in J /\ Judged(30, FALSE, TRUE) \in J
  BY DEF Judged, JudgementType
<1>2. \A s, t \in Seq(J) : s \o t \in Seq(J)
  OBVIOUS
<1> HIDE DEF J
<1>3. CASE h \in [kind : {"circle"}]
  <2>1. h.kind = "circle"
    BY <1>3
  <2> QED BY <1>1, <2>1 DEF Judgements, J
<1>4. CASE h \in [kind : {"slider"}, nested : Seq({"tick", "repeat"})]
  <2> DEFINE nested == [i \in 1 .. Len(h.nested) |->
                         Judged(IF h.nested[i] = "tick" THEN 10 ELSE 30, FALSE, TRUE)]
  <2>1. h.kind = "slider" /\ Len(h.nested) \in Nat
    BY <1>4
  <2>2. nested \in Seq(J)
    <3>1. \A i \in 1 .. Len(h.nested) :
            Judged(IF h.nested[i] = "tick" THEN 10 ELSE 30, FALSE, TRUE) \in J
      BY <1>1
    <3>2. nested \in [1 .. Len(h.nested) -> J]
      BY <3>1
    <3> HIDE DEF nested
    <3> QED BY <2>1, <3>2
  <2>3. Judgements(h) = <<Judged(30, FALSE, TRUE)>> \o nested \o <<Judged(300, TRUE, FALSE)>>
    BY <2>1 DEF Judgements
  <2> HIDE DEF nested
  <2>4. <<Judged(30, FALSE, TRUE)>> \o nested \in Seq(J)
    BY <1>1, <1>2, <2>2
  <2>5. <<Judged(30, FALSE, TRUE)>> \o nested \o <<Judged(300, TRUE, FALSE)>> \in Seq(J)
    BY <1>1, <1>2, <2>4
  <2> QED BY <2>3, <2>5 DEF J
<1>5. CASE h \in Spinners
  <2>1. h.kind = "spinner"
    BY <1>5 DEF Spinners
  <2>2. HalfSpins(h) \in Seq(J)
    BY <1>5, HalfSpinsAre DEF J
  <2>3. Judgements(h) = HalfSpins(h) \o <<Judged(300, TRUE, TRUE)>>
    BY <2>1 DEF Judgements
  <2>4. HalfSpins(h) \o <<Judged(300, TRUE, TRUE)>> \in Seq(J)
    BY <1>1, <1>2, <2>2
  <2> QED BY <2>3, <2>4 DEF J
<1> QED BY <1>3, <1>4, <1>5 DEF HitObjects, Spinners

LEMMA JudgeIs ==
  ASSUME NEW s \in Scores, NEW j \in JudgementType
  PROVE  Judge(s, j) \in Scores
<1>1. s.combo \in Nat /\ s.accuracy \in Nat /\ s.bonus \in Nat /\ s.factors \in Seq(Nat)
  BY DEF Scores
<1>2. j.score \in Nat /\ j.multiplied \in BOOLEAN /\ j.increase \in BOOLEAN /\ j.bonus \in BOOLEAN
  BY DEF JudgementType
<1> DEFINE factor == SaturatingSub(s.combo, 1) * (j.score \div 25)
<1>3. factor \in Nat
  <2>1. SaturatingSub(s.combo, 1) \in Nat /\ j.score \div 25 \in Nat
    BY <1>1, <1>2 DEF SaturatingSub
  <2> QED BY <2>1
<1> HIDE DEF factor
<1>4. Append(s.factors, factor) \in Seq(Nat)
  BY <1>1, <1>3
<1> DEFINE combo == IF j.increase THEN s.combo + 1 ELSE s.combo
           accuracy == IF j.bonus THEN s.accuracy ELSE s.accuracy + j.score
           bonus == IF j.bonus THEN s.bonus + j.score ELSE s.bonus
           factors == IF j.multiplied THEN Append(s.factors, factor) ELSE s.factors
<1>5. combo \in Nat /\ accuracy \in Nat /\ bonus \in Nat /\ factors \in Seq(Nat)
  <2>1. combo \in Nat
    BY <1>1, <1>2
  <2>2. accuracy \in Nat
    BY <1>1, <1>2
  <2>3. bonus \in Nat
    BY <1>1, <1>2
  <2>4. factors \in Seq(Nat)
    BY <1>1, <1>4
  <2> QED BY <2>1, <2>2, <2>3, <2>4
<1>6. Judge(s, j) = [s EXCEPT !.combo = combo, !.accuracy = accuracy,
                              !.bonus = bonus, !.factors = factors]
  BY DEF Judge, factor
<1> HIDE DEF combo, accuracy, bonus, factors
<1> QED BY <1>5, <1>6 DEF Scores

LEMMA SimulateHitIs ==
  ASSUME NEW s \in Scores, NEW h \in HitObjects
  PROVE  SimulateHit(s, h) \in Scores
<1> DEFINE js == Judgements(h)
           n == Len(js)
           Run(f) == f = [i \in 0 .. n |-> IF i = 0 THEN s ELSE Judge(f[i - 1], js[i])]
           step == [i \in 1 .. n |-> [r \in Scores |-> Judge(r, js[i])]]
<1>1. n \in Nat /\ \A i \in 1 .. n : js[i] \in JudgementType
  BY JudgementsAre
<1>2. SimulateHit(s, h) = (CHOOSE f : Run(f))[n]
  BY DEF SimulateHit
<1> HIDE DEF js, n
<1>3. \A i \in 1 .. n, r \in Scores : Judge(r, js[i]) \in Scores
  BY <1>1, JudgeIs
<1>4. step \in [1 .. n -> [Scores -> Scores]]
  BY <1>3
<1>5. \A i \in 1 .. n, r \in Scores : step[i][r] = Judge(r, js[i])
  OBVIOUS
<1> HIDE DEF step
<1>6. PICK f : Iterates(f, n, Scores, s, step)
  BY <1>1, <1>4, RecursionExists
<1>7. /\ f \in [0 .. n -> Scores] /\ f[0] = s
      /\ \A i \in 1 .. n : f[i] = step[i][f[i - 1]]
  BY <1>6 DEF Iterates
<1>8. ASSUME NEW i \in 1 .. n PROVE f[i] = Judge(f[i - 1], js[i])
  <2>1. f[i - 1] \in Scores
    BY <1>1, <1>7
  <2>2. step[i][f[i - 1]] = Judge(f[i - 1], js[i])
    BY <1>5, <2>1
  <2> QED BY <1>7, <2>2
<1>9. Run(f)
  BY <1>7, <1>8
<1> HIDE DEF Run
<1> DEFINE g == CHOOSE g : Run(g)
<1>10. Run(g)
  BY <1>9
<1> HIDE DEF g
<1>11. g[0] = s /\ \A i \in 1 .. n : g[i] = Judge(g[i - 1], js[i])
  BY <1>1, <1>10 DEF Run
<1> DEFINE S == {i \in 0 .. n : g[i] \in Scores}
<1>12. 0 \in S
  BY <1>1, <1>11
<1>13. \A i \in 1 .. n : i - 1 \in S => i \in S
  BY <1>1, <1>3, <1>11
<1> HIDE DEF S
<1>14. \A i \in 0 .. n : i \in S
  BY <1>1, <1>12, <1>13, IntervalIsReached
<1>15. n \in S
  BY <1>1, <1>14
<1> QED BY <1>2, <1>15 DEF S, g

(* The one-shot score of k objects is that of k - 1 and one object more.   *)
LEMMA RegularScoreIs ==
  ASSUME map \in Maps
  PROVE  /\ RegularScore(0) = NoScore
         /\ \A k \in 0 .. Len(map.starts) : RegularScore(k) \in Scores
         /\ \A k \in 1 .. Len(map.starts) :
              RegularScore(k) = SimulateHit(RegularScore(k - 1), map.kinds[k])
<1> DEFINE n == Len(map.starts)
           Run(f, k) == f = [i \in 0 .. k |-> IF i = 0 THEN NoScore
                                              ELSE SimulateHit(f[i - 1], map.kinds[i])]
           step == [i \in 1 .. n |-> [r \in Scores |-> SimulateHit(r, map.kinds[i])]]
<1>1. n \in Nat /\ \A i \in 1 .. n : map.kinds[i] \in HitObjects
  BY MapsAssumption DEF IsMap
<1>2. \A k : RegularScore(k) = (CHOOSE f : Run(f, k))[k]
  BY DEF RegularScore
<1>3. NoScore \in Scores
  BY DEF NoScore, Scores
<1> HIDE DEF n
<1>4. \A i \in 1 .. n, r \in Scores : SimulateHit(r, map.kinds[i]) \in Scores
  BY <1>1, SimulateHitIs
<1>5. step \in [1 .. n -> [Scores -> Scores]]
  BY <1>4
<1>6. \A i \in 1 .. n, r \in Scores : step[i][r] = SimulateHit(r, map.kinds[i])
  OBVIOUS
<1> HIDE DEF step
<1>7. PICK w : Iterates(w, n, Scores, NoScore, step)
  BY <1>1, <1>3, <1>5, RecursionExists
<1>8. /\ w \in [0 .. n -> Scores] /\ w[0] = NoScore
      /\ \A i \in 1 .. n : w[i] = step[i][w[i - 1]]
  BY <1>7 DEF Iterates
<1>9. ASSUME NEW i \in 1 .. n PROVE w[i] = SimulateHit(w[i - 1], map.kinds[i])
  <2>1. w[i - 1] \in Scores
    BY <1>1, <1>8
  <2>2. step[i][w[i - 1]] = SimulateHit(w[i - 1], map.kinds[i])
    BY <1>6, <2>1
  <2> QED BY <1>8, <2>2
<1>10. ASSUME NEW k \in 0 .. n PROVE RegularScore(k) = w[k]
  <2> DEFINE f == [i \in 0 .. k |-> w[i]]
  <2>1. \A i \in 0 .. k : f[i] = IF i = 0 THEN NoScore ELSE SimulateHit(f[i - 1], map.kinds[i])
    BY <1>1, <1>8, <1>9
  <2>2. Run(f, k)
    BY <2>1
  <2> HIDE DEF Run, f
  <2> DEFINE g == CHOOSE g : Run(g, k)
  <2>3. Run(g, k)
    BY <2>2
  <2> HIDE DEF g
  <2>4. g[0] = NoScore /\ \A i \in 1 .. k : g[i] = SimulateHit(g[i - 1], map.kinds[i])
    BY <1>1, <2>3 DEF Run
  <2> DEFINE S == {i \in 0 .. k : g[i] = w[i]}
  <2>5. 0 \in S /\ k \in Nat
    BY <1>1, <1>8, <2>4
  <2>6. \A i \in 1 .. k : i - 1 \in S => i \in S
    BY <1>1, <1>9, <2>4
  <2> HIDE DEF S
  <2>7. \A i \in 0 .. k : i \in S
    BY <2>5, <2>6, IntervalIsReached
  <2>8. k \in S
    BY <1>1, <2>7
  <2> QED BY <1>2, <2>8 DEF S, g
<1>11. /\ RegularScore(0) = NoScore
       /\ \A k \in 0 .. n : RegularScore(k) \in Scores
       /\ \A k \in 1 .. n : RegularScore(k) = SimulateHit(RegularScore(k - 1), map.kinds[k])
  BY <1>1, <1>8, <1>9, <1>10
<1> QED BY <1>11 DEF n

(***************************************************************************)
(* Breaks                                                                  *)
(***************************************************************************)

(* What a map is, part by part.                                            *)
LEMMA MapParts ==
  ASSUME map \in Maps
  PROVE  /\ Len(map.starts) \in Nat /\ Len(map.breaks) \in Nat
         /\ \A i \in 1 .. Len(map.starts) : map.starts[i] \in Int
         /\ \A i \in 1 .. Len(map.starts) : map.kinds[i] \in HitObjects
         /\ Len(map.kinds) = Len(map.starts)
         /\ \A b \in 1 .. Len(map.breaks) :
              /\ map.breaks[b].start \in Int /\ map.breaks[b].end \in Int
              /\ map.breaks[b].start <= map.breaks[b].end
<1>1. /\ map.starts \in Seq(Int) /\ map.kinds \in Seq(HitObjects)
      /\ map.breaks \in Seq([start : Int, end : Int])
      /\ Len(map.kinds) = Len(map.starts)
      /\ \A b \in 1 .. Len(map.breaks) : map.breaks[b].start <= map.breaks[b].end
  BY MapsAssumption DEF IsMap
<1> DEFINE H == HitObjects
           B == [start : Int, end : Int]
<1>2. \A i \in 1 .. Len(map.starts) : map.starts[i] \in Int
  BY <1>1
<1>3. \A i \in 1 .. Len(map.starts) : map.kinds[i] \in H
  <2>1. map.kinds \in Seq(H) /\ Len(map.kinds) = Len(map.starts)
    BY <1>1
  <2> HIDE DEF H
  <2> QED BY <2>1
<1>4. \A b \in 1 .. Len(map.breaks) : map.breaks[b] \in B
  <2>1. map.breaks \in Seq(B)
    BY <1>1
  <2> HIDE DEF B
  <2> QED BY <2>1
<1>5. \A b \in 1 .. Len(map.breaks) : map.breaks[b].start \in Int /\ map.breaks[b].end \in Int
  BY <1>4
<1>6. Len(map.starts) \in Nat /\ Len(map.breaks) \in Nat
  BY <1>1
<1> QED BY <1>1, <1>2, <1>3, <1>5, <1>6

LEMMA StartsAreOrdered ==
  ASSUME map \in Maps
  PROVE  \A i, j \in 1 .. Len(map.starts) : i <= j => map.starts[i] <= map.starts[j]
BY MapsAssumption DEF IsMap

Lengths(n) == [i \in 1 .. n |-> map.breaks[i].end - map.breaks[i].start]

LEMMA LengthsAre ==
  ASSUME map \in Maps, NEW n \in 0 .. Len(map.breaks)
  PROVE  Lengths(n) \in [1 .. n -> Nat] /\ FirstBreaks(n) = Total(Lengths(n))
<1>1. \A i \in 1 .. n : map.breaks[i].end - map.breaks[i].start \in Nat
  BY MapParts
<1> QED BY <1>1 DEF Lengths, FirstBreaks

LEMMA FirstBreaksGrow ==
  ASSUME map \in Maps
  PROVE  /\ FirstBreaks(0) = 0
         /\ \A n \in 0 .. Len(map.breaks) : FirstBreaks(n) \in Nat
         /\ \A n \in 1 .. Len(map.breaks) :
              FirstBreaks(n) = FirstBreaks(n - 1) + map.breaks[n].end - map.breaks[n].start
<1>1. Len(map.breaks) \in Nat
  BY MapParts
<1>2. ASSUME NEW n \in 0 .. Len(map.breaks)
      PROVE  FirstBreaks(n) \in Nat /\ (n = 0 => FirstBreaks(n) = 0)
  <2> DEFINE s == Lengths(n)
  <2>1. n \in Nat /\ s \in [1 .. n -> Nat] /\ FirstBreaks(n) = Total(s)
    BY <1>1, LengthsAre
  <2> HIDE DEF s
  <2>2. PICK u : Adds(u, n, s) /\ u[n] = Total(s)
    BY <2>1, TotalAdds
  <2> QED BY <2>1, <2>2 DEF Adds
<1>3. ASSUME NEW n \in 1 .. Len(map.breaks)
      PROVE  FirstBreaks(n) = FirstBreaks(n - 1) + map.breaks[n].end - map.breaks[n].start
  <2>1. n \in Nat \ {0} /\ n \in 0 .. Len(map.breaks) /\ n - 1 \in 0 .. Len(map.breaks)
    BY <1>1
  <2> DEFINE s == Lengths(n)
             t == Lengths(n - 1)
  <2>2. s \in [1 .. n -> Nat] /\ t \in [1 .. n - 1 -> Nat]
    BY <2>1, LengthsAre
  <2>3. \A i \in 1 .. n - 1 : t[i] = s[i]
    BY <2>1 DEF Lengths
  <2>4. s[n] = map.breaks[n].end - map.breaks[n].start
    BY <2>1 DEF Lengths
  <2>5. FirstBreaks(n) = Total(s) /\ FirstBreaks(n - 1) = Total(t)
    BY <2>1, LengthsAre
  <2> HIDE DEF s, t
  <2>6. Total(s) = Total(t) + s[n] /\ Total(s) \in Nat /\ Total(t) \in Nat
    BY <2>1, <2>2, <2>3, TotalGrowsBy
  <2> QED BY <1>1, <2>4, <2>5, <2>6, MapParts
<1> QED BY <1>1, <1>2, <1>3

Covered(b, t) == Greatest(0, Least(map.breaks[b].end, t) - map.breaks[b].start)

(* What breaks cover up to an instant is at least the k that are over and  *)
(* what the next one covers, and just the k if no other has begun.         *)
LEMMA BreaksCover ==
  ASSUME map \in Maps, NEW t \in Int, NEW k \in 0 .. Len(map.breaks),
         \A b \in 1 .. k : map.breaks[b].end < t
  PROVE  /\ BreakTime(t) \in Nat
         /\ FirstBreaks(k) <= BreakTime(t)
         /\ k < Len(map.breaks) => FirstBreaks(k) + Covered(k + 1, t) <= BreakTime(t)
         /\ (\A b \in k + 1 .. Len(map.breaks) : map.breaks[b].start >= t)
              => FirstBreaks(k) = BreakTime(t)
<1> DEFINE n == Len(map.breaks)
           s == [b \in 1 .. n |-> Covered(b, t)]
<1>1. n \in Nat /\ k \in Nat /\ k <= n
  BY MapParts
<1>2. \A b \in 1 .. n : Covered(b, t) \in Nat
  BY MapParts DEF Covered, Greatest, Least
<1>3. s \in [1 .. n -> Nat] /\ \A b \in 1 .. n : s[b] = Covered(b, t)
  BY <1>2
<1>4. BreakTime(t) = Total(s)
  BY DEF BreakTime, Covered
<1>5. Lengths(k) \in [1 .. k -> Nat] /\ FirstBreaks(k) = Total(Lengths(k))
  BY LengthsAre
<1>6. ASSUME NEW b \in 1 .. k PROVE Lengths(k)[b] = s[b]
  <2>1. b \in 1 .. n /\ map.breaks[b].end < t
    BY <1>1
  <2>2. Covered(b, t) = map.breaks[b].end - map.breaks[b].start
    BY <2>1, MapParts DEF Covered, Greatest, Least
  <2> QED BY <1>3, <2>1, <2>2 DEF Lengths
<1>7. (\A b \in k + 1 .. n : map.breaks[b].start >= t) => \A b \in k + 1 .. n : s[b] = 0
  <2> SUFFICES ASSUME NEW b \in k + 1 .. n, map.breaks[b].start >= t PROVE s[b] = 0
    OBVIOUS
  <2>1. b \in 1 .. n
    BY <1>1
  <2>2. Covered(b, t) = 0
    BY <2>1, MapParts DEF Covered, Greatest, Least
  <2> QED BY <1>3, <2>1, <2>2
<1> HIDE DEF s
<1>8. /\ Total(s) \in Nat /\ Total(Lengths(k)) <= Total(s)
      /\ (\A b \in k + 1 .. n : s[b] = 0) => Total(Lengths(k)) = Total(s)
  <2> DEFINE p == Lengths(k)
  <2>1. p \in [1 .. k -> Nat] /\ \A b \in 1 .. k : p[b] = s[b]
    BY <1>5, <1>6
  <2> HIDE DEF p, n
  <2>2. k \in 0 .. n /\ n \in Nat
    BY <1>1
  <2>3. s \in [1 .. n -> Nat]
    BY <1>3
  <2>4. /\ Total(s) \in Nat /\ Total(p) <= Total(s)
        /\ (\A b \in k + 1 .. n : s[b] = 0) => Total(p) = Total(s)
    BY <2>1, <2>2, <2>3, TotalOfPrefix, ZenonT(60)
  <2> QED BY <2>4 DEF p
<1>9. ASSUME k < n PROVE FirstBreaks(k) + Covered(k + 1, t) <= BreakTime(t)
  <2> DEFINE p == [b \in 1 .. k + 1 |-> s[b]]
  <2>1. k + 1 \in 0 .. n /\ k + 1 \in Nat \ {0} /\ k + 1 \in 1 .. n
    BY <1>1, <1>9
  <2>2. p \in [1 .. k + 1 -> Nat] /\ (\A b \in 1 .. k + 1 : p[b] = s[b])
    BY <1>3, <2>1
  <2>3. \A b \in 1 .. (k + 1) - 1 : Lengths(k)[b] = p[b]
    BY <1>1, <1>6, <2>2
  <2>4. Lengths(k) \in [1 .. (k + 1) - 1 -> Nat]
    BY <1>1, <1>5
  <2> HIDE DEF p
  <2>5. Total(p) = Total(Lengths(k)) + p[k + 1]
    BY <2>1, <2>2, <2>3, <2>4, TotalGrowsBy
  <2>6. Total(p) <= Total(s)
    BY <1>1, <1>3, <2>1, <2>2, TotalOfPrefix
  <2>7. p[k + 1] = Covered(k + 1, t)
    BY <1>3, <2>1, <2>2
  <2> QED BY <1>4, <1>5, <2>5, <2>6, <2>7
<1> QED BY <1>4, <1>5, <1>7, <1>8, <1>9

(***************************************************************************)
(* Every step keeps the invariant                                          *)
(***************************************************************************)

LEMMA SimParts ==
  ASSUME IInv
  PROVE  /\ map \in Maps /\ sim \in Sims
         /\ sim.next_break \in 1 .. Len(map.breaks) + 1
         /\ sim.elapsed \in Nat /\ sim.prelim \in Nat
         /\ sim.object_count \in 0 .. Len(map.starts) /\ sim.start_time \in Int
         /\ sim.score \in Scores
BY DEF IInv, Sims

LEMMA InitIsIInv == Init => IInv
<1> SUFFICES ASSUME Init PROVE IInv
  OBVIOUS
<1>1. map \in Maps /\ pc = "idle"
  BY DEF Init
<1>2. /\ sim.next_break = 1 /\ sim.elapsed = 0 /\ sim.prelim = 0
      /\ sim.object_count = 0 /\ sim.start_time = 0 /\ sim.score = NoScore
  BY DEF Init
<1>3. sim \in Sims
  BY <1>1, MapParts DEF Init, Sims, Scores, NoScore
<1>4. sim.prelim = FirstBreaks(sim.next_break - 1)
  BY <1>1, <1>2, FirstBreaksGrow
<1>5. sim.score = RegularScore(sim.object_count)
  BY <1>1, <1>2, RegularScoreIs
<1>6. Measured /\ PassedBreaksAreOver /\ NextBreakIsAhead
  BY <1>1, <1>2 DEF Measured, PassedBreaksAreOver, NextBreakIsAhead, Counted
<1> QED BY <1>1, <1>2, <1>3, <1>4, <1>5, <1>6 DEF IInv

LEMMA SimulateNextKeeps ==
  ASSUME IInv, SimulateNext PROVE IInv'
<1>1. /\ pc = "idle" /\ pc' = "breaks" /\ map' = map /\ sim' = sim
      /\ sim.object_count < Len(map.starts)
  BY DEF SimulateNext
<1>2. sim.elapsed = 0
  BY <1>1 DEF IInv, Measured
<1>3. Measured'
  BY <1>1, <1>2 DEF Measured
<1>4. PassedBreaksAreOver'
  <2> SUFFICES ASSUME NEW b \in 1 .. sim.next_break - 1
               PROVE  map.breaks[b].end < map.starts[sim.object_count + 1]
    BY <1>1 DEF PassedBreaksAreOver, Time
  <2>1. sim.object_count > 0 /\ map.breaks[b].end < map.starts[sim.object_count]
    BY <1>1 DEF IInv, PassedBreaksAreOver
  <2>2. sim.object_count \in 1 .. Len(map.starts) /\ sim.object_count + 1 \in 1 .. Len(map.starts)
    <3>1. sim.object_count \in 0 .. Len(map.starts) /\ Len(map.starts) \in Nat
      BY SimParts, MapParts
    <3> QED BY <1>1, <2>1, <3>1
  <2>3. map.starts[sim.object_count] <= map.starts[sim.object_count + 1]
    <3>1. \A i, j \in 1 .. Len(map.starts) : i <= j => map.starts[i] <= map.starts[j]
      BY SimParts, StartsAreOrdered
    <3>2. sim.object_count <= sim.object_count + 1
      BY <2>2
    <3> QED BY <2>2, <3>1, <3>2
  <2>4. b \in 1 .. Len(map.breaks)
    BY SimParts, MapParts
  <2>5. /\ map.breaks[b].end \in Int
        /\ map.starts[sim.object_count] \in Int /\ map.starts[sim.object_count + 1] \in Int
    BY <2>2, <2>4, SimParts, MapParts
  <2> QED BY <2>1, <2>3, <2>5
<1>5. NextBreakIsAhead'
  BY <1>1 DEF NextBreakIsAhead, Counted
<1>6. sim' \in Sims' /\ (sim.score = RegularScore(sim.object_count))'
  BY <1>1 DEF IInv, Sims, RegularScore
<1>7. (sim.prelim = FirstBreaks(sim.next_break - 1))'
  BY <1>1 DEF IInv, FirstBreaks
<1> QED BY <1>1, <1>3, <1>4, <1>5, <1>6, <1>7 DEF IInv

LEMMA PassBreakKeeps ==
  ASSUME IInv, PassBreak PROVE IInv'
<1>1. /\ pc = "breaks" /\ pc' = pc /\ map' = map
      /\ HasBreak /\ Break.start < Time /\ Break.end < Time
      /\ sim' = [sim EXCEPT !.prelim = @ + Break.end - Break.start, !.elapsed = 0,
                            !.next_break = @ + 1]
  BY DEF PassBreak
<1>2. sim.next_break \in 1 .. Len(map.breaks)
  BY <1>1, SimParts, MapParts DEF HasBreak
<1>3. /\ sim'.next_break = sim.next_break + 1 /\ sim'.elapsed = 0
      /\ sim'.prelim = sim.prelim + Break.end - Break.start
      /\ sim'.object_count = sim.object_count /\ sim'.start_time = sim.start_time
      /\ sim'.score = sim.score
  BY <1>1, SimParts DEF Sims
<1>4. sim'.prelim = FirstBreaks(sim'.next_break - 1) /\ sim'.prelim \in Nat
  <2>1. sim.prelim = FirstBreaks(sim.next_break - 1)
    BY DEF IInv
  <2>2. /\ FirstBreaks(sim.next_break) =
             FirstBreaks(sim.next_break - 1) + Break.end - Break.start
        /\ FirstBreaks(sim.next_break) \in Nat
    <3> DEFINE n == sim.next_break
    <3>1. map \in Maps /\ n \in 1 .. Len(map.breaks) /\ n \in 0 .. Len(map.breaks)
      BY <1>2, SimParts, MapParts
    <3> HIDE DEF n
    <3>2. FirstBreaks(n) = FirstBreaks(n - 1) + map.breaks[n].end - map.breaks[n].start
      BY <3>1, FirstBreaksGrow
    <3>3. FirstBreaks(n) \in Nat
      BY <3>1, FirstBreaksGrow
    <3> QED BY <3>2, <3>3 DEF Break, n
  <2>3. sim'.next_break - 1 = sim.next_break
    BY <1>2, <1>3, SimParts, MapParts
  <2> QED BY <1>3, <2>1, <2>2, <2>3
<1>5. sim' \in Sims'
  <2>1. sim'.next_break \in 1 .. Len(map.breaks) + 1
    BY <1>2, <1>3, SimParts, MapParts
  <2> QED BY <1>1, <1>3, <1>4, <2>1, SimParts DEF Sims
<1>6. Measured'
  BY <1>3 DEF Measured
<1>7. PassedBreaksAreOver'
  <2> SUFFICES ASSUME NEW b \in 1 .. sim'.next_break - 1
               PROVE  map.breaks[b].end < map.starts[sim.object_count + 1]
    BY <1>1, <1>3 DEF PassedBreaksAreOver, Time
  <2>1. CASE b = sim.next_break
    BY <1>1, <2>1 DEF Break, Time
  <2>2. CASE b # sim.next_break
    <3>1. b \in 1 .. sim.next_break - 1
      BY <1>2, <1>3, <2>2, SimParts, MapParts
    <3> QED BY <1>1, <3>1 DEF IInv, PassedBreaksAreOver, Time
  <2> QED BY <2>1, <2>2
<1>8. NextBreakIsAhead'
  BY <1>1 DEF NextBreakIsAhead, Counted
<1>9. (sim.score = RegularScore(sim.object_count))'
  BY <1>1, <1>3 DEF IInv, RegularScore
<1>10. (sim.prelim = FirstBreaks(sim.next_break - 1))'
  BY <1>1, <1>4 DEF FirstBreaks
<1> QED BY <1>1, <1>3, <1>5, <1>6, <1>7, <1>8, <1>9, <1>10 DEF IInv

LEMMA InsideBreakKeeps ==
  ASSUME IInv, InsideBreak PROVE IInv'
<1>1. /\ pc = "breaks" /\ pc' = pc /\ map' = map
      /\ HasBreak /\ Break.start < Time /\ Break.end >= Time
      /\ sim' = [sim EXCEPT !.elapsed = Least(Break.end, Time) - Break.start]
  BY DEF InsideBreak
<1>2. sim.next_break \in 1 .. Len(map.breaks) /\ sim.object_count + 1 \in 1 .. Len(map.starts)
  BY <1>1, SimParts, MapParts DEF HasBreak, IInv
<1>3. Time \in Int /\ Break.start \in Int /\ Break.end \in Int
  BY <1>2, SimParts, MapParts DEF Time, Break
<1>4. /\ sim'.next_break = sim.next_break /\ sim'.prelim = sim.prelim
      /\ sim'.elapsed = Least(Break.end, Time) - Break.start
      /\ sim'.object_count = sim.object_count /\ sim'.start_time = sim.start_time
      /\ sim'.score = sim.score
  BY <1>1, SimParts DEF Sims
<1>5. sim'.elapsed = Time - Break.start /\ sim'.elapsed \in Nat
  BY <1>1, <1>3, <1>4 DEF Least
<1>6. sim' \in Sims'
  BY <1>1, <1>5, SimParts DEF Sims
<1>7. Measured'
  BY <1>1, <1>3, <1>4, <1>5 DEF Measured, HasBreak, Break, Time
<1>8. PassedBreaksAreOver'
  BY <1>1, <1>4 DEF IInv, PassedBreaksAreOver, Time
<1>9. NextBreakIsAhead'
  BY <1>1 DEF NextBreakIsAhead, Counted
<1>10. (sim.score = RegularScore(sim.object_count))'
  BY <1>1, <1>4 DEF IInv, RegularScore
<1>11. (sim.prelim = FirstBreaks(sim.next_break - 1))'
  BY <1>1, <1>4 DEF IInv, FirstBreaks
<1> QED BY <1>1, <1>4, <1>6, <1>7, <1>8, <1>9, <1>10, <1>11 DEF IInv

LEMMA FinishKeeps ==
  ASSUME IInv, Finish PROVE IInv'
<1>1. /\ pc = "breaks" /\ pc' = "idle" /\ map' = map
      /\ HasBreak => Break.start >= Time
      /\ sim' = [sim EXCEPT
                  !.object_count = @ + 1,
                  !.start_time = IF sim.object_count = 0 THEN Time ELSE @,
                  !.score = SimulateHit(@, map.kinds[sim.object_count + 1])]
  BY DEF Finish
<1> DEFINE k == sim.object_count + 1
<1>2. k \in 1 .. Len(map.starts) /\ sim.object_count \in Nat
  BY <1>1, SimParts, MapParts DEF IInv
<1>3. Time = map.starts[k] /\ Time \in Int
  BY <1>2, SimParts, MapParts DEF Time
<1>4. /\ sim'.next_break = sim.next_break /\ sim'.prelim = sim.prelim
      /\ sim'.elapsed = sim.elapsed /\ sim'.object_count = k
      /\ sim'.start_time = IF sim.object_count = 0 THEN Time ELSE sim.start_time
      /\ sim'.score = SimulateHit(sim.score, map.kinds[k])
  BY <1>1, SimParts DEF Sims
<1>5. sim.elapsed = 0
  <2> SUFFICES ASSUME HasBreak, Break.start < Time PROVE FALSE
    BY DEF IInv, Measured
  <2>1. sim.next_break \in 1 .. Len(map.breaks)
    BY SimParts, MapParts DEF HasBreak
  <2>2. Break.start \in Int
    BY <2>1, SimParts, MapParts DEF Break
  <2> QED BY <1>1, <1>3, <2>2
<1>6. sim'.score = RegularScore(k) /\ sim'.score \in Scores
  <2>1. sim.score = RegularScore(k - 1)
    BY <1>2 DEF IInv
  <2> HIDE DEF k
  <2>2. k \in 0 .. Len(map.starts)
    BY <1>2, SimParts, MapParts
  <2> QED BY <1>2, <1>4, <2>1, <2>2, SimParts, RegularScoreIs
<1>7. sim'.start_time = map.starts[1] /\ sim'.start_time \in Int
  <2>1. CASE sim.object_count = 0
    BY <1>3, <1>4, <2>1
  <2>2. CASE sim.object_count # 0
    BY <1>2, <1>4, <2>2, SimParts DEF IInv
  <2> QED BY <2>1, <2>2
<1>8. sim' \in Sims'
  <2> HIDE DEF k
  <2>1. k \in 0 .. Len(map.starts)
    BY <1>2, SimParts, MapParts
  <2> QED BY <1>1, <1>4, <1>6, <1>7, <2>1, SimParts DEF Sims, k
<1>9. Measured'
  BY <1>4, <1>5 DEF Measured
<1>10. PassedBreaksAreOver'
  <2> SUFFICES ASSUME NEW b \in 1 .. sim.next_break - 1
               PROVE  k > 0 /\ map.breaks[b].end < map.starts[k]
    BY <1>1, <1>4 DEF PassedBreaksAreOver
  <2> QED BY <1>1, <1>2, <1>3 DEF IInv, PassedBreaksAreOver
<1>11. NextBreakIsAhead'
  BY <1>1, <1>3, <1>4 DEF NextBreakIsAhead, HasBreak, Break
<1>12. (sim.score = RegularScore(sim.object_count))'
  BY <1>1, <1>4, <1>6 DEF RegularScore
<1>13. (sim.prelim = FirstBreaks(sim.next_break - 1))'
  BY <1>1, <1>4 DEF IInv, FirstBreaks
<1> QED BY <1>1, <1>7, <1>8, <1>9, <1>10, <1>11, <1>12, <1>13 DEF IInv

LEMMA StutterKeeps ==
  ASSUME IInv, UNCHANGED vars PROVE IInv'
BY DEF IInv, vars, Sims, Measured, PassedBreaksAreOver, NextBreakIsAhead, Counted, HasBreak,
       Break, Time, FirstBreaks, RegularScore

(* Whatever is called and however far its loop has come, the gradual       *)
(* simulator holds the breaks, times and scores the invariant says.        *)
THEOREM Invariance == Spec => []IInv
<1>1. ASSUME IInv, [Next]_vars PROVE IInv'
  BY <1>1, SimulateNextKeeps, PassBreakKeeps, InsideBreakKeeps, FinishKeeps, StutterKeeps
  DEF Next
<1> QED BY <1>1, InitIsIInv, PTL DEF Spec

(***************************************************************************)
(* What both simulators agree on                                           *)
(***************************************************************************)

(* The breaks taken at once are the breaks passed.                         *)
LEMMA TakenArePassed ==
  ASSUME IInv, Counted
  PROVE  RegularBreakLen(map.starts[sim.object_count]) = FirstBreaks(sim.next_break - 1)
<1> DEFINE t == map.starts[sim.object_count]
           n == Len(map.breaks)
           k == sim.next_break - 1
           taken == {m \in 0 .. n : \A i \in 1 .. m : map.breaks[i].end < t}
<1>1. n \in Nat /\ k \in 0 .. n /\ sim.object_count \in 1 .. Len(map.starts) /\ t \in Int
  <2>1. /\ n \in Nat /\ sim.next_break \in 1 .. n + 1
        /\ sim.object_count \in 1 .. Len(map.starts)
    BY SimParts, MapParts DEF Counted
  <2>2. t \in Int
    BY <2>1, SimParts, MapParts
  <2> QED BY <2>1, <2>2
<1>2. \A b \in 1 .. k : map.breaks[b].end < t
  BY DEF IInv, PassedBreaksAreOver, Counted
<1>3. k < n => map.breaks[k + 1].end >= t
  <2> SUFFICES ASSUME k < n PROVE map.breaks[k + 1].end >= t
    OBVIOUS
  <2>1. k + 1 = sim.next_break /\ k + 1 \in 1 .. n
    BY <1>1, SimParts
  <2>2. HasBreak /\ Break = map.breaks[k + 1]
    BY <1>1, <2>1 DEF HasBreak, Break
  <2>3. Break.start >= t
    BY <2>2 DEF IInv, NextBreakIsAhead
  <2>4. /\ map.breaks[k + 1].start \in Int /\ map.breaks[k + 1].end \in Int
        /\ map.breaks[k + 1].start <= map.breaks[k + 1].end
    BY <2>1, SimParts, MapParts
  <2> HIDE DEF k, t
  <2> QED BY <1>1, <2>2, <2>3, <2>4
<1> HIDE DEF t, k
<1>4. k \in taken
  BY <1>1, <1>2
<1>5. \A m \in taken : m <= k
  <2> SUFFICES ASSUME NEW m \in taken, m > k PROVE FALSE
    BY <1>1
  <2>1. m \in 0 .. n /\ \A i \in 1 .. m : map.breaks[i].end < t
    OBVIOUS
  <2>2. k + 1 \in 1 .. m /\ k < n /\ k + 1 \in 1 .. n
    BY <1>1, <2>1
  <2>3. map.breaks[k + 1].end < t /\ map.breaks[k + 1].end >= t
    BY <1>3, <2>1, <2>2
  <2>4. map.breaks[k + 1].end \in Int
    BY <2>2, SimParts, MapParts
  <2> HIDE DEF taken
  <2> QED BY <1>1, <2>3, <2>4 DEF t
<1>6. taken \subseteq Int
  BY <1>1
<1>7. RegularBreakLen(t) = FirstBreaks(Max(taken))
  BY DEF RegularBreakLen
<1> HIDE DEF taken
<1>8. Max(taken) = k
  <2> DEFINE m == Max(taken)
  <2>1. m \in taken /\ \A y \in taken : m >= y
    BY <1>1, <1>4, <1>5, <1>6 DEF Max
  <2> HIDE DEF m
  <2>2. m \in Int /\ k \in Int /\ m <= k /\ m >= k
    BY <1>1, <1>4, <1>5, <1>6, <2>1
  <2>3. m = k
    BY <2>2
  <2> QED BY <2>3 DEF m
<1> QED BY <1>7, <1>8 DEF t, k

LEMMA DrainIsRegular ==
  ASSUME IInv, Counted
  PROVE  GradualDrain = RegularDrain(sim.object_count) /\ GradualDrain \in Int
<1>1. sim.elapsed = 0 /\ sim.prelim = FirstBreaks(sim.next_break - 1) /\ sim.start_time = map.starts[1]
  BY DEF IInv, Measured, Counted
<1>2. BreakLen = RegularBreakLen(map.starts[sim.object_count]) /\ BreakLen \in Int
  BY <1>1, TakenArePassed, SimParts DEF BreakLen
<1>3. map.starts[sim.object_count] \in Int /\ map.starts[1] \in Int
  BY SimParts, MapParts DEF Counted
<1> QED BY <1>1, <1>2, <1>3 DEF GradualDrain, RegularDrain

(* The break time collected piece by piece is never more than the breaks   *)
(* cover, and leaves the drain length of the one-shot simulator.           *)
THEOREM DrainsAgree == Spec => []DrainAgrees
<1>1. ASSUME IInv PROVE DrainAgrees
  <2>1. Counted => GradualDrain = RegularDrain(sim.object_count)
    BY <1>1, DrainIsRegular
  <2>2. ASSUME pc = "breaks"
        PROVE  /\ BreakLen <= BreakTime(Time)
               /\ (BreaksAreOrdered /\ (HasBreak => Break.start >= Time))
                    => BreakLen = BreakTime(Time)
    <3> DEFINE k == sim.next_break - 1
               n == Len(map.breaks)
    <3>1. /\ k \in 0 .. n /\ n \in Nat
          /\ Time \in Int /\ sim.prelim = FirstBreaks(k) /\ sim.prelim \in Nat
          /\ sim.next_break = k + 1
      <4>1. sim.object_count + 1 \in 1 .. Len(map.starts)
        BY <1>1, <2>2, SimParts, MapParts DEF IInv
      <4>2. Time \in Int
        BY <1>1, <4>1, SimParts, MapParts DEF Time
      <4>3. sim.prelim = FirstBreaks(k)
        BY <1>1 DEF IInv
      <4> QED BY <1>1, <4>2, <4>3, SimParts, MapParts
    <3>2. \A b \in 1 .. k : map.breaks[b].end < Time
      BY <1>1, <2>2 DEF IInv, PassedBreaksAreOver
    <3> HIDE DEF k
    <3>3. /\ BreakTime(Time) \in Nat /\ FirstBreaks(k) <= BreakTime(Time)
          /\ k < n => FirstBreaks(k) + Covered(k + 1, Time) <= BreakTime(Time)
          /\ (\A b \in k + 1 .. n : map.breaks[b].start >= Time)
               => FirstBreaks(k) = BreakTime(Time)
      <4> HIDE DEF n
      <4> QED BY <1>1, <3>1, <3>2, SimParts, BreaksCover DEF n
    <3>4. CASE sim.elapsed = 0
      <4>1. BreakLen = FirstBreaks(k)
        BY <3>1, <3>4 DEF BreakLen
      <4>2. ASSUME BreaksAreOrdered, HasBreak => Break.start >= Time,
                   NEW b \in k + 1 .. n
            PROVE  map.breaks[b].start >= Time
        <5>1. k + 1 \in 1 .. n /\ b \in 1 .. n /\ k + 1 <= b
          BY <3>1
        <5>2. map.breaks[k + 1].start <= map.breaks[b].start
          BY <4>2, <5>1 DEF BreaksAreOrdered
        <5>3. map.breaks[k + 1].start >= Time
          BY <3>1, <4>2, <5>1 DEF HasBreak, Break
        <5>4. map.breaks[k + 1].start \in Int /\ map.breaks[b].start \in Int
          BY <1>1, <5>1, SimParts, MapParts
        <5> QED BY <3>1, <5>2, <5>3, <5>4
      <4> QED BY <3>3, <4>1, <4>2
    <3>5. CASE sim.elapsed # 0
      <4>1. /\ HasBreak /\ Break.start < Time /\ Time <= Break.end
            /\ sim.elapsed = Time - Break.start
        BY <1>1, <3>5 DEF IInv, Measured
      <4>2. k + 1 \in 1 .. n /\ Break = map.breaks[k + 1]
        BY <3>1, <4>1 DEF HasBreak, Break
      <4>3. Covered(k + 1, Time) = Time - Break.start
        <5>1. map.breaks[k + 1].start \in Int /\ map.breaks[k + 1].end \in Int
          BY <1>1, <4>2, SimParts, MapParts
        <5> QED BY <3>1, <4>1, <4>2, <5>1 DEF Covered, Greatest, Least
      <4>4. BreakLen <= BreakTime(Time)
        BY <3>1, <3>3, <4>1, <4>2, <4>3, SimParts DEF BreakLen
      <4>5. ~(Break.start >= Time)
        BY <1>1, <3>1, <4>1, <4>2, SimParts, MapParts
      <4> QED BY <4>1, <4>4, <4>5
    <3> QED BY <3>4, <3>5
  <2> QED BY <2>1, <2>2 DEF DrainAgrees
<1> QED BY <1>1, Invariance, PTL

(* Rounding a number that is not negative gives none.                      *)
LEMMA RoundingIsNatural ==
  ASSUME NEW n \in Nat, NEW d \in Nat \ {0}
  PROVE  RoundTiesEven(n, d) \in Nat
<1> DEFINE x == 2 * n + d
           y == 2 * d
           q == x \div y
<1>1. x \in Nat /\ y \in Nat \ {0}
  OBVIOUS
<1>2. q \in Nat
  <2> HIDE DEF x, y
  <2> QED BY <1>1
<1>3. RoundTiesEven(n, d) = IF x % y = 0 /\ q % 2 = 1 THEN q - 1 ELSE q
  BY DEF RoundTiesEven
<1> HIDE DEF q, x, y
<1>4. q % 2 = 1 => q >= 1
  BY <1>2
<1> QED BY <1>2, <1>3, <1>4

LEMMA PeppyStarsAreNatural ==
  ASSUME NEW d \in Nat, NEW count \in Nat, NEW drain \in Int
  PROVE  PeppyStars(d, count, drain) \in Nat
<1>1. CASE drain < 0
  <2>1. d * 5 \in Nat /\ 38 \in Nat \ {0}
    OBVIOUS
  <2> QED BY <1>1, <2>1, RoundingIsNatural DEF PeppyStars
<1>2. CASE drain >= 0 /\ count >= 2 * drain
  <2>1. (d + 16) * 5 \in Nat /\ 38 \in Nat \ {0} /\ ~(drain < 0)
    BY <1>2
  <2> QED BY <1>2, <2>1, RoundingIsNatural DEF PeppyStars
<1>3. CASE drain >= 0 /\ ~(count >= 2 * drain)
  <2> DEFINE x == (d * drain + 8 * count) * 5
             y == 38 * drain
  <2>1. d * drain \in Nat /\ drain \in Nat \ {0}
    BY <1>3
  <2>2. x \in Nat /\ y \in Nat \ {0} /\ ~(drain < 0)
    BY <1>3, <2>1
  <2>3. PeppyStars(d, count, drain) = RoundTiesEven(x, y)
    BY <1>3, <2>2 DEF PeppyStars
  <2> HIDE DEF x, y
  <2> QED BY <2>2, <2>3, RoundingIsNatural
<1> QED BY <1>1, <1>2, <1>3

(* Combo scores agree up to the cast to i32.                               *)
LEMMA ComboScoresAgree ==
  ASSUME IInv, Counted, NEW d \in Difficulties,
         RegularComboScore(sim.object_count, d) <= I32Max
  PROVE  GradualComboScore(d) = RegularComboScore(sim.object_count, d)
<1> DEFINE k == sim.object_count
           m == RegularMultiplier(k, d)
           f == sim.score.factors
           t == [i \in 1 .. Len(f) |-> AsI32(m * f[i])]
<1>1. k \in Nat /\ d \in Nat /\ I32Max \in Nat
  BY SimParts, MapParts, MapsAssumption
<1>2. GradualDrain = RegularDrain(k) /\ GradualDrain \in Int
  BY DrainIsRegular
<1>3. GradualMultiplier(d) = m
  BY <1>2 DEF GradualMultiplier, RegularMultiplier
<1>4. m \in Nat
  <2>1. Seconds(RegularDrain(k)) \in Int
    BY <1>2 DEF Seconds
  <2> QED BY <1>1, <2>1, PeppyStarsAreNatural DEF RegularMultiplier
<1>5. f \in Seq(Nat) /\ RegularScore(k).factors = f
  BY SimParts DEF Scores, IInv
<1>6. RegularComboScore(k, d) = Total(t)
  BY <1>5 DEF RegularComboScore
<1>7. GradualComboScore(d) = Least(m * Total(f), I32Max)
  BY <1>3 DEF GradualComboScore, AsI32
<1> HIDE DEF m, f, k
<1>8. f \in [1 .. Len(f) -> Nat] /\ Len(f) \in Nat
  BY <1>5
<1>9. \A i \in 1 .. Len(f) : m * f[i] \in Nat
  BY <1>4, <1>8
<1> DEFINE w == [i \in 1 .. Len(f) |-> m * f[i]]
<1>10. /\ t \in [1 .. Len(f) -> Nat] /\ w \in [1 .. Len(f) -> Nat]
       /\ \A i \in 1 .. Len(f) : w[i] = m * f[i] /\ t[i] = Least(w[i], I32Max)
  BY <1>1, <1>9 DEF AsI32, Least
<1> HIDE DEF t, w
<1>11. Least(Total(t), I32Max) = Least(m * Total(f), I32Max) /\ Total(t) \in Nat
  <2> DEFINE n == Len(f)
  <2>1. n \in Nat /\ w \in [1 .. n -> Nat]
    BY <1>8, <1>10
  <2>2. f \in [1 .. n -> Nat] /\ \A i \in 1 .. n : w[i] = m * f[i]
    BY <1>8, <1>10
  <2>3. t \in [1 .. n -> Nat] /\ \A i \in 1 .. n : t[i] = Least(w[i], I32Max)
    BY <1>10
  <2> HIDE DEF n
  <2>4. Total(w) = m * Total(f)
    BY <1>4, <2>1, <2>2, TotalOfProducts
  <2>5. Least(Total(t), I32Max) = Least(Total(w), I32Max) /\ Total(t) \in Nat
    <3>1. I32Max \in Nat
      BY <1>1
    <3> QED BY <2>1, <2>3, <3>1, SaturatedTotal, ZenonT(60)
  <2> QED BY <2>4, <2>5
<1>12. Total(t) <= I32Max => Least(Total(t), I32Max) = Total(t)
  BY DEF Least
<1> QED BY <1>6, <1>7, <1>11, <1>12 DEF k

(* A set that numbers 1 .. n are mapped to one by one has n elements.      *)
LEMMA SpinsAreCounted ==
  ASSUME NEW n \in Nat, NEW base \in Int, NEW S,
         \A x : x \in S <=> \E j \in 1 .. n : x = base + 2 * j
  PROVE  IsFiniteSet(S) /\ Cardinality(S) = n
<1> DEFINE f == [j \in 1 .. n |-> base + 2 * j]
<1>1. f \in Bijection(1 .. n, S)
  <2>1. f \in [1 .. n -> S]
    OBVIOUS
  <2>2. \A a, b \in 1 .. n : f[a] = f[b] => a = b
    OBVIOUS
  <2>3. \A x \in S : \E j \in 1 .. n : f[j] = x
    OBVIOUS
  <2> HIDE DEF f
  <2> QED BY <2>1, <2>2, <2>3 DEF Bijection, Injection, Surjection, IsInjective
<1> HIDE DEF f
<1>2. ExistsBijection(1 .. n, S)
  BY <1>1 DEF ExistsBijection
<1>3. IsFiniteSet(1 .. n) /\ Cardinality(1 .. n) = n
  BY FS_Interval
<1> QED BY <1>2, <1>3, FS_Bijection

LEMMA BonusSpinsAgree ==
  ASSUME NEW h \in Spinners
  PROVE  /\ Cardinality(JudgementsOf(h, 1100)) = Greatest(BonusSpins(h), 0)
         /\ h.required % 2 = 1 =>
              Cardinality(JudgementsOf(h, 100)) + Cardinality(JudgementsOf(h, 1100)) = FullSpins(h)
         /\ h.required % 2 = 0 => Cardinality(JudgementsOf(h, 100)) = FullSpins(h)
<1> DEFINE p == h.possible
           q == h.required + 3
           Large == JudgementsOf(h, 1100)
           Small == JudgementsOf(h, 100)
           Even == {0 + 2 * j : j \in 1 .. p \div 2}
<1>1. p \in Nat /\ q \in Nat /\ q >= 3
  BY DEF Spinners
<1>2. <<Bonus(1100)>> # <<Bonus(100)>> /\ <<>> # <<Bonus(1100)>> /\ <<>> # <<Bonus(100)>>
  <2>1. Bonus(1100).score = 1100 /\ Bonus(100).score = 100
    BY DEF Bonus
  <2>2. Bonus(1100) # Bonus(100)
    BY <2>1
  <2>3. Len(<<>>) = 0 /\ Len(<<Bonus(1100)>>) = 1 /\ Len(<<Bonus(100)>>) = 1
    OBVIOUS
  <2>4. <<Bonus(1100)>>[1] = Bonus(1100) /\ <<Bonus(100)>>[1] = Bonus(100)
    OBVIOUS
  <2> QED BY <2>2, <2>3, <2>4
<1>3. /\ Large = {i \in 0 .. p : i > q /\ (i - q) % 2 = 0}
      /\ Small = {i \in 0 .. p : ~(i > q /\ (i - q) % 2 = 0) /\ i > 1 /\ i % 2 = 0}
  <2>1. \A i : HalfSpin(i, q) = <<Bonus(1100)>> <=> i > q /\ (i - q) % 2 = 0
    BY <1>2 DEF HalfSpin
  <2>2. \A i : HalfSpin(i, q) = <<Bonus(100)>>
                 <=> ~(i > q /\ (i - q) % 2 = 0) /\ i > 1 /\ i % 2 = 0
    BY <1>2 DEF HalfSpin
  <2> QED BY <2>1, <2>2 DEF JudgementsOf
<1>4. BonusSpins(h) = Halved(p - q) /\ FullSpins(h) = p \div 2
  BY DEF BonusSpins, FullSpins
<1> HIDE DEF p, q, Large, Small
<1>5. IsFiniteSet(Large) /\ Cardinality(Large) = Greatest(BonusSpins(h), 0)
  <2>1. CASE p >= q
    <3> DEFINE n == (p - q) \div 2
    <3>1. n \in Nat /\ 2 * n <= p - q /\ p - q <= 2 * n + 1
      BY <1>1, <2>1
    <3>2. Greatest(BonusSpins(h), 0) = n
      BY <1>1, <1>4, <2>1, <3>1 DEF Halved, Greatest
    <3>3. \A i : i \in Large <=> \E j \in 1 .. n : i = q + 2 * j
      <4>1. ASSUME NEW i \in Large PROVE \E j \in 1 .. n : i = q + 2 * j
        <5>1. i \in Nat /\ i > q /\ i <= p /\ (i - q) % 2 = 0
          BY <1>1, <1>3
        <5>2. PICK j \in Nat : i - q = 2 * j
          <6> DEFINE e == i - q
          <6>1. e \in Nat /\ e % 2 = 0
            BY <1>1, <5>1
          <6> HIDE DEF e
          <6>2. e \div 2 \in Nat /\ e = 2 * (e \div 2)
            BY <6>1
          <6> QED BY <6>2 DEF e
        <5>3. j \in 1 .. n /\ i = q + 2 * j
          BY <1>1, <3>1, <5>1, <5>2
        <5> QED BY <5>3
      <4>2. ASSUME NEW j \in 1 .. n PROVE q + 2 * j \in Large
        <5> DEFINE i == q + 2 * j
        <5>1. i \in 0 .. p /\ i > q /\ i - q = 2 * j
          BY <1>1, <3>1
        <5>2. (2 * j) % 2 = 0
          BY <3>1
        <5> QED BY <1>3, <5>1, <5>2
      <4> HIDE DEF n
      <4> QED BY <4>1, <4>2
    <3> HIDE DEF n
    <3>4. n \in Nat /\ q \in Int
      BY <1>1, <3>1
    <3>5. IsFiniteSet(Large) /\ Cardinality(Large) = n
      BY <3>3, <3>4, SpinsAreCounted, ZenonT(60)
    <3> QED BY <3>2, <3>5
  <2>2. CASE p < q
    <3>1. Large = {}
      BY <1>1, <1>3, <2>2
    <3>2. BonusSpins(h) <= 0 /\ BonusSpins(h) \in Int
      BY <1>1, <1>4, <2>2 DEF Halved
    <3>3. Greatest(BonusSpins(h), 0) = 0
      BY <3>2 DEF Greatest
    <3> QED BY <3>1, <3>3, FS_EmptySet
  <2> QED BY <1>1, <2>1, <2>2
<1>6. IsFiniteSet(Even) /\ Cardinality(Even) = p \div 2
  <2> DEFINE n == p \div 2
  <2>1. n \in Nat
    BY <1>1
  <2>2. \A x : x \in Even <=> \E j \in 1 .. n : x = 0 + 2 * j
    OBVIOUS
  <2> HIDE DEF n, Even
  <2>3. IsFiniteSet(Even) /\ Cardinality(Even) = n
    <3>1. 0 \in Int
      OBVIOUS
    <3> QED BY <2>1, <2>2, <3>1, SpinsAreCounted, ZenonT(60)
  <2> QED BY <2>3 DEF n
<1>7. \A i : i \in Even <=> i \in 0 .. p /\ i > 1 /\ i % 2 = 0
  <2>1. ASSUME NEW i \in Even PROVE i \in 0 .. p /\ i > 1 /\ i % 2 = 0
    <3>1. PICK j \in 1 .. p \div 2 : i = 2 * j
      BY <1>1
    <3> QED BY <1>1, <3>1
  <2>2. ASSUME NEW i \in 0 .. p, i > 1, i % 2 = 0 PROVE i \in Even
    <3>1. i \div 2 \in 1 .. p \div 2 /\ i = 0 + 2 * (i \div 2)
      BY <1>1, <2>2
    <3> QED BY <3>1
  <2> QED BY <2>1, <2>2
<1> HIDE DEF Even
<1>8. IsFiniteSet(Small)
  <2>1. IsFiniteSet(0 .. p)
    BY <1>1, FS_Interval
  <2> QED BY <1>3, <2>1, FS_Subset
<1>9. ASSUME q % 2 = 0 PROVE Cardinality(Small) + Cardinality(Large) = p \div 2
  <2>1. \A i \in 0 .. p : i > q /\ (i - q) % 2 = 0 => i > 1 /\ i % 2 = 0
    BY <1>1, <1>9
  <2>2. Small \cup Large = Even /\ Small \cap Large = {}
    BY <1>3, <1>7, <2>1
  <2>3. Cardinality(Small \cup Large)
          = Cardinality(Small) + Cardinality(Large) - Cardinality(Small \cap Large)
    BY <1>5, <1>8, FS_Union
  <2>4. Cardinality({}) = 0
    BY FS_EmptySet
  <2>5. Cardinality(Small) \in Nat /\ Cardinality(Large) \in Nat
    BY <1>5, <1>8, FS_CardinalityType
  <2>6. Cardinality(Even) = Cardinality(Small) + Cardinality(Large) - 0
    BY <2>2, <2>3, <2>4
  <2> QED BY <1>6, <2>5, <2>6
<1>10. ASSUME q % 2 = 1 PROVE Cardinality(Small) = p \div 2
  <2>1. \A i \in 0 .. p : i % 2 = 0 => ~(i > q /\ (i - q) % 2 = 0)
    BY <1>1, <1>10
  <2>2. Small = Even
    BY <1>3, <1>7, <2>1
  <2> QED BY <1>6, <2>2
<1>11. /\ h.required % 2 = 1 => q % 2 = 0
       /\ h.required % 2 = 0 => q % 2 = 1
  BY DEF q, Spinners
<1> QED BY <1>4, <1>5, <1>9, <1>10, <1>11 DEF Large, Small

(* Both simulators give the same combo score unless a cast saturates, and  *)
(* the closed form of the nested score knows the bonuses they award.        *)
THEOREM CombosAndSpinsAgree == Spec => []ScoresAgree
<1>1. ASSUME IInv PROVE ScoresAgree
  <2>1. ASSUME NEW i \in 1 .. Len(map.kinds), map.kinds[i].kind = "spinner"
        PROVE  map.kinds[i] \in Spinners
    <3>1. map.kinds[i] \in HitObjects
      BY <1>1, SimParts, MapParts
    <3> QED BY <2>1, <3>1 DEF HitObjects, Spinners
  <2> QED BY <1>1, <2>1, ComboScoresAgree, BonusSpinsAgree DEF ScoresAgree
<1> QED BY <1>1, Invariance, PTL
=============================================================================
