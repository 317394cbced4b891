--------------------------- MODULE DecodingProofs ---------------------------
(***************************************************************************)
(* Proofs about the decoder, for files of every length up to MaxLines.     *)
(***************************************************************************)
EXTENDS Decoding, SortingProofs

(***************************************************************************)
(* The state, and what each parser leaves alone                            *)
(***************************************************************************)
Fields ==
  {"mode", "stack_leniency", "has_approach_rate", "difficulty", "breaks", "points", "pending",
   "pending_time", "hit_objects", "hit_sounds", "curve_points"}

Difficulties == [hp : Int, cs : Int, od : Int, ar : Int, multiplier : Int, tick_rate : Int]

IsState(s) ==
  /\ s = [f \in Fields |-> s[f]]
  /\ s.difficulty \in Difficulties
  /\ s.has_approach_rate \in BOOLEAN
  /\ s.mode \in {"osu", "taiko", "catch", "mania"}
  /\ s.pending_time \in Int
  /\ s.points = [kind \in Kinds |-> s.points[kind]]
  /\ s.pending = [kind \in Kinds |-> s.pending[kind]]
  /\ \A kind \in Kinds : /\ s.points[kind] \in Seq(PointsOf(kind))
                         /\ s.pending[kind] \in PointsOf(kind) \cup {None}

Unchanged(s, r, fields) == \A f \in fields : r[f] = s[f]

LEMMA GeneralIsParsed ==
  ASSUME NEW s, IsState(s), NEW line \in GeneralLines
  PROVE  LET r == ParseGeneral(s, line)
         IN  /\ IsState(r) /\ Unchanged(s, r, Fields \ {"mode", "stack_leniency"})
             /\ r.mode = IF line.key = "Mode" THEN line.value ELSE s.mode
BY DEF ParseGeneral, IsState, Fields, GeneralLines, Unchanged

LEMMA DifficultyIsParsed ==
  ASSUME NEW s, IsState(s), NEW line \in DifficultyLines
  PROVE  LET r == ParseDifficulty(s, line)
             key == line.key
         IN  /\ IsState(r) /\ Unchanged(s, r, Fields \ {"difficulty", "has_approach_rate"})
             /\ r.has_approach_rate <=> s.has_approach_rate \/ key = "ar"
             /\ r.difficulty.ar = IF key = "ar" \/ (key = "od" /\ ~s.has_approach_rate)
                                  THEN line.value ELSE s.difficulty.ar
<1> DEFINE r == ParseDifficulty(s, line)
           d == [s.difficulty EXCEPT ![line.key] = line.value]
           set == [s EXCEPT !.difficulty[line.key] = line.value]
<1>1. /\ line.value \in Int
      /\ line.key \in {"hp", "cs", "od", "ar", "multiplier", "tick_rate"}
  BY DEF DifficultyLines
<1>2. d \in Difficulties /\ d.ar = IF line.key = "ar" THEN line.value ELSE s.difficulty.ar
  BY <1>1 DEF IsState, Difficulties
<1>3. set = [s EXCEPT !.difficulty = d]
  OBVIOUS
<1> HIDE DEF d
<1>4. IsState(set) /\ Unchanged(s, set, Fields \ {"difficulty"}) /\ set.difficulty = d
  BY <1>2, <1>3 DEF IsState, Fields, Unchanged
<1> HIDE DEF set
<1>5. CASE line.key = "od" /\ ~s.has_approach_rate
  <2>1. r = [set EXCEPT !.difficulty.ar = line.value]
    BY <1>5 DEF ParseDifficulty, set
  <2>2. [d EXCEPT !.ar = line.value] \in Difficulties /\ [d EXCEPT !.ar = line.value].ar = line.value
    BY <1>1, <1>2 DEF Difficulties
  <2>3. r = [set EXCEPT !.difficulty = [d EXCEPT !.ar = line.value]]
    BY <1>4, <2>1
  <2> QED BY <1>4, <1>5, <2>2, <2>3 DEF IsState, Fields, Unchanged
<1>6. CASE line.key = "ar"
  <2>1. r = [set EXCEPT !.has_approach_rate = TRUE]
    BY <1>6 DEF ParseDifficulty, set
  <2> QED BY <1>2, <1>4, <1>6, <2>1 DEF IsState, Fields, Unchanged
<1>7. CASE ~(line.key = "od" /\ ~s.has_approach_rate) /\ line.key # "ar"
  <2>1. r = set
    BY <1>7 DEF ParseDifficulty, set
  <2> QED BY <1>2, <1>4, <1>7, <2>1 DEF Fields, Unchanged
<1> QED BY <1>5, <1>6, <1>7

LEMMA EventsAreParsed ==
  ASSUME NEW s, IsState(s), NEW line
  PROVE  LET r == ParseEvents(s, line) IN IsState(r) /\ Unchanged(s, r, Fields \ {"breaks"})
BY DEF ParseEvents, IsState, Fields, Unchanged

LEMMA KindsOfPoints ==
  /\ PointsOf("timing") = [time : Int, beat_len : Int]
  /\ PointsOf("difficulty") =
       [time : Int, velocity : Int, bpm_multiplier : Int, generate_ticks : BOOLEAN]
  /\ PointsOf("effect") = [time : Int, kiai : BOOLEAN, scroll_speed : Int]
<1>1. PointsOf("timing") = [time : Int, beat_len : Int]
  BY DEF PointsOf
<1>2. PointsOf("difficulty") =
        [time : Int, velocity : Int, bpm_multiplier : Int, generate_ticks : BOOLEAN]
  BY DEF PointsOf
<1>3. PointsOf("effect") = [time : Int, kiai : BOOLEAN, scroll_speed : Int]
  BY DEF PointsOf
<1> QED BY <1>1, <1>2, <1>3

LEMMA TimesOfPoints ==
  ASSUME NEW kind \in Kinds
  PROVE  /\ \A p \in PointsOf(kind) : p.time \in Int
         /\ \A points \in Seq(PointsOf(kind)) :
              /\ Len(points) \in Nat /\ DOMAIN points = 1 .. Len(points)
              /\ \A i \in 1 .. Len(points) : points[i] \in PointsOf(kind) /\ points[i].time \in Int
<1>1. \A p \in PointsOf(kind) : p.time \in Int
  <2> SUFFICES ASSUME NEW p \in PointsOf(kind) PROVE p.time \in Int
    OBVIOUS
  <2>1. CASE kind = "timing"
    <3>1. p \in [time : Int, beat_len : Int]
      BY <2>1, KindsOfPoints
    <3> QED BY <3>1
  <2>2. CASE kind = "difficulty"
    <3>1. p \in [time : Int, velocity : Int, bpm_multiplier : Int, generate_ticks : BOOLEAN]
      BY <2>2, KindsOfPoints
    <3> QED BY <3>1
  <2>3. CASE kind = "effect"
    <3>1. p \in [time : Int, kiai : BOOLEAN, scroll_speed : Int]
      BY <2>3, KindsOfPoints
    <3> QED BY <3>1
  <2> QED BY <2>1, <2>2, <2>3 DEF Kinds
<1> QED BY <1>1

(* The points of a timing line.                                            *)
LEMMA PointsAreMade ==
  ASSUME NEW line \in TimingPointLines, NEW mode, NEW time \in Int
  PROVE  /\ line.beat \in Int => NewTimingPoint(time, line.beat) \in PointsOf("timing")
         /\ NewDifficultyPoint(time, line.beat) \in PointsOf("difficulty")
         /\ NewEffectPoint(time, line.kiai, ScrollSpeed(mode, line.beat)) \in PointsOf("effect")
<1> DEFINE beat == line.beat
           speed == SpeedMultiplier(beat)
<1>1. (beat # NaN) \in BOOLEAN /\ line.kiai \in BOOLEAN
  BY DEF TimingPointLines
<1>2. speed \in Int /\ (IsInherited(beat) => -beat \in Int)
  BY DEF SpeedMultiplier, IsInherited, TimingPointLines
<1> HIDE DEF speed
<1>3. beat \in Int => Clamp(beat, 6, 60000) \in Int
  BY DEF Clamp, Greatest, Least
<1>4. Clamp(speed, 10, 1000) \in Int /\ Clamp(speed, 1, 1000) \in Int
  BY <1>2 DEF Clamp, Greatest, Least
<1>5. IsInherited(beat) => Clamp(-beat, 10, 10000) \in Int
  BY <1>2 DEF Clamp, Greatest, Least
<1>6. ScrollSpeed(mode, beat) \in Int
  BY <1>4 DEF ScrollSpeed, speed
<1>7. beat \in Int => NewTimingPoint(time, beat) \in PointsOf("timing")
  <2> DEFINE beat_len == Clamp(beat, 6, 60000)
  <2>1. NewTimingPoint(time, beat) = [time |-> time, beat_len |-> beat_len]
    BY DEF NewTimingPoint
  <2>2. beat \in Int => beat_len \in Int
    BY <1>3
  <2> HIDE DEF beat_len
  <2> QED BY <2>1, <2>2, KindsOfPoints
<1>8. NewDifficultyPoint(time, beat) \in PointsOf("difficulty")
  <2> DEFINE velocity == Clamp(speed, 10, 1000)
             bpm == IF IsInherited(beat) THEN Clamp(-beat, 10, 10000) ELSE 100
             ticks == beat # NaN
  <2>1. NewDifficultyPoint(time, beat) =
          [time |-> time, velocity |-> velocity, bpm_multiplier |-> bpm, generate_ticks |-> ticks]
    BY DEF NewDifficultyPoint, speed
  <2>2. velocity \in Int /\ bpm \in Int /\ ticks \in BOOLEAN
    BY <1>1, <1>4, <1>5
  <2> HIDE DEF velocity, bpm, ticks
  <2> QED BY <2>1, <2>2, KindsOfPoints
<1>9. NewEffectPoint(time, line.kiai, ScrollSpeed(mode, beat)) \in PointsOf("effect")
  BY <1>1, <1>6, KindsOfPoints DEF NewEffectPoint
<1> QED BY <1>7, <1>8, <1>9

(***************************************************************************)
(* Lists of control points                                                 *)
(***************************************************************************)

(* Their times grow strictly.                                              *)
Grows(points) == \A i, j \in 1 .. Len(points) : i < j => points[i].time < points[j].time

(* The first k points are those up to a time.                              *)
Passed(points, time, k) ==
  /\ k \in 0 .. Len(points)
  /\ \A i \in 1 .. Len(points) : points[i].time <= time <=> i <= k

(* A set of positions without gaps is counted by its last one.             *)
LEMMA PrefixIsCounted ==
  ASSUME NEW n \in Nat, NEW S \in SUBSET (1 .. n),
         \A i, j \in 1 .. n : i < j /\ j \in S => i \in S
  PROVE  Cardinality(S) \in 0 .. n /\ S = 1 .. Cardinality(S)
<1> DEFINE B == {k \in Nat : \A i \in S : i <= k}
<1>1. PICK k \in B : \A b \in B : k <= b
  <2>1. n \in B
    OBVIOUS
  <2>2. B \in SUBSET Nat /\ B # {}
    BY <2>1
  <2> HIDE DEF B
  <2> QED BY <2>2, SmallestExists
<1>2. k \in Nat /\ \A i \in S : i <= k
  OBVIOUS
<1>3. k # 0 => k \in S
  <2> SUFFICES ASSUME k # 0, k \notin S PROVE FALSE
    OBVIOUS
  <2>1. k - 1 \in B
    BY <1>2
  <2> QED BY <1>1, <1>2, <2>1
<1>4. S = 1 .. k
  <2>1. ASSUME NEW i \in 1 .. k PROVE i \in S
    <3>1. k \in S /\ k \in 1 .. n
      BY <1>2, <1>3, <2>1
    <3>2. i \in 1 .. n /\ (i = k \/ i < k)
      BY <1>2, <2>1, <3>1
    <3> QED BY <3>1, <3>2
  <2>2. \A i \in S : i \in 1 .. k
    BY <1>2
  <2> QED BY <2>1, <2>2
<1>5. 1 \in Int /\ k \in Int
  BY <1>2
<1>6. Cardinality(1 .. k) = IF 1 > k THEN 0 ELSE k - 1 + 1
  BY <1>5, FS_Interval
<1>7. Cardinality(1 .. k) = k
  BY <1>2, <1>6
<1>8. k <= n
  BY <1>3
<1> QED BY <1>2, <1>4, <1>7, <1>8

(* IndexAt finds the last point that is not later, in a list in order.     *)
LEMMA IndexIsFound ==
  ASSUME NEW kind \in Kinds, NEW points \in Seq(PointsOf(kind)), Grows(points), NEW time \in Int
  PROVE  Passed(points, time, IndexAt(points, time))
<1> DEFINE n == Len(points)
           S == {i \in DOMAIN points : points[i].time <= time}
<1>1. n \in Nat /\ DOMAIN points = 1 .. n /\ \A i \in 1 .. n : points[i].time \in Int
  BY TimesOfPoints
<1>2. S \in SUBSET (1 .. n)
  BY <1>1
<1>3. \A i, j \in 1 .. n : i < j /\ j \in S => i \in S
  BY <1>1 DEF Grows
<1>4. \A i \in 1 .. n : i \in S <=> points[i].time <= time
  BY <1>1
<1> HIDE DEF S
<1>5. Cardinality(S) \in 0 .. n /\ S = 1 .. Cardinality(S)
  BY <1>1, <1>2, <1>3, PrefixIsCounted
<1> DEFINE k == Cardinality(S)
<1>6. IndexAt(points, time) = k
  BY DEF IndexAt, S
<1> HIDE DEF k
<1> QED BY <1>4, <1>5, <1>6 DEF Passed, k

LEMMA IndexIsUnique ==
  ASSUME NEW points, Len(points) \in Nat, NEW time, NEW j, NEW k,
         Passed(points, time, j), Passed(points, time, k)
  PROVE  j = k
<1>1. j \in Nat /\ k \in Nat /\ j <= Len(points) /\ k <= Len(points)
  BY DEF Passed
<1>2. CASE j < k
  BY <1>1, <1>2 DEF Passed
<1>3. CASE k < j
  BY <1>1, <1>3 DEF Passed
<1> QED BY <1>1, <1>2, <1>3

(* What is added, and where: a point of a new time between the earlier and *)
(* the later ones, or in the place of the one of its time.                 *)
LEMMA AddedIsFound ==
  ASSUME NEW kind \in Kinds, NEW points \in Seq(PointsOf(kind)), Grows(points),
         NEW point \in PointsOf(kind)
  PROVE  /\ Add(points, point) \in Seq(PointsOf(kind)) /\ Grows(Add(points, point))
         /\ (\A i \in 1 .. Len(points) : points[i].time < point.time)
              => Add(points, point) = Append(points, point)
<1> DEFINE n == Len(points)
           t == point.time
           k == IndexAt(points, t)
           added == Add(points, point)
<1>1. n \in Nat /\ t \in Int /\ \A i \in 1 .. n : points[i].time \in Int /\ points[i] \in PointsOf(kind)
  BY TimesOfPoints
<1>2. k \in 0 .. n /\ \A i \in 1 .. n : points[i].time <= t <=> i <= k
  BY <1>1, IndexIsFound DEF Passed
<1> HIDE DEF k
<1>3. added = IF k > 0 /\ points[k].time = t THEN [points EXCEPT ![k] = point]
              ELSE InsertAt(points, k + 1, point)
  BY DEF Add, k
<1> HIDE DEF added, t
<1>4. CASE k > 0 /\ points[k].time = t
  <2>1. added = [points EXCEPT ![k] = point] /\ k \in 1 .. n
    BY <1>2, <1>3, <1>4
  <2>2. added \in Seq(PointsOf(kind)) /\ Len(added) = n
    BY <2>1
  <2>3. \A i \in 1 .. n : added[i].time = points[i].time
    BY <1>4, <2>1 DEF t
  <2>4. Grows(added)
    BY <2>2, <2>3 DEF Grows
  <2>5. ~\A i \in 1 .. n : points[i].time < t
    BY <1>1, <1>4, <2>1
  <2> QED BY <2>2, <2>4, <2>5 DEF added, t
<1>5. CASE ~(k > 0 /\ points[k].time = t)
  <2>1. added = SubSeq(points, 1, k) \o <<point>> \o SubSeq(points, k + 1, n)
    <3>1. (k + 1) - 1 = k
      BY <1>1, <1>2
    <3> QED BY <1>3, <1>5, <3>1 DEF InsertAt
  <2>2. /\ SubSeq(points, 1, k) \in Seq(PointsOf(kind)) /\ Len(SubSeq(points, 1, k)) = k
        /\ \A i \in 1 .. k : SubSeq(points, 1, k)[i] = points[i]
    BY <1>1, <1>2
  <2>3. /\ SubSeq(points, k + 1, n) \in Seq(PointsOf(kind)) /\ Len(SubSeq(points, k + 1, n)) = n - k
        /\ \A i \in 1 .. n - k : SubSeq(points, k + 1, n)[i] = points[i + k]
    BY <1>1, <1>2
  <2>4. /\ added \in Seq(PointsOf(kind)) /\ Len(added) = n + 1
        /\ \A i \in 1 .. k : added[i] = points[i]
        /\ added[k + 1] = point
        /\ \A i \in k + 2 .. n + 1 : added[i] = points[i - 1]
    <3> DEFINE front == SubSeq(points, 1, k)
               back == SubSeq(points, k + 1, n)
               head == front \o <<point>>
    <3>1. added = head \o back
      BY <2>1
    <3>2. /\ front \in Seq(PointsOf(kind)) /\ Len(front) = k /\ \A i \in 1 .. k : front[i] = points[i]
          /\ back \in Seq(PointsOf(kind)) /\ Len(back) = n - k
          /\ \A i \in 1 .. n - k : back[i] = points[i + k]
      BY <2>2, <2>3
    <3> HIDE DEF front, back
    <3>3. /\ head \in Seq(PointsOf(kind)) /\ Len(head) = k + 1
          /\ \A i \in 1 .. k : head[i] = points[i]
          /\ head[k + 1] = point
      BY <1>2, <3>2
    <3> HIDE DEF head
    <3>4. /\ added \in Seq(PointsOf(kind)) /\ Len(added) = n + 1
          /\ \A i \in 1 .. k + 1 : added[i] = head[i]
          /\ \A i \in k + 2 .. n + 1 : added[i] = back[i - (k + 1)]
      BY <1>1, <1>2, <3>1, <3>2, <3>3
    <3>5. ASSUME NEW i \in k + 2 .. n + 1 PROVE added[i] = points[i - 1]
      <4>1. i - (k + 1) \in 1 .. n - k /\ (i - (k + 1)) + k = i - 1
        BY <1>1, <1>2
      <4> QED BY <3>2, <3>4, <4>1
    <3> QED BY <1>2, <3>3, <3>4, <3>5
  <2>5. k = 0 \/ points[k].time < t
    BY <1>1, <1>2, <1>5
  <2>6. Grows(added)
    <3> SUFFICES ASSUME NEW i \in 1 .. n + 1, NEW j \in 1 .. n + 1, i < j
                 PROVE  added[i].time < added[j].time
      BY <2>4 DEF Grows
    <3>1. CASE j <= k
      BY <1>1, <1>2, <2>4, <3>1 DEF Grows
    <3>2. CASE j = k + 1
      <4>1. i \in 1 .. k /\ k \in 1 .. n
        BY <1>2, <3>2
      <4>2. points[i].time <= points[k].time
        BY <1>1, <4>1 DEF Grows
      <4>3. points[i].time < t
        BY <1>1, <2>5, <4>1, <4>2
      <4> QED BY <2>4, <3>2, <4>1, <4>3 DEF t
    <3>3. CASE j > k + 1 /\ i <= k
      <4>1. i \in 1 .. n /\ j - 1 \in 1 .. n /\ i < j - 1
        BY <1>2, <3>3
      <4>2. added[i] = points[i] /\ added[j] = points[j - 1]
        BY <1>2, <2>4, <3>3
      <4> QED BY <4>1, <4>2 DEF Grows
    <3>4. CASE j > k + 1 /\ i = k + 1
      <4>1. j - 1 \in 1 .. n /\ j - 1 > k
        BY <1>2, <3>4
      <4>2. t < points[j - 1].time
        BY <1>1, <1>2, <4>1
      <4> QED BY <1>2, <2>4, <3>4, <4>2 DEF t
    <3>5. CASE j > k + 1 /\ i > k + 1
      <4>1. i - 1 \in 1 .. n /\ j - 1 \in 1 .. n /\ i - 1 < j - 1
        BY <1>2, <3>5
      <4>2. added[i] = points[i - 1] /\ added[j] = points[j - 1]
        BY <1>2, <2>4, <3>5
      <4> QED BY <4>1, <4>2 DEF Grows
    <3> QED BY <1>2, <3>1, <3>2, <3>3, <3>4, <3>5
  <2>7. ASSUME \A i \in 1 .. n : points[i].time < t PROVE added = Append(points, point)
    <3>1. k = n
      <4>1. \A i \in 1 .. n : i <= k
        BY <1>1, <1>2, <2>7
      <4> QED BY <1>1, <1>2, <4>1
    <3>2. Len(Append(points, point)) = n + 1 /\ Append(points, point) \in Seq(PointsOf(kind))
      BY <1>1
    <3>3. \A i \in 1 .. n + 1 : added[i] = Append(points, point)[i]
      BY <1>1, <2>4, <3>1
    <3> QED BY <2>4, <3>2, <3>3
  <2> QED BY <2>4, <2>6, <2>7 DEF added, t
<1> QED BY <1>4, <1>5

(***************************************************************************)
(* The pending points                                                      *)
(***************************************************************************)

(* What becomes of a list when its pending point is taken.                 *)
Taken(kind, points, point) ==
  IF point = None \/ CheckAlreadyExisting(kind, points, point) THEN points ELSE Add(points, point)

LEMMA PendingIsTaken ==
  ASSUME NEW s, IsState(s), NEW kind \in Kinds, Grows(s.points[kind])
  PROVE  LET r == TakePending(s, kind)
         IN  /\ IsState(r) /\ Unchanged(s, r, Fields \ {"points", "pending"})
             /\ r.pending = [s.pending EXCEPT ![kind] = None]
             /\ r.points = [s.points EXCEPT ![kind] = Taken(kind, s.points[kind], s.pending[kind])]
             /\ Grows(r.points[kind])
<1> DEFINE r == TakePending(s, kind)
           points == s.points[kind]
           point == s.pending[kind]
           taken == Taken(kind, points, point)
           t == [s EXCEPT !.pending[kind] = None]
<1>1. points \in Seq(PointsOf(kind)) /\ point \in PointsOf(kind) \cup {None}
  BY DEF IsState
<1>2. taken \in Seq(PointsOf(kind)) /\ Grows(taken)
  BY <1>1, AddedIsFound DEF Taken
<1>3. t = [s EXCEPT !.pending = [s.pending EXCEPT ![kind] = None]]
  OBVIOUS
<1>4. /\ IsState(t) /\ Unchanged(s, t, Fields \ {"pending"})
      /\ t.pending = [s.pending EXCEPT ![kind] = None]
  BY <1>3 DEF IsState, Fields, Unchanged
<1>5. t.points = s.points
  BY <1>4 DEF Unchanged, Fields
<1>6. CASE point = None
  <2>1. r = s
    BY <1>6 DEF TakePending
  <2>2. s.pending = [s.pending EXCEPT ![kind] = None]
    BY <1>6 DEF IsState
  <2>3. s.points = [s.points EXCEPT ![kind] = taken]
    BY <1>6 DEF IsState, Taken
  <2> QED BY <2>1, <2>2, <2>3 DEF Unchanged
<1>7. CASE point # None /\ CheckAlreadyExisting(kind, points, point)
  <2>1. r = t
    BY <1>5, <1>7 DEF TakePending, AddControlPoint
  <2>2. s.points = [s.points EXCEPT ![kind] = taken]
    BY <1>7 DEF IsState, Taken
  <2>3. taken = points
    BY <1>7 DEF Taken
  <2> HIDE DEF t, taken, r
  <2>4. /\ IsState(r) /\ Unchanged(s, r, Fields \ {"points", "pending"})
        /\ r.pending = [s.pending EXCEPT ![kind] = None]
        /\ r.points = [s.points EXCEPT ![kind] = taken]
        /\ Grows(r.points[kind])
    BY <1>4, <1>5, <2>1, <2>2, <2>3 DEF Unchanged, Fields
  <2> QED BY <2>4 DEF r, taken
<1>8. CASE point # None /\ ~CheckAlreadyExisting(kind, points, point)
  <2>1. taken = Add(points, point)
    BY <1>8 DEF Taken
  <2>2. r = [t EXCEPT !.points[kind] = Add(t.points[kind], point)]
    BY <1>5, <1>8 DEF TakePending, AddControlPoint
  <2> HIDE DEF t, taken, r
  <2>3. r = [t EXCEPT !.points = [s.points EXCEPT ![kind] = taken]]
    BY <1>5, <2>1, <2>2
  <2>4. /\ r.points = [s.points EXCEPT ![kind] = taken]
        /\ Unchanged(t, r, Fields \ {"points"})
        /\ r = [f \in Fields |-> r[f]]
    BY <1>4, <2>3 DEF Unchanged, Fields, IsState
  <2>5. /\ r.points = [k \in Kinds |-> r.points[k]]
        /\ \A k \in Kinds : r.points[k] \in Seq(PointsOf(k))
        /\ r.points[kind] = taken
    BY <1>2, <2>4 DEF IsState
  <2>6. IsState(r)
    BY <1>4, <2>4, <2>5 DEF IsState, Unchanged, Fields
  <2>7. Unchanged(s, r, Fields \ {"points", "pending"}) /\ r.pending = t.pending
    BY <1>4, <2>4 DEF Unchanged, Fields
  <2> QED BY <1>2, <1>4, <2>4, <2>5, <2>6, <2>7 DEF r, taken
<1> QED BY <1>1, <1>6, <1>7, <1>8

LEMMA PendingIsFlushed ==
  ASSUME NEW s, IsState(s), \A kind \in Kinds : Grows(s.points[kind])
  PROVE  LET r == FlushPendingPoints(s)
         IN  /\ IsState(r) /\ Unchanged(s, r, Fields \ {"points", "pending"})
             /\ \A kind \in Kinds :
                  /\ r.pending[kind] = None
                  /\ r.points[kind] = Taken(kind, s.points[kind], s.pending[kind])
                  /\ Grows(r.points[kind])
<1> DEFINE a == TakePending(s, "timing")
           b == TakePending(a, "difficulty")
           c == TakePending(b, "effect")
<1>1. c = FlushPendingPoints(s)
  BY DEF FlushPendingPoints
<1>2. /\ IsState(a) /\ Unchanged(s, a, Fields \ {"points", "pending"})
      /\ a.pending = [s.pending EXCEPT !["timing"] = None]
      /\ a.points = [s.points EXCEPT !["timing"] = Taken("timing", s.points["timing"], s.pending["timing"])]
      /\ Grows(a.points["timing"])
  BY PendingIsTaken DEF Kinds
<1> HIDE DEF a
<1>3. /\ a.points["difficulty"] = s.points["difficulty"] /\ a.pending["difficulty"] = s.pending["difficulty"]
      /\ a.points["effect"] = s.points["effect"] /\ a.pending["effect"] = s.pending["effect"]
      /\ a.pending["timing"] = None
      /\ a.points["timing"] = Taken("timing", s.points["timing"], s.pending["timing"])
  BY <1>2 DEF IsState, Kinds
<1>4. /\ IsState(b) /\ Unchanged(a, b, Fields \ {"points", "pending"})
      /\ b.pending = [a.pending EXCEPT !["difficulty"] = None]
      /\ b.points = [a.points EXCEPT !["difficulty"] = Taken("difficulty", a.points["difficulty"], a.pending["difficulty"])]
      /\ Grows(b.points["difficulty"])
  BY <1>2, <1>3, PendingIsTaken DEF Kinds
<1> HIDE DEF b
<1>5. /\ b.points["timing"] = a.points["timing"] /\ b.pending["timing"] = None
      /\ b.points["effect"] = s.points["effect"] /\ b.pending["effect"] = s.pending["effect"]
      /\ b.pending["difficulty"] = None
      /\ b.points["difficulty"] = Taken("difficulty", s.points["difficulty"], s.pending["difficulty"])
  BY <1>2, <1>3, <1>4 DEF IsState, Kinds
<1>6. /\ IsState(c) /\ Unchanged(b, c, Fields \ {"points", "pending"})
      /\ c.pending = [b.pending EXCEPT !["effect"] = None]
      /\ c.points = [b.points EXCEPT !["effect"] = Taken("effect", b.points["effect"], b.pending["effect"])]
      /\ Grows(c.points["effect"])
  BY <1>4, <1>5, PendingIsTaken DEF Kinds
<1> HIDE DEF c
<1>7. /\ c.points["timing"] = a.points["timing"] /\ c.pending["timing"] = None
      /\ c.points["difficulty"] = b.points["difficulty"] /\ c.pending["difficulty"] = None
      /\ c.pending["effect"] = None
      /\ c.points["effect"] = Taken("effect", s.points["effect"], s.pending["effect"])
  BY <1>4, <1>5, <1>6 DEF IsState, Kinds
<1>8. Unchanged(s, c, Fields \ {"points", "pending"})
  BY <1>2, <1>4, <1>6 DEF Unchanged
<1> QED BY <1>1, <1>2, <1>3, <1>4, <1>5, <1>6, <1>7, <1>8 DEF Kinds

(* The points of an earlier time are added before the next one is held     *)
(* back.                                                                   *)
Flushed(s, time) == IF time # s.pending_time THEN FlushPendingPoints(s) ELSE s

ListsGrow(s) == \A kind \in Kinds : Grows(s.points[kind])

LEMMA FlushedIsState ==
  ASSUME NEW s, IsState(s), ListsGrow(s), NEW time
  PROVE  /\ IsState(Flushed(s, time)) /\ ListsGrow(Flushed(s, time))
         /\ Unchanged(s, Flushed(s, time), Fields \ {"points", "pending"})
BY PendingIsFlushed DEF Flushed, ListsGrow, Unchanged

(* r is the state f, but for the pending point p.                          *)
HoldsBack(f, r, kind, p, time) ==
  /\ IsState(r) /\ ListsGrow(r)
  /\ Unchanged(f, r, Fields \ {"pending", "pending_time"})
  /\ r.pending = [f.pending EXCEPT ![kind] = p]
  /\ r.pending_time = time

LEMMA PendingIsAdded ==
  ASSUME NEW s, IsState(s), ListsGrow(s), NEW kind \in Kinds, NEW point \in PointsOf(kind),
         NEW change, NEW time, point.time = time
  PROVE  HoldsBack(Flushed(s, time), AddPendingPoint(s, kind, point, change), kind,
                   Push(Flushed(s, time).pending[kind], point, change), time)
<1> DEFINE r == AddPendingPoint(s, kind, point, change)
           f == Flushed(s, point.time)
           p == Push(f.pending[kind], point, change)
<1>1. IsState(f) /\ ListsGrow(f)
  BY FlushedIsState
<1>2. r = [f EXCEPT !.pending[kind] = p, !.pending_time = point.time]
  BY DEF AddPendingPoint, Flushed
<1>3. p \in PointsOf(kind) \cup {None} /\ point.time \in Int
  BY <1>1, TimesOfPoints DEF Push, IsState
<1> HIDE DEF r, f, p
<1>4. r = [f EXCEPT !.pending = [f.pending EXCEPT ![kind] = p], !.pending_time = point.time]
  BY <1>2
<1>5. /\ r.pending = [f.pending EXCEPT ![kind] = p] /\ r.pending_time = point.time
      /\ Unchanged(f, r, Fields \ {"pending", "pending_time"})
      /\ r = [x \in Fields |-> r[x]]
  BY <1>1, <1>4 DEF IsState, Fields, Unchanged
<1>6. /\ r.pending = [k \in Kinds |-> r.pending[k]]
      /\ \A k \in Kinds : r.pending[k] \in PointsOf(k) \cup {None}
  BY <1>1, <1>3, <1>5 DEF IsState
<1>7. IsState(r) /\ ListsGrow(r)
  BY <1>1, <1>3, <1>5, <1>6 DEF IsState, ListsGrow, Unchanged, Fields
<1> QED BY <1>5, <1>7 DEF r, f, p, HoldsBack

LEMMA TimingIsParsed ==
  ASSUME NEW s, IsState(s), ListsGrow(s), NEW line \in TimingPointLines, ~TimingLineFails(line)
  PROVE  LET r == ParseTimingPoints(s, line)
             f == Flushed(s, line.time)
             speed == ScrollSpeed(s.mode, line.beat)
         IN  /\ IsState(r) /\ ListsGrow(r)
             /\ Unchanged(f, r, Fields \ {"pending", "pending_time"})
             /\ r.pending_time = line.time
             /\ r.pending["timing"] =
                  IF line.change THEN Push(f.pending["timing"], NewTimingPoint(line.time, line.beat), TRUE)
                  ELSE f.pending["timing"]
             /\ r.pending["difficulty"] =
                  Push(f.pending["difficulty"], NewDifficultyPoint(line.time, line.beat), line.change)
             /\ r.pending["effect"] =
                  Push(f.pending["effect"], NewEffectPoint(line.time, line.kiai, speed), line.change)
<1> DEFINE r == ParseTimingPoints(s, line)
           time == line.time
           speed == ScrollSpeed(s.mode, line.beat)
           timing == NewTimingPoint(time, line.beat)
           difficulty == NewDifficultyPoint(time, line.beat)
           effect(mode) == NewEffectPoint(time, line.kiai, ScrollSpeed(mode, line.beat))
           f == Flushed(s, time)
           a == IF line.change THEN AddPendingPoint(s, "timing", timing, TRUE) ELSE s
           b == AddPendingPoint(a, "difficulty", difficulty, line.change)
           c == AddPendingPoint(b, "effect", effect(b.mode), line.change)
<1>1. /\ time \in Int /\ line.change \in BOOLEAN
      /\ line.change => line.beat \in Int
  BY DEF TimingPointLines, TimingLineFails
<1>2. /\ line.change => timing \in PointsOf("timing")
      /\ difficulty \in PointsOf("difficulty")
      /\ \A mode : effect(mode) \in PointsOf("effect")
      /\ timing.time = time /\ difficulty.time = time /\ \A mode : effect(mode).time = time
  <2>1. timing.time = time
    BY DEF NewTimingPoint
  <2>2. difficulty.time = time
    BY DEF NewDifficultyPoint
  <2>3. ASSUME NEW mode PROVE effect(mode).time = time
    BY DEF NewEffectPoint
  <2>4. ASSUME NEW mode PROVE effect(mode) \in PointsOf("effect")
    BY <1>1, PointsAreMade
  <2>5. difficulty \in PointsOf("difficulty") /\ (line.change => timing \in PointsOf("timing"))
    BY <1>1, PointsAreMade
  <2> HIDE DEF effect, timing, difficulty, time
  <2> QED BY <2>1, <2>2, <2>3, <2>4, <2>5
<1>3. IsState(f) /\ ListsGrow(f) /\ Unchanged(s, f, Fields \ {"points", "pending"})
  BY FlushedIsState
<1>4. /\ IsState(a) /\ ListsGrow(a) /\ a.mode = s.mode
      /\ Unchanged(f, Flushed(a, time), Fields \ {"pending", "pending_time"})
      /\ Flushed(a, time).pending =
           [f.pending EXCEPT !["timing"] = IF line.change THEN Push(f.pending["timing"], timing, TRUE)
                                           ELSE f.pending["timing"]]
  <2>1. CASE ~line.change
    <3>1. a = s
      BY <2>1
    <3>2. f.pending = [f.pending EXCEPT !["timing"] = f.pending["timing"]]
      BY <1>3 DEF IsState
    <3> HIDE DEF f, a
    <3>3. Flushed(a, time) = f
      BY <3>1 DEF f
    <3> QED BY <1>3, <2>1, <3>1, <3>2, <3>3 DEF Unchanged
  <2>2. CASE line.change
    <3>1. a = AddPendingPoint(s, "timing", timing, TRUE)
      BY <2>2
    <3> HIDE DEF a
    <3>2. HoldsBack(f, a, "timing", Push(f.pending["timing"], timing, TRUE), time)
      <4>1. "timing" \in Kinds /\ timing \in PointsOf("timing") /\ timing.time = time
        BY <1>2, <2>2 DEF Kinds
      <4> HIDE DEF timing, time
      <4> QED BY <3>1, <4>1, PendingIsAdded
    <3>3. Flushed(a, time) = a
      BY <3>2 DEF Flushed, HoldsBack
    <3>4. a.mode = s.mode
      BY <1>3, <3>2 DEF Unchanged, Fields, HoldsBack
    <3> HIDE DEF f
    <3> QED BY <2>2, <3>2, <3>3, <3>4 DEF HoldsBack
  <2> QED BY <1>1, <2>1, <2>2
<1> HIDE DEF a
<1> DEFINE g == Flushed(a, time)
<1>5. HoldsBack(g, b, "difficulty", Push(g.pending["difficulty"], difficulty, line.change), time)
  <2>1. "difficulty" \in Kinds
    BY DEF Kinds
  <2> HIDE DEF difficulty, time
  <2> QED BY <1>2, <1>4, <2>1, PendingIsAdded
<1>6. Flushed(b, time) = b
  BY <1>5 DEF Flushed, HoldsBack
<1>7. HoldsBack(b, c, "effect", Push(b.pending["effect"], effect(b.mode), line.change), time)
  <2>1. "effect" \in Kinds
    BY DEF Kinds
  <2>2. effect(b.mode) \in PointsOf("effect") /\ effect(b.mode).time = time
    BY <1>2
  <2>3. IsState(b) /\ ListsGrow(b)
    BY <1>5 DEF HoldsBack
  <2> DEFINE p == effect(b.mode)
  <2> HIDE DEF p, time, b
  <2>4. HoldsBack(Flushed(b, time), AddPendingPoint(b, "effect", p, line.change), "effect",
                  Push(Flushed(b, time).pending["effect"], p, line.change), time)
    BY <2>1, <2>2, <2>3, PendingIsAdded DEF p
  <2> QED BY <1>6, <2>4 DEF p
<1>8. b.mode = s.mode
  BY <1>3, <1>4, <1>5 DEF Unchanged, Fields, HoldsBack
<1>9. r = c
  BY <1>8 DEF ParseTimingPoints, a
<1>10. Unchanged(f, c, Fields \ {"pending", "pending_time"})
  <2> HIDE DEF f, g, b, c
  <2> QED BY <1>4, <1>5, <1>7 DEF g, Unchanged, HoldsBack
<1>11. /\ c.pending["timing"] = g.pending["timing"]
       /\ c.pending["difficulty"] = Push(f.pending["difficulty"], difficulty, line.change)
       /\ c.pending["effect"] = Push(f.pending["effect"], effect(b.mode), line.change)
  <2> DEFINE p == Push(f.pending["difficulty"], difficulty, line.change)
             q == Push(f.pending["effect"], effect(b.mode), line.change)
  <2>1. f.pending = [k \in Kinds |-> f.pending[k]]
    BY <1>3 DEF IsState
  <2> HIDE DEF f
  <2>2. g.pending["difficulty"] = f.pending["difficulty"] /\ g.pending["effect"] = f.pending["effect"]
    BY <1>4, <2>1 DEF Kinds
  <2> HIDE DEF g, b, c
  <2>3. g.pending = [k \in Kinds |-> g.pending[k]]
    BY <1>4, <2>1 DEF g
  <2>4. b.pending = [g.pending EXCEPT !["difficulty"] = p]
    BY <1>5, <2>2 DEF HoldsBack
  <2> HIDE DEF p
  <2>5. b.pending["timing"] = g.pending["timing"] /\ b.pending["difficulty"] = p /\ b.pending["effect"] = f.pending["effect"]
    BY <2>2, <2>3, <2>4 DEF Kinds
  <2>6. c.pending = [b.pending EXCEPT !["effect"] = q]
    BY <1>7, <2>5 DEF HoldsBack
  <2>7. b.pending = [k \in Kinds |-> b.pending[k]]
    BY <2>3, <2>4
  <2> HIDE DEF q
  <2>8. c.pending["timing"] = g.pending["timing"] /\ c.pending["difficulty"] = p /\ c.pending["effect"] = q
    BY <2>5, <2>6, <2>7 DEF Kinds
  <2> QED BY <2>8 DEF p, q
<1>12. g.pending["timing"] = IF line.change THEN Push(f.pending["timing"], timing, TRUE) ELSE f.pending["timing"]
  <2>1. f.pending = [k \in Kinds |-> f.pending[k]]
    BY <1>3 DEF IsState
  <2> HIDE DEF f, timing
  <2> QED BY <1>4, <2>1 DEF Kinds
<1>13. effect(b.mode) = NewEffectPoint(time, line.kiai, speed)
  BY <1>8
<1> HIDE DEF r, c, f, g, b
<1> QED BY <1>7, <1>9, <1>10, <1>11, <1>12, <1>13 DEF r, f, HoldsBack

(* A list that a pending point of a later time is taken into: earlier      *)
(* times see what they saw before, the later ones the new point, or one    *)
(* that is worth the same.                                                 *)
LEMMA TakenPointCounts ==
  ASSUME NEW kind \in {"difficulty", "effect"}, NEW points \in Seq(PointsOf(kind)), Grows(points),
         NEW point \in PointsOf(kind),
         \A i \in 1 .. Len(points) : points[i].time < point.time,
         NEW t \in Int
  PROVE  LET taken == Taken(kind, points, point)
         IN  /\ t < point.time => PointAt(kind, taken, t) = PointAt(kind, points, t)
             /\ t >= point.time => Worth(kind, PointAt(kind, taken, t)) = Worth(kind, point)
             /\ \A i \in 1 .. Len(taken) : taken[i].time <= point.time
<1> DEFINE n == Len(points)
           u == point.time
           taken == Taken(kind, points, point)
<1>1. /\ kind \in Kinds /\ kind # "timing" /\ n \in Nat /\ u \in Int
      /\ \A i \in 1 .. n : points[i] \in PointsOf(kind) /\ points[i].time \in Int
  BY TimesOfPoints DEF Kinds
<1>2. Passed(points, t, IndexAt(points, t)) /\ Passed(points, u, IndexAt(points, u))
  BY <1>1, IndexIsFound
<1>3. ASSUME NEW v \in Int, v >= u PROVE Passed(points, v, n)
  BY <1>1, <1>3 DEF Passed
<1>4. IndexAt(points, u) = n
  BY <1>1, <1>2, <1>3, IndexIsUnique
<1>5. t >= u => IndexAt(points, t) = n
  BY <1>1, <1>2, <1>3, IndexIsUnique
<1>6. ASSUME taken = points, Worth(kind, point) = Worth(kind, PointAt(kind, points, u))
      PROVE  /\ t >= u => Worth(kind, PointAt(kind, taken, t)) = Worth(kind, point)
             /\ \A i \in 1 .. Len(taken) : taken[i].time <= u
  <2>1. t >= u => PointAt(kind, points, t) = PointAt(kind, points, u)
    BY <1>4, <1>5 DEF PointAt
  <2>2. \A i \in 1 .. n : points[i].time <= u
    BY <1>1
  <2> HIDE DEF taken, u
  <2> QED BY <1>6, <2>1, <2>2
<1>7. CASE CheckAlreadyExisting(kind, points, point)
  <2>1. taken = points /\ Worth(kind, point) = Worth(kind, PointAt(kind, points, u))
    BY <1>7 DEF Taken, CheckAlreadyExisting
  <2> HIDE DEF taken, u
  <2> QED BY <1>6, <2>1 DEF taken, u
<1>8. CASE point = None
  BY <1>1, <1>8, NoneAssumption
<1>9. CASE point # None /\ ~CheckAlreadyExisting(kind, points, point)
  <2>1. taken = Append(points, point)
    BY <1>1, <1>9, AddedIsFound DEF Taken
  <2>2. /\ Len(taken) = n + 1 /\ taken[n + 1] = point
        /\ \A i \in 1 .. n : taken[i] = points[i]
    BY <1>1, <2>1
  <2>3. taken \in Seq(PointsOf(kind)) /\ Grows(taken)
    BY <1>1, <1>9, AddedIsFound DEF Taken
  <2>4. Passed(taken, t, IndexAt(taken, t))
    BY <1>1, <2>3, IndexIsFound
  <2> HIDE DEF taken
  <2>5. t >= u => Passed(taken, t, n + 1)
    BY <1>1, <2>2 DEF Passed
  <2>6. t < u => Passed(taken, t, IndexAt(points, t))
    <3> SUFFICES ASSUME t < u PROVE Passed(taken, t, IndexAt(points, t))
      OBVIOUS
    <3> DEFINE k == IndexAt(points, t)
    <3>1. k \in 0 .. n /\ \A i \in 1 .. n : points[i].time <= t <=> i <= k
      BY <1>2 DEF Passed
    <3> HIDE DEF k
    <3>2. ~(u <= t) /\ ~(n + 1 <= k)
      BY <1>1, <3>1
    <3>3. \A i \in 1 .. n + 1 : taken[i].time <= t <=> i <= k
      <4>1. \A i \in 1 .. n + 1 : i = n + 1 \/ i \in 1 .. n
        BY <1>1
      <4> QED BY <1>1, <2>2, <3>1, <3>2, <4>1
    <3> QED BY <1>1, <2>2, <3>1, <3>3 DEF Passed, k
  <2>7. t >= u => IndexAt(taken, t) = n + 1
    BY <1>1, <2>2, <2>4, <2>5, IndexIsUnique
  <2>8. t < u => IndexAt(taken, t) = IndexAt(points, t)
    BY <1>1, <2>2, <2>4, <2>6, IndexIsUnique
  <2>9. t >= u => PointAt(kind, taken, t) = point
    BY <1>1, <2>2, <2>7 DEF PointAt
  <2>10. t < u => PointAt(kind, taken, t) = PointAt(kind, points, t)
    <3>1. IndexAt(points, t) \in 0 .. n
      BY <1>2 DEF Passed
    <3> QED BY <1>1, <2>2, <2>8, <3>1 DEF PointAt
  <2>11. \A i \in 1 .. n + 1 : taken[i].time <= u
    <3>1. \A i \in 1 .. n + 1 : i = n + 1 \/ i \in 1 .. n
      BY <1>1
    <3> QED BY <1>1, <2>2, <3>1
  <2> HIDE DEF u
  <2> QED BY <2>2, <2>9, <2>10, <2>11 DEF taken, u
<1> QED BY <1>7, <1>8, <1>9

(***************************************************************************)
(* The lines of a file                                                     *)
(***************************************************************************)

LEMMA SectionsOfLines ==
  ASSUME NEW line \in Lines
  PROVE  /\ line.section = "General" => line \in GeneralLines
         /\ line.section = "Difficulty" => line \in DifficultyLines
         /\ line.section = "Events" => line \in EventLines
         /\ line.section = "TimingPoints" => line \in TimingPointLines
         /\ line.section = "HitObjects" => line \in HitObjectLines
<1>1. line \in GeneralLines => line.section = "General"
  BY DEF GeneralLines
<1>2. line \in DifficultyLines => line.section = "Difficulty"
  BY DEF DifficultyLines
<1>3. line \in EventLines => line.section = "Events"
  BY DEF EventLines
<1>4. line \in TimingPointLines => line.section = "TimingPoints"
  BY DEF TimingPointLines
<1>5. line \in HitObjectLines => line.section = "HitObjects"
  BY DEF HitObjectLines
<1> QED BY <1>1, <1>2, <1>3, <1>4, <1>5 DEF Lines

(* The timing lines of a file that are accepted, and whether they are in   *)
(* order.                                                                  *)
IsAccepted(line) == line.section = "TimingPoints" /\ ~TimingLineFails(line)
Accepted(ls) == {i \in DOMAIN ls : IsAccepted(ls[i])}
LinesInOrder(ls) == \A i, j \in Accepted(ls) : i < j => ls[i].time <= ls[j].time

ModeIn(ls, i) ==
  LET modes == {j \in DOMAIN ls : ls[j].section = "General" /\ j < i /\ ls[j].key = "Mode"}
  IN  IF modes = {} THEN "osu" ELSE ls[Max(modes)].value

(* Line i is the active one at a time, or there is none yet.               *)
IsActive(ls, time, i) ==
  LET passed == {j \in Accepted(ls) : ls[j].time <= time}
  IN  \/ i = 0 /\ passed = {}
      \/ /\ i \in passed
         /\ \A j \in passed : ls[j].time <= ls[i].time
         /\ \A j \in passed : ls[j].time = ls[i].time =>
              IF ls[i].change THEN ls[j].change /\ i <= j ELSE ls[j].change \/ j <= i

LEMMA AcceptedLines ==
  ASSUME NEW ls \in Seq(Lines), NEW i \in Accepted(ls)
  PROVE  /\ i \in 1 .. Len(ls) /\ ls[i] \in TimingPointLines /\ ~TimingLineFails(ls[i])
         /\ ls[i].time \in Int /\ ls[i].change \in BOOLEAN
<1>1. /\ i \in 1 .. Len(ls) /\ ls[i].section = "TimingPoints" /\ ~TimingLineFails(ls[i])
  BY DEF Accepted, IsAccepted
<1>2. ls[i] \in TimingPointLines
  BY <1>1, SectionsOfLines
<1> QED BY <1>1, <1>2 DEF TimingPointLines

LEMMA AppendedLines ==
  ASSUME NEW ls \in Seq(Lines), NEW line \in Lines
  PROVE  LET n == Len(ls)
             more == Append(ls, line)
         IN  /\ n \in Nat /\ more \in Seq(Lines) /\ Len(more) = n + 1
             /\ DOMAIN ls = 1 .. n /\ DOMAIN more = 1 .. n + 1
             /\ more[n + 1] = line /\ \A i \in 1 .. n : more[i] = ls[i]
             /\ n + 1 \in Accepted(more) <=> IsAccepted(line)
             /\ \A i \in 1 .. n : i \in Accepted(more) <=> i \in Accepted(ls)
             /\ Accepted(more) = Accepted(ls) \cup (IF IsAccepted(line) THEN {n + 1} ELSE {})
             /\ LinesInOrder(more) => LinesInOrder(ls)
<1> DEFINE n == Len(ls)
           more == Append(ls, line)
<1>1. /\ n \in Nat /\ more \in Seq(Lines) /\ Len(more) = n + 1
      /\ DOMAIN ls = 1 .. n /\ DOMAIN more = 1 .. n + 1
      /\ more[n + 1] = line /\ \A i \in 1 .. n : more[i] = ls[i]
  OBVIOUS
<1> HIDE DEF more
<1>2. n + 1 \in Accepted(more) <=> IsAccepted(line)
  BY <1>1 DEF Accepted
<1>3. \A i \in 1 .. n : i \in Accepted(more) <=> i \in Accepted(ls)
  BY <1>1 DEF Accepted
<1>4. Accepted(more) = Accepted(ls) \cup (IF IsAccepted(line) THEN {n + 1} ELSE {})
  BY <1>1, <1>2, <1>3 DEF Accepted
<1>5. LinesInOrder(more) => LinesInOrder(ls)
  <2>1. \A i \in Accepted(ls) : i \in 1 .. n /\ i \in Accepted(more) /\ more[i] = ls[i]
    BY <1>1, <1>4 DEF Accepted
  <2> QED BY <2>1 DEF LinesInOrder
<1> QED BY <1>1, <1>2, <1>3, <1>4, <1>5 DEF more

LEMMA ModeIsKept ==
  ASSUME NEW ls \in Seq(Lines), NEW line \in Lines
  PROVE  LET n == Len(ls)
             more == Append(ls, line)
         IN  /\ \A i \in 1 .. n + 1 : ModeIn(more, i) = ModeIn(ls, i)
             /\ ModeIn(more, n + 2) =
                  IF line.section = "General" /\ line.key = "Mode" THEN line.value ELSE ModeIn(ls, n + 1)
<1> DEFINE n == Len(ls)
           more == Append(ls, line)
           Modes(l, i) == {j \in DOMAIN l : l[j].section = "General" /\ j < i /\ l[j].key = "Mode"}
           set == line.section = "General" /\ line.key = "Mode"
<1>1. /\ n \in Nat /\ DOMAIN ls = 1 .. n /\ DOMAIN more = 1 .. n + 1
      /\ more[n + 1] = line /\ \A i \in 1 .. n : more[i] = ls[i]
  BY AppendedLines
<1> HIDE DEF more
<1>2. ASSUME NEW i \in 1 .. n + 1
      PROVE  Modes(more, i) = Modes(ls, i) /\ Modes(ls, i) \in SUBSET (1 .. n)
  BY <1>1
<1>3. Modes(more, n + 2) = Modes(ls, n + 1) \cup (IF set THEN {n + 1} ELSE {})
  <2>1. ASSUME NEW j \in 1 .. n PROVE j \in Modes(more, n + 2) <=> j \in Modes(ls, n + 1)
    BY <1>1
  <2>2. n + 1 \in Modes(more, n + 2) <=> set
    BY <1>1
  <2>3. Modes(more, n + 2) \in SUBSET (1 .. n + 1) /\ Modes(ls, n + 1) \in SUBSET (1 .. n)
    BY <1>1
  <2> HIDE DEF Modes, set
  <2> QED BY <1>1, <2>1, <2>2, <2>3
<1> HIDE DEF Modes
<1>4. \A l, i : ModeIn(l, i) = IF Modes(l, i) = {} THEN "osu" ELSE l[Max(Modes(l, i))].value
  BY DEF ModeIn, Modes
<1>5. ASSUME NEW i \in 1 .. n + 1 PROVE ModeIn(more, i) = ModeIn(ls, i)
  <2>1. CASE Modes(ls, i) = {}
    BY <1>2, <1>4, <2>1
  <2>2. CASE Modes(ls, i) # {}
    <3>1. Max(Modes(ls, i)) \in 1 .. n
      BY <1>1, <1>2, <2>2, BoundsAreReached
    <3> QED BY <1>1, <1>2, <1>4, <2>2, <3>1
  <2> QED BY <2>1, <2>2
<1>6. n + 1 \in 1 .. n + 1
  BY <1>1
<1>7. CASE ~set
  <2>1. Modes(more, n + 2) = Modes(ls, n + 1)
    BY <1>3, <1>7
  <2>2. ModeIn(more, n + 2) = ModeIn(more, n + 1)
    BY <1>2, <1>4, <1>6, <2>1
  <2>3. ModeIn(more, n + 2) = ModeIn(ls, n + 1)
    BY <1>5, <1>6, <2>2
  <2> QED BY <1>5, <1>7, <2>3 DEF more
<1>8. CASE set
  <2>1. n + 1 \in Modes(more, n + 2) /\ Modes(more, n + 2) \in SUBSET Nat
    BY <1>1, <1>2, <1>3, <1>6, <1>8
  <2>2. \A j \in Modes(more, n + 2) : j <= n + 1
    BY <1>1, <1>2, <1>3, <1>6, <1>8
  <2>3. Max(Modes(more, n + 2)) = n + 1
    BY <2>1, <2>2, GreatestIsMax
  <2>4. ModeIn(more, n + 2) = line.value
    BY <1>1, <1>4, <2>1, <2>3
  <2> QED BY <1>5, <1>8, <2>4 DEF more
<1> QED BY <1>7, <1>8

LEMMA ActiveIsUnique ==
  ASSUME NEW ls \in Seq(Lines), NEW time, NEW i, NEW j,
         IsActive(ls, time, i), IsActive(ls, time, j)
  PROVE  i = j
<1> DEFINE passed == {k \in Accepted(ls) : ls[k].time <= time}
<1>1. \A k \in passed : k \in Nat /\ ls[k].time \in Int /\ ls[k].change \in BOOLEAN
  BY AcceptedLines
<1>2. CASE passed = {}
  BY <1>2 DEF IsActive
<1>3. CASE passed # {}
  <2>1. i \in passed /\ j \in passed
    BY <1>3 DEF IsActive
  <2>2. ls[i].time <= ls[j].time /\ ls[j].time <= ls[i].time
    BY <1>3, <2>1 DEF IsActive
  <2>3. ls[i].time = ls[j].time
    BY <1>1, <2>1, <2>2
  <2>4. /\ IF ls[i].change THEN ls[j].change /\ i <= j ELSE ls[j].change \/ j <= i
        /\ IF ls[j].change THEN ls[i].change /\ j <= i ELSE ls[i].change \/ i <= j
    BY <1>3, <2>1, <2>3 DEF IsActive
  <2> HIDE DEF passed
  <2> QED BY <1>1, <2>1, <2>4
<1> QED BY <1>2, <1>3

(* In a file in order the line that the property takes is the active one.  *)
LEMMA ActiveLineIsActive ==
  ASSUME lines \in Seq(Lines), LinesInOrder(lines), NEW time \in Int
  PROVE  IsActive(lines, time, ActiveLine(time))
<1> DEFINE passed == {i \in Accepted(lines) : lines[i].time <= time}
           latest == {i \in passed : \A j \in passed : lines[j].time <= lines[i].time}
           inherited == {i \in latest : ~lines[i].change}
           n == Len(lines)
<1>1. n \in Nat /\ \A i \in Accepted(lines) : i \in 1 .. n /\ lines[i].time \in Int /\ lines[i].change \in BOOLEAN
  BY AcceptedLines
<1>2. TimingLines = Accepted(lines)
  BY DEF TimingLines, LinesOf, Accepted, IsAccepted
<1>3. ActiveLine(time) = IF passed = {} THEN 0
                         ELSE IF inherited # {} THEN Max(inherited) ELSE Min(latest)
  BY <1>2 DEF ActiveLine
<1>4. CASE passed = {}
  BY <1>3, <1>4 DEF IsActive
<1>5. CASE passed # {}
  <2>1. passed \in SUBSET (1 .. n) /\ passed \in SUBSET Accepted(lines)
    BY <1>1
  <2>2. Max(passed) \in passed /\ \A i \in passed : i <= Max(passed)
    <3> HIDE DEF passed
    <3> QED BY <1>1, <1>5, <2>1, BoundsAreReached
  <2>3. Max(passed) \in latest
    <3>1. ASSUME NEW j \in passed PROVE lines[j].time <= lines[Max(passed)].time
      <4> DEFINE m == Max(passed)
      <4>1. m \in Accepted(lines) /\ j \in Accepted(lines) /\ j <= m
        BY <2>1, <2>2
      <4> HIDE DEF m
      <4>2. CASE j = m
        BY <1>1, <4>1, <4>2 DEF m
      <4>3. CASE j < m
        BY <4>1, <4>3 DEF LinesInOrder, m
      <4> QED BY <1>1, <4>1, <4>2, <4>3
    <3> HIDE DEF passed
    <3> QED BY <2>2, <3>1
  <2>4. latest # {} /\ latest \in SUBSET (1 .. n) /\ inherited \in SUBSET (1 .. n)
    BY <2>1, <2>3
  <2>5. \A i \in latest : i \in passed /\ \A j \in passed : lines[j].time <= lines[i].time
    OBVIOUS
  <2>6. ASSUME NEW i \in latest, NEW j \in passed, lines[j].time = lines[i].time
        PROVE  j \in latest
    BY <2>6
  <2>7. CASE inherited # {}
    <3> DEFINE a == Max(inherited)
    <3>1. a \in inherited /\ \A j \in inherited : j <= a
      <4> HIDE DEF inherited
      <4> QED BY <1>1, <2>4, <2>7, BoundsAreReached
    <3>2. ActiveLine(time) = a
      BY <1>3, <1>5, <2>7
    <3>3. a \in latest /\ ~lines[a].change
      BY <3>1
    <3>4. ASSUME NEW j \in passed, lines[j].time = lines[a].time PROVE lines[j].change \/ j <= a
      BY <2>6, <3>1, <3>3, <3>4
    <3> HIDE DEF a
    <3> QED BY <2>5, <3>2, <3>3, <3>4 DEF IsActive
  <2>8. CASE inherited = {}
    <3> DEFINE a == Min(latest)
    <3>1. a \in latest /\ \A j \in latest : a <= j
      <4> HIDE DEF latest
      <4> QED BY <1>1, <2>4, BoundsAreReached
    <3>2. ActiveLine(time) = a
      BY <1>3, <1>5, <2>8
    <3>3. \A j \in latest : lines[j].change
      BY <2>8
    <3>4. ASSUME NEW j \in passed, lines[j].time = lines[a].time PROVE lines[j].change /\ a <= j
      <4>1. j \in latest
        BY <2>6, <3>1, <3>4
      <4> HIDE DEF a, latest
      <4> QED BY <3>1, <3>3, <4>1
    <3> HIDE DEF a
    <3> QED BY <2>5, <3>1, <3>2, <3>3, <3>4 DEF IsActive
  <2> QED BY <2>7, <2>8
<1> QED BY <1>4, <1>5

(* Another line leaves the active line of earlier times, and of all times  *)
(* if it is no accepted timing line.                                       *)
LEMMA ActiveIsKept ==
  ASSUME NEW ls \in Seq(Lines), NEW line \in Lines, NEW time \in Int,
         IsAccepted(line) => time < line.time, NEW i
  PROVE  IsActive(Append(ls, line), time, i) <=> IsActive(ls, time, i)
<1> DEFINE n == Len(ls)
           more == Append(ls, line)
           Passed_(l) == {j \in Accepted(l) : l[j].time <= time}
<1>1. /\ n \in Nat /\ more[n + 1] = line /\ \A j \in 1 .. n : more[j] = ls[j]
      /\ Accepted(more) = Accepted(ls) \cup (IF IsAccepted(line) THEN {n + 1} ELSE {})
      /\ more \in Seq(Lines) /\ (n + 1 \in Accepted(more) <=> IsAccepted(line))
  BY AppendedLines
<1>2. \A j \in Accepted(ls) : j \in 1 .. n
  BY AcceptedLines
<1> HIDE DEF more
<1>3. IsAccepted(line) => line.time \in Int
  BY <1>1, AcceptedLines
<1>4. Passed_(more) = Passed_(ls)
  BY <1>1, <1>2, <1>3
<1>5. \A j \in Passed_(ls) : more[j] = ls[j]
  BY <1>1, <1>2
<1> QED BY <1>4, <1>5 DEF IsActive, more

(* Of times that no line is later than, the active line is the same.       *)
LEMMA LastActiveIsKept ==
  ASSUME NEW ls \in Seq(Lines), NEW last \in Int, \A j \in Accepted(ls) : ls[j].time <= last,
         NEW time \in Int, time >= last, NEW i
  PROVE  IsActive(ls, time, i) <=> IsActive(ls, last, i)
<1>1. \A j \in Accepted(ls) : ls[j].time <= time /\ ls[j].time <= last
  <2>1. \A j \in Accepted(ls) : ls[j].time \in Int
    BY AcceptedLines
  <2> QED BY <2>1
<1> QED BY <1>1 DEF IsActive

(* A timing line in order is the active one at its time, but for a timing  *)
(* change that is not the first line of that time.                         *)
LEMMA ActiveIsNext ==
  ASSUME NEW ls \in Seq(Lines), NEW line \in Lines, IsAccepted(line), LinesInOrder(Append(ls, line))
  PROVE  LET n == Len(ls)
             more == Append(ls, line)
             again == \E j \in Accepted(ls) : ls[j].time = line.time
         IN  /\ \A j \in Accepted(ls) : ls[j].time <= line.time
             /\ ~line.change \/ ~again => IsActive(more, line.time, n + 1)
             /\ line.change /\ again => \A i : IsActive(ls, line.time, i) => IsActive(more, line.time, i)
<1> DEFINE n == Len(ls)
           more == Append(ls, line)
           u == line.time
           again == \E j \in Accepted(ls) : ls[j].time = u
<1>1. /\ n \in Nat /\ more[n + 1] = line /\ \A j \in 1 .. n : more[j] = ls[j]
      /\ Accepted(more) = Accepted(ls) \cup {n + 1} /\ more \in Seq(Lines)
  BY AppendedLines
<1>2. \A j \in Accepted(ls) : j \in 1 .. n /\ ls[j].time \in Int /\ ls[j].change \in BOOLEAN
  BY AcceptedLines
<1> HIDE DEF more
<1>3. u \in Int /\ line.change \in BOOLEAN
  BY <1>1, AcceptedLines
<1>4. ASSUME NEW j \in Accepted(ls) PROVE ls[j].time <= u /\ j < n + 1 /\ more[j] = ls[j]
  <2>1. j \in Accepted(more) /\ n + 1 \in Accepted(more) /\ j < n + 1 /\ more[j] = ls[j]
    BY <1>1, <1>2
  <2> QED BY <1>1, <2>1 DEF LinesInOrder, more
<1>5. {j \in Accepted(more) : more[j].time <= u} = Accepted(ls) \cup {n + 1}
  BY <1>1, <1>3, <1>4
<1>6. {j \in Accepted(ls) : ls[j].time <= u} = Accepted(ls)
  BY <1>4
<1>7. \A j \in Accepted(ls) \cup {n + 1} : more[j].time <= u /\ j <= n + 1
  BY <1>1, <1>2, <1>3, <1>4
<1>8. ASSUME ~line.change \/ ~again PROVE IsActive(more, u, n + 1)
  <2>1. ASSUME NEW j \in Accepted(ls) \cup {n + 1}, more[j].time = u
        PROVE  IF line.change THEN more[j].change /\ n + 1 <= j ELSE more[j].change \/ j <= n + 1
    <3>1. CASE ~line.change
      BY <1>7, <3>1
    <3>2. CASE line.change
      <4>1. j = n + 1
        BY <1>4, <1>8, <2>1, <3>2
      <4> QED BY <1>1, <3>2, <4>1
    <3> QED BY <1>3, <3>1, <3>2
  <2> HIDE DEF u
  <2> QED BY <1>1, <1>5, <1>7, <2>1 DEF IsActive, u
<1>9. ASSUME line.change, again, NEW i, IsActive(ls, u, i) PROVE IsActive(more, u, i)
  <2>1. i \in Accepted(ls)
    BY <1>6, <1>9 DEF IsActive
  <2>2. /\ \A j \in Accepted(ls) : ls[j].time <= ls[i].time
        /\ \A j \in Accepted(ls) : ls[j].time = ls[i].time =>
             IF ls[i].change THEN ls[j].change /\ i <= j ELSE ls[j].change \/ j <= i
    BY <1>6, <1>9, <2>1 DEF IsActive
  <2>3. ls[i].time = u
    BY <1>2, <1>3, <1>4, <1>9, <2>1, <2>2
  <2>4. more[i] = ls[i] /\ i < n + 1
    BY <1>4, <2>1
  <2>5. ASSUME NEW j \in Accepted(ls) \cup {n + 1}, more[j].time = u
        PROVE  IF more[i].change THEN more[j].change /\ i <= j ELSE more[j].change \/ j <= i
    <3>1. CASE j \in Accepted(ls)
      BY <1>4, <2>2, <2>3, <2>4, <2>5, <3>1
    <3>2. CASE j = n + 1
      BY <1>1, <1>2, <1>9, <2>1, <2>4, <3>2
    <3> QED BY <3>1, <3>2
  <2> HIDE DEF u
  <2> QED BY <1>5, <1>7, <2>1, <2>3, <2>4, <2>5 DEF IsActive
<1> QED BY <1>4, <1>8, <1>9 DEF more

(***************************************************************************)
(* What the lists and the pending points stand for, after some lines       *)
(***************************************************************************)
Worthy == {"difficulty", "effect"}

(* The point that a line makes, and what is in force while it is active.   *)
PointOfLine(ls, kind, i) ==
  IF kind = "difficulty" THEN NewDifficultyPoint(ls[i].time, ls[i].beat)
  ELSE NewEffectPoint(ls[i].time, ls[i].kiai, ScrollSpeed(ModeIn(ls, i), ls[i].beat))

InForce(ls, kind, i) ==
  Worth(kind, IF i = 0 THEN DefaultPoint(kind) ELSE PointOfLine(ls, kind, i))

(* The lists tell what is in force at every time before `time`.            *)
TellBefore(ls, points, kind, time) ==
  \A t \in Int, i \in Nat :
    t < time /\ IsActive(ls, t, i) => Worth(kind, PointAt(kind, points, t)) = InForce(ls, kind, i)

AllBefore(points, time) == \A i \in 1 .. Len(points) : points[i].time < time

(* The pending points are those of the last time, which no point of a list *)
(* has yet.                                                                *)
PointsInOrder(ls, s) ==
  /\ Accepted(ls) = {} => \A kind \in Kinds : s.points[kind] = <<>> /\ s.pending[kind] = None
  /\ Accepted(ls) # {} =>
       /\ \A i \in Accepted(ls) : ls[i].time <= s.pending_time
       /\ \E i \in Accepted(ls) : ls[i].time = s.pending_time
       /\ \A kind \in Kinds : AllBefore(s.points[kind], s.pending_time)
       /\ \A kind \in Worthy :
            /\ TellBefore(ls, s.points[kind], kind, s.pending_time)
            /\ \E a \in Accepted(ls) : /\ IsActive(ls, s.pending_time, a)
                                       /\ s.pending[kind] = PointOfLine(ls, kind, a)

PendingAtTime(s) ==
  \A kind \in Kinds : s.pending[kind] # None => s.pending[kind].time = s.pending_time

PointsInv(ls, s) ==
  /\ IsState(s) /\ ListsGrow(s) /\ PendingAtTime(s)
  /\ s.mode = ModeIn(ls, Len(ls) + 1)
  /\ LinesInOrder(ls) => PointsInOrder(ls, s)

LEMMA WorthyKinds == \A kind \in Worthy : kind \in Kinds /\ kind # "timing"
BY DEF Worthy, Kinds

(* A line's point is one of its kind, and has its time.                    *)
LEMMA PointIsOfLine ==
  ASSUME NEW ls \in Seq(Lines), NEW i \in Accepted(ls), NEW kind \in Worthy
  PROVE  PointOfLine(ls, kind, i) \in PointsOf(kind) /\ PointOfLine(ls, kind, i).time = ls[i].time
<1>1. ls[i] \in TimingPointLines /\ ls[i].time \in Int
  BY AcceptedLines
<1>2. CASE kind = "difficulty"
  <2>1. PointOfLine(ls, kind, i) = NewDifficultyPoint(ls[i].time, ls[i].beat)
    BY <1>2 DEF PointOfLine
  <2>2. NewDifficultyPoint(ls[i].time, ls[i].beat).time = ls[i].time
    BY DEF NewDifficultyPoint
  <2> QED BY <1>1, <1>2, <2>1, <2>2, PointsAreMade
<1>3. CASE kind = "effect"
  <2>1. PointOfLine(ls, kind, i) = NewEffectPoint(ls[i].time, ls[i].kiai, ScrollSpeed(ModeIn(ls, i), ls[i].beat))
    BY <1>3 DEF PointOfLine
  <2>2. PointOfLine(ls, kind, i).time = ls[i].time
    BY <2>1 DEF NewEffectPoint
  <2> QED BY <1>1, <1>3, <2>1, <2>2, PointsAreMade
<1> QED BY <1>2, <1>3 DEF Worthy

(* When the pending points are taken, the lists tell what is in force at   *)
(* every time.                                                             *)
LEMMA FlushedListsTell ==
  ASSUME NEW ls \in Seq(Lines), NEW s, PointsInv(ls, s), LinesInOrder(ls),
         NEW kind \in Worthy, NEW t \in Int, NEW i \in Nat, IsActive(ls, t, i)
  PROVE  Worth(kind, PointAt(kind, FlushPendingPoints(s).points[kind], t)) = InForce(ls, kind, i)
<1> DEFINE points == s.points[kind]
           point == s.pending[kind]
           taken == FlushPendingPoints(s).points[kind]
           last == s.pending_time
<1>1. kind \in Kinds /\ IsState(s) /\ ListsGrow(s) /\ PointsInOrder(ls, s)
  BY WorthyKinds DEF PointsInv
<1>2. taken = Taken(kind, points, point) /\ points \in Seq(PointsOf(kind)) /\ Grows(points) /\ last \in Int
  BY <1>1, PendingIsFlushed DEF IsState, ListsGrow
<1>3. CASE Accepted(ls) = {}
  <2>1. taken = <<>>
    BY <1>1, <1>2, <1>3 DEF PointsInOrder, Taken
  <2>2. IndexAt(<<>>, t) = 0
    <3>1. {j \in DOMAIN <<>> : <<>>[j].time <= t} = {}
      OBVIOUS
    <3> QED BY <3>1, FS_EmptySet DEF IndexAt
  <2>3. i = 0
    BY <1>3 DEF IsActive
  <2>4. PointAt(kind, <<>>, t) = DefaultPoint(kind)
    BY <2>2 DEF PointAt
  <2> HIDE DEF taken
  <2> QED BY <2>1, <2>3, <2>4 DEF InForce, taken
<1>4. CASE Accepted(ls) # {}
  <2>1. PICK a \in Accepted(ls) : IsActive(ls, last, a) /\ point = PointOfLine(ls, kind, a)
    BY <1>1, <1>4 DEF PointsInOrder
  <2>2. /\ \A j \in Accepted(ls) : ls[j].time <= last
        /\ \E j \in Accepted(ls) : ls[j].time = last
        /\ AllBefore(points, last) /\ TellBefore(ls, points, kind, last)
    BY <1>1, <1>4 DEF PointsInOrder
  <2>3. \A j \in Accepted(ls) : ls[j].time \in Int /\ j # 0
    BY AcceptedLines
  <2>4. ls[a].time = last
    <3>1. PICK j \in Accepted(ls) : ls[j].time = last
      BY <2>2
    <3>2. ls[j].time <= ls[a].time
      BY <1>2, <2>1, <2>3, <3>1 DEF IsActive
    <3> QED BY <1>2, <2>2, <2>3, <3>1, <3>2
  <2>5. point \in PointsOf(kind) /\ point.time = last
    BY <2>1, <2>4, PointIsOfLine
  <2>6. /\ t < last => PointAt(kind, taken, t) = PointAt(kind, points, t)
        /\ t >= last => Worth(kind, PointAt(kind, taken, t)) = Worth(kind, point)
    <3>1. \A j \in 1 .. Len(points) : points[j].time < point.time
      BY <2>2, <2>5 DEF AllBefore
    <3> HIDE DEF points, point, taken, last
    <3> QED BY <1>2, <2>5, <3>1, TakenPointCounts DEF Worthy
  <2>7. CASE t < last
    <3>1. Worth(kind, PointAt(kind, points, t)) = InForce(ls, kind, i)
      BY <2>2, <2>7 DEF TellBefore
    <3> HIDE DEF points, taken, last
    <3> QED BY <2>6, <2>7, <3>1 DEF taken
  <2>8. CASE t >= last
    <3>1. IsActive(ls, last, i)
      BY <1>2, <2>2, <2>8, LastActiveIsKept
    <3>2. i = a
      BY <2>1, <3>1, ActiveIsUnique
    <3>3. Worth(kind, point) = InForce(ls, kind, i)
      BY <2>1, <2>3, <3>2 DEF InForce
    <3> HIDE DEF point, taken, last
    <3> QED BY <2>6, <2>8, <3>3 DEF taken
  <2> QED BY <1>2, <2>7, <2>8
<1> QED BY <1>3, <1>4

LEMMA LinesStayInForce ==
  ASSUME NEW ls \in Seq(Lines), NEW line \in Lines, NEW kind
  PROVE  LET more == Append(ls, line)
         IN  /\ \A i \in 1 .. Len(ls) : PointOfLine(more, kind, i) = PointOfLine(ls, kind, i)
             /\ \A i \in 0 .. Len(ls) : InForce(more, kind, i) = InForce(ls, kind, i)
<1> DEFINE n == Len(ls)
           more == Append(ls, line)
<1>1. n \in Nat /\ \A i \in 1 .. n : more[i] = ls[i] /\ ModeIn(more, i) = ModeIn(ls, i)
  <2>1. n \in Nat /\ \A i \in 1 .. n : i \in 1 .. n + 1
    OBVIOUS
  <2> HIDE DEF more
  <2> QED BY <2>1, AppendedLines, ModeIsKept DEF more
<1> HIDE DEF more
<1>2. ASSUME NEW i \in 1 .. n PROVE PointOfLine(more, kind, i) = PointOfLine(ls, kind, i)
  BY <1>1 DEF PointOfLine
<1>3. ASSUME NEW i \in 0 .. n PROVE InForce(more, kind, i) = InForce(ls, kind, i)
  <2>1. CASE i = 0
    BY <2>1 DEF InForce
  <2>2. CASE i # 0
    <3>1. i \in 1 .. n
      BY <1>1, <2>2
    <3> QED BY <1>2, <2>2, <3>1 DEF InForce
  <2> QED BY <2>1, <2>2
<1> QED BY <1>2, <1>3 DEF more

LEMMA ActiveIsALine ==
  ASSUME NEW ls \in Seq(Lines), NEW t, NEW i, IsActive(ls, t, i)
  PROVE  i \in 0 .. Len(ls) /\ (i # 0 => i \in Accepted(ls))
<1>1. i = 0 \/ i \in Accepted(ls)
  BY DEF IsActive
<1>2. Len(ls) \in Nat /\ \A j \in Accepted(ls) : j \in 1 .. Len(ls)
  BY AcceptedLines
<1> QED BY <1>1, <1>2

(* A line that is no accepted timing line changes none of this.            *)
LEMMA OtherLinesKeepPoints ==
  ASSUME NEW ls \in Seq(Lines), NEW line \in Lines, ~IsAccepted(line),
         NEW s, PointsInv(ls, s), NEW r, IsState(r),
         r.mode = IF line.section = "General" /\ line.key = "Mode" THEN line.value ELSE s.mode,
         r.points = s.points, r.pending = s.pending, r.pending_time = s.pending_time
  PROVE  PointsInv(Append(ls, line), r)
<1> DEFINE n == Len(ls)
           more == Append(ls, line)
<1>1. /\ n \in Nat /\ Len(more) = n + 1 /\ Accepted(more) = Accepted(ls)
      /\ LinesInOrder(more) => LinesInOrder(ls)
      /\ \A j \in 1 .. n : more[j] = ls[j]
  <2>1. Accepted(more) = Accepted(ls) \cup {}
    BY AppendedLines
  <2> QED BY <2>1, AppendedLines
<1>2. IsState(s) /\ ListsGrow(s) /\ s.mode = ModeIn(ls, n + 1) /\ s.pending_time \in Int
      /\ (LinesInOrder(ls) => PointsInOrder(ls, s))
  BY DEF PointsInv, IsState
<1>3. \A t \in Int : \A i : IsActive(more, t, i) <=> IsActive(ls, t, i)
  BY ActiveIsKept
<1>4. ModeIn(more, n + 2) = r.mode
  BY <1>2, ModeIsKept
<1>5. n + 2 = (n + 1) + 1
  BY <1>1
<1>6. ASSUME NEW kind
      PROVE  /\ \A i \in 1 .. n : PointOfLine(more, kind, i) = PointOfLine(ls, kind, i)
             /\ \A i \in 0 .. n : InForce(more, kind, i) = InForce(ls, kind, i)
  BY LinesStayInForce
<1>7. \A j \in Accepted(ls) : j \in 1 .. n /\ ls[j].time \in Int
  BY AcceptedLines
<1> HIDE DEF more
<1>8. ASSUME LinesInOrder(more) PROVE PointsInOrder(more, r)
  <2>1. PointsInOrder(ls, s)
    BY <1>1, <1>2, <1>8
  <2>2. CASE Accepted(ls) = {}
    BY <1>1, <2>1, <2>2 DEF PointsInOrder
  <2>3. CASE Accepted(ls) # {}
    <3>1. /\ \A i \in Accepted(more) : more[i].time <= r.pending_time
          /\ \E i \in Accepted(more) : more[i].time = r.pending_time
          /\ \A kind \in Kinds : AllBefore(r.points[kind], r.pending_time)
      BY <1>1, <1>7, <2>1, <2>3 DEF PointsInOrder
    <3>2. ASSUME NEW kind \in Worthy PROVE TellBefore(more, r.points[kind], kind, r.pending_time)
      <4>1. TellBefore(ls, s.points[kind], kind, s.pending_time)
        BY <2>1, <2>3 DEF PointsInOrder
      <4> SUFFICES ASSUME NEW t \in Int, NEW i \in Nat, t < r.pending_time, IsActive(more, t, i)
                   PROVE  Worth(kind, PointAt(kind, r.points[kind], t)) = InForce(more, kind, i)
        BY DEF TellBefore
      <4>2. IsActive(ls, t, i) /\ i \in 0 .. n
        BY <1>3, ActiveIsALine
      <4> QED BY <1>6, <4>1, <4>2 DEF TellBefore
    <3>3. ASSUME NEW kind \in Worthy
          PROVE  \E a \in Accepted(more) : /\ IsActive(more, r.pending_time, a)
                                           /\ r.pending[kind] = PointOfLine(more, kind, a)
      <4>1. PICK a \in Accepted(ls) : IsActive(ls, s.pending_time, a) /\ s.pending[kind] = PointOfLine(ls, kind, a)
        BY <2>1, <2>3 DEF PointsInOrder
      <4> QED BY <1>1, <1>2, <1>3, <1>6, <1>7, <4>1
    <3> QED BY <1>1, <2>3, <3>1, <3>2, <3>3 DEF PointsInOrder
  <2> QED BY <2>2, <2>3
<1>9. ListsGrow(r)
  BY <1>2 DEF ListsGrow
<1>10. PendingAtTime(r)
  BY DEF PendingAtTime, PointsInv
<1> QED BY <1>1, <1>4, <1>5, <1>8, <1>9, <1>10 DEF PointsInv, more

LEMMA TakenStaysBefore ==
  ASSUME NEW kind \in Kinds, NEW points \in Seq(PointsOf(kind)), Grows(points),
         NEW point \in PointsOf(kind) \cup {None}, NEW last \in Int, NEW time \in Int, last < time,
         AllBefore(points, last), point # None => point.time = last
  PROVE  AllBefore(Taken(kind, points, point), time)
<1> DEFINE n == Len(points)
<1>1. n \in Nat /\ \A i \in 1 .. n : points[i].time \in Int /\ points[i].time < last
  BY TimesOfPoints DEF AllBefore
<1>2. CASE Taken(kind, points, point) = points
  BY <1>1, <1>2 DEF AllBefore
<1>3. CASE Taken(kind, points, point) # points
  <2>1. point # None /\ Taken(kind, points, point) = Append(points, point)
    BY <1>1, <1>3, AddedIsFound DEF Taken
  <2>2. /\ Len(Append(points, point)) = n + 1 /\ Append(points, point)[n + 1] = point
        /\ \A i \in 1 .. n : Append(points, point)[i] = points[i]
    BY <1>1
  <2>3. ASSUME NEW i \in 1 .. n + 1 PROVE Append(points, point)[i].time < time
    <3>1. i = n + 1 \/ i \in 1 .. n
      BY <1>1
    <3> HIDE DEF n
    <3> QED BY <1>1, <2>1, <2>2, <3>1
  <2> QED BY <2>1, <2>2, <2>3 DEF AllBefore
<1> QED BY <1>2, <1>3

(* An accepted timing line: the point of its time is flushed first if that *)
(* was another, and otherwise shared with it.                              *)
LEMMA TimingLinesKeepPoints ==
  ASSUME NEW ls \in Seq(Lines), NEW line \in TimingPointLines, line \in Lines, IsAccepted(line),
         NEW s, PointsInv(ls, s)
  PROVE  PointsInv(Append(ls, line), ParseTimingPoints(s, line))
<1> DEFINE n == Len(ls)
           more == Append(ls, line)
           r == ParseTimingPoints(s, line)
           u == line.time
           f == Flushed(s, u)
           p == PointOfLine(more, "difficulty", n + 1)
           q == PointOfLine(more, "effect", n + 1)
           made(kind) == PointOfLine(more, kind, n + 1)
           last == s.pending_time
<1>1. /\ n \in Nat /\ Len(more) = n + 1 /\ Accepted(more) = Accepted(ls) \cup {n + 1}
      /\ LinesInOrder(more) => LinesInOrder(ls)
      /\ more[n + 1] = line /\ \A j \in 1 .. n : more[j] = ls[j]
  BY AppendedLines
<1>2. /\ IsState(s) /\ ListsGrow(s) /\ s.mode = ModeIn(ls, n + 1) /\ last \in Int
      /\ LinesInOrder(ls) => PointsInOrder(ls, s)
  BY DEF PointsInv, IsState
<1>3. u \in Int /\ line.change \in BOOLEAN /\ line.section = "TimingPoints" /\ ~TimingLineFails(line)
  BY DEF TimingPointLines, IsAccepted
<1>4. ModeIn(more, n + 1) = s.mode /\ ModeIn(more, n + 2) = s.mode
  <2>1. n + 1 \in 1 .. n + 1
    BY <1>1
  <2> QED BY <1>2, <1>3, <2>1, ModeIsKept
<1>5. ASSUME NEW kind
      PROVE  /\ \A i \in 1 .. n : PointOfLine(more, kind, i) = PointOfLine(ls, kind, i)
             /\ \A i \in 0 .. n : InForce(more, kind, i) = InForce(ls, kind, i)
  BY LinesStayInForce
<1>6. \A j \in Accepted(ls) : j \in 1 .. n /\ ls[j].time \in Int
  BY AcceptedLines
<1>7. ASSUME NEW t \in Int, t < u, NEW i PROVE IsActive(more, t, i) <=> IsActive(ls, t, i)
  BY <1>7, ActiveIsKept
<1>8. /\ IsState(r) /\ ListsGrow(r) /\ r.pending_time = u
      /\ Unchanged(f, r, Fields \ {"pending", "pending_time"})
  BY <1>2, <1>3, TimingIsParsed
<1>9. ASSUME NEW kind \in Worthy PROVE r.pending[kind] = Push(f.pending[kind], made(kind), line.change)
  <2>1. /\ r.pending["difficulty"] =
             Push(f.pending["difficulty"], NewDifficultyPoint(line.time, line.beat), line.change)
        /\ r.pending["effect"] =
             Push(f.pending["effect"], NewEffectPoint(line.time, line.kiai, ScrollSpeed(s.mode, line.beat)), line.change)
    BY <1>2, <1>3, TimingIsParsed
  <2>2. p = NewDifficultyPoint(line.time, line.beat)
    BY <1>1 DEF PointOfLine
  <2>3. q = NewEffectPoint(line.time, line.kiai, ScrollSpeed(s.mode, line.beat))
    BY <1>1, <1>4 DEF PointOfLine
  <2>4. made("difficulty") = p /\ made("effect") = q
    OBVIOUS
  <2> HIDE DEF p, q, made, r, f
  <2> QED BY <2>1, <2>2, <2>3, <2>4 DEF Worthy
<1>10. r.points = f.points
  BY <1>8 DEF Unchanged, Fields
<1>11. /\ IsState(f) /\ Unchanged(s, f, Fields \ {"points", "pending"})
  BY <1>2, FlushedIsState
<1>12. r.mode = s.mode
  BY <1>8, <1>11 DEF Unchanged, Fields
<1>13. f = IF u # last THEN FlushPendingPoints(s) ELSE s
  BY DEF Flushed
<1> HIDE DEF more, r, f, p, q, made, u, last
<1>14. ASSUME LinesInOrder(more) PROVE PointsInOrder(more, r)
  <2> DEFINE again == \E j \in Accepted(ls) : ls[j].time = u
  <2>1. LinesInOrder(ls) /\ PointsInOrder(ls, s)
    BY <1>1, <1>2, <1>14
  <2>2. /\ \A j \in Accepted(ls) : ls[j].time <= u
        /\ ~line.change \/ ~again => IsActive(more, u, n + 1)
        /\ line.change /\ again => \A i : IsActive(ls, u, i) => IsActive(more, u, i)
    BY <1>14, ActiveIsNext DEF more, u
  <2>3. ASSUME NEW kind \in Worthy
        PROVE  /\ kind \in Kinds /\ s.points[kind] \in Seq(PointsOf(kind))
               /\ s.pending[kind] \in PointsOf(kind) \cup {None}
    BY <1>2, WorthyKinds DEF IsState
  <2>4. again <=> Accepted(ls) # {} /\ u = last
    <3>1. again => Accepted(ls) # {}
      OBVIOUS
    <3>2. ASSUME Accepted(ls) # {} PROVE again <=> u = last
      <4>1. /\ \A i \in Accepted(ls) : ls[i].time <= last
            /\ \E i \in Accepted(ls) : ls[i].time = last
        BY <2>1, <3>2 DEF PointsInOrder, last
      <4> QED BY <1>2, <1>3, <1>6, <2>2, <4>1 DEF last, u
    <3> QED BY <3>1, <3>2
  <2>5. /\ Accepted(more) # {}
        /\ \A i \in Accepted(more) : more[i].time <= r.pending_time
        /\ \E i \in Accepted(more) : more[i].time = r.pending_time
    BY <1>1, <1>3, <1>6, <1>8, <2>2 DEF u
  (* What the lists tell, and where their points are.                      *)
  <2>6. ASSUME NEW kind \in Kinds PROVE AllBefore(f.points[kind], u)
    <3>1. CASE Accepted(ls) = {}
      <4>1. s.points[kind] = <<>> /\ s.pending[kind] = None
        BY <2>1, <3>1 DEF PointsInOrder
      <4>2. f.points[kind] = <<>>
        BY <1>2, <1>13, <4>1, PendingIsFlushed DEF Taken, ListsGrow
      <4> QED BY <4>2 DEF AllBefore
    <3>2. CASE Accepted(ls) # {} /\ u = last
      BY <1>13, <2>1, <3>2 DEF PointsInOrder, last
    <3>3. CASE Accepted(ls) # {} /\ u # last
      <4>1. last < u
        <5>1. PICK j \in Accepted(ls) : ls[j].time = last
          BY <2>1, <3>3 DEF PointsInOrder, last
        <5> QED BY <1>2, <1>3, <2>2, <3>3, <5>1 DEF u, last
      <4>2. /\ f.points[kind] = Taken(kind, s.points[kind], s.pending[kind])
            /\ s.points[kind] \in Seq(PointsOf(kind)) /\ Grows(s.points[kind])
            /\ s.pending[kind] \in PointsOf(kind) \cup {None}
        BY <1>2, <1>13, <3>3, PendingIsFlushed DEF ListsGrow, IsState
      <4>3. AllBefore(s.points[kind], last)
        BY <2>1, <3>3 DEF PointsInOrder, last
      <4>4. s.pending[kind] # None => s.pending[kind].time = last
        BY DEF PointsInv, PendingAtTime, last
      <4> QED BY <1>2, <1>3, <4>1, <4>2, <4>3, <4>4, TakenStaysBefore DEF u, last
    <3> QED BY <3>1, <3>2, <3>3
  <2>7. ASSUME NEW kind \in Worthy PROVE TellBefore(more, f.points[kind], kind, u)
    <3> SUFFICES ASSUME NEW t \in Int, NEW i \in Nat, t < u, IsActive(more, t, i)
                 PROVE  Worth(kind, PointAt(kind, f.points[kind], t)) = InForce(more, kind, i)
      BY DEF TellBefore
    <3>1. IsActive(ls, t, i) /\ i \in 0 .. n
      BY <1>7, ActiveIsALine
    <3>2. InForce(more, kind, i) = InForce(ls, kind, i)
      BY <1>5, <3>1
    <3>3. CASE u # last
      <4>1. f.points[kind] = FlushPendingPoints(s).points[kind]
        BY <1>13, <3>3
      <4> QED BY <2>1, <3>1, <3>2, <4>1, FlushedListsTell
    <3>4. CASE u = last
      <4>1. f.points[kind] = s.points[kind]
        BY <1>13, <3>4
      <4>2. CASE Accepted(ls) # {}
        <5>1. TellBefore(ls, s.points[kind], kind, last)
          BY <2>1, <4>2 DEF PointsInOrder, last
        <5> QED BY <3>1, <3>2, <3>4, <4>1, <5>1 DEF TellBefore
      <4>3. CASE Accepted(ls) = {}
        <5>1. /\ FlushPendingPoints(s).points[kind] = Taken(kind, s.points[kind], s.pending[kind])
              /\ s.pending[kind] = None
          BY <1>2, <2>1, <2>3, <4>3, PendingIsFlushed DEF ListsGrow, PointsInOrder
        <5>2. FlushPendingPoints(s).points[kind] = s.points[kind]
          BY <5>1 DEF Taken
        <5> QED BY <2>1, <3>1, <3>2, <4>1, <5>2, FlushedListsTell
      <4> QED BY <4>2, <4>3
    <3> QED BY <3>3, <3>4
  <2>8. ASSUME NEW kind \in Worthy
        PROVE  \E a \in Accepted(more) : IsActive(more, u, a) /\ r.pending[kind] = PointOfLine(more, kind, a)
    <3>1. n + 1 \in Accepted(more)
      BY <1>1
    <3>2. CASE ~again
      <4>1. f.pending[kind] = None
        <5>1. CASE Accepted(ls) = {}
          BY <1>2, <1>13, <2>1, <2>3, <5>1, PendingIsFlushed DEF ListsGrow, PointsInOrder
        <5>2. CASE u # last
          BY <1>2, <1>13, <2>3, <5>2, PendingIsFlushed DEF ListsGrow
        <5> QED BY <2>4, <3>2, <5>1, <5>2
      <4>2. r.pending[kind] = made(kind)
        BY <1>9, <4>1 DEF Push
      <4> QED BY <2>2, <3>1, <3>2, <4>2 DEF made
    <3>3. CASE again /\ ~line.change
      <4>1. r.pending[kind] = made(kind)
        BY <1>9, <3>3 DEF Push
      <4> QED BY <2>2, <3>1, <3>3, <4>1 DEF made
    <3>4. CASE again /\ line.change
      <4>1. f = s
        BY <1>13, <2>4, <3>4
      <4>2. PICK a \in Accepted(ls) : IsActive(ls, u, a) /\ s.pending[kind] = PointOfLine(ls, kind, a)
        BY <2>1, <2>4, <3>4 DEF PointsInOrder, last
      <4>3. s.pending[kind] # None
        BY <2>3, <4>2, PointIsOfLine, NoneAssumption
      <4>4. r.pending[kind] = s.pending[kind]
        BY <1>9, <3>4, <4>1, <4>3 DEF Push
      <4>5. IsActive(more, u, a) /\ a \in Accepted(more) /\ a \in 1 .. n
        BY <1>1, <1>6, <2>2, <3>4, <4>2
      <4> QED BY <1>5, <4>2, <4>4, <4>5
    <3> QED BY <1>3, <3>2, <3>3, <3>4
  <2> QED BY <1>8, <1>10, <2>5, <2>6, <2>7, <2>8 DEF PointsInOrder
<1>15. (n + 1) + 1 = n + 2
  BY <1>1
<1>16. PendingAtTime(r)
  <2>1. ASSUME NEW kind \in Kinds, f.pending[kind] # None PROVE f.pending[kind].time = u
    <3>1. u = last
      BY <1>2, <1>13, <2>1, PendingIsFlushed DEF ListsGrow
    <3> QED BY <1>13, <2>1, <3>1 DEF PointsInv, PendingAtTime, last
  <2>2. ASSUME NEW kind \in Worthy, r.pending[kind] # None PROVE r.pending[kind].time = u
    <3>1. made(kind).time = u
      <4>1. more \in Seq(Lines) /\ n + 1 \in Accepted(more)
        BY <1>1 DEF more
      <4> QED BY <1>1, <4>1, PointIsOfLine DEF made, u
    <3> QED BY <1>9, <2>1, <2>2, <3>1, WorthyKinds DEF Push
  <2>3. ASSUME r.pending["timing"] # None PROVE r.pending["timing"].time = u
    <3>1. r.pending["timing"] = IF line.change THEN Push(f.pending["timing"], NewTimingPoint(u, line.beat), TRUE)
                                ELSE f.pending["timing"]
      BY <1>2, <1>3, TimingIsParsed DEF r, f, u
    <3>2. NewTimingPoint(u, line.beat).time = u
      BY DEF NewTimingPoint
    <3> QED BY <2>1, <2>3, <3>1, <3>2 DEF Push, Kinds
  <2> QED BY <1>8, <2>2, <2>3 DEF PendingAtTime, Kinds, Worthy
<1> QED BY <1>1, <1>4, <1>8, <1>12, <1>14, <1>15, <1>16 DEF PointsInv, more, r

(***************************************************************************)
(* Timing changes                                                          *)
(***************************************************************************)

(* The first timing change of each time.                                   *)
Firsts(ls) ==
  {i \in Accepted(ls) :
     ls[i].change /\ \A j \in Accepted(ls) : ls[j].change /\ ls[j].time = ls[i].time => i <= j}

(* The timing points, with the pending one.                                *)
AllTimingPoints(s) == Taken("timing", s.points["timing"], s.pending["timing"])

ChangesInOrder(ls, s) ==
  /\ Len(AllTimingPoints(s)) = Cardinality(Firsts(ls))
  /\ \A i \in Firsts(ls) : \E k \in 1 .. Len(AllTimingPoints(s)) :
       AllTimingPoints(s)[k] = NewTimingPoint(ls[i].time, ls[i].beat)
  /\ s.pending["timing"] # None <=>
       \E i \in Accepted(ls) : ls[i].change /\ ls[i].time = s.pending_time

LEMMA FirstsOfAppended ==
  ASSUME NEW ls \in Seq(Lines), NEW line \in Lines
  PROVE  LET n == Len(ls)
             more == Append(ls, line)
             new == /\ IsAccepted(line) /\ line.change
                    /\ \A j \in Accepted(ls) : ls[j].change => ls[j].time # line.time
         IN  /\ Firsts(more) = Firsts(ls) \cup (IF new THEN {n + 1} ELSE {})
             /\ Firsts(ls) \in SUBSET (1 .. n) /\ IsFiniteSet(Firsts(ls))
             /\ Cardinality(Firsts(more)) = Cardinality(Firsts(ls)) + (IF new THEN 1 ELSE 0)
<1> DEFINE n == Len(ls)
           more == Append(ls, line)
           new == /\ IsAccepted(line) /\ line.change
                  /\ \A j \in Accepted(ls) : ls[j].change => ls[j].time # line.time
<1>1. /\ n \in Nat /\ more[n + 1] = line /\ \A j \in 1 .. n : more[j] = ls[j]
      /\ n + 1 \in Accepted(more) <=> IsAccepted(line)
      /\ \A j \in 1 .. n : j \in Accepted(more) <=> j \in Accepted(ls)
      /\ more \in Seq(Lines) /\ Len(more) = n + 1
  BY AppendedLines
<1>2. \A j \in Accepted(ls) : j \in 1 .. n
  BY AcceptedLines
<1>3. \A j \in Accepted(more) : j \in 1 .. n \/ j = n + 1
  <2>1. \A j \in Accepted(more) : j \in 1 .. n + 1
    BY <1>1, AcceptedLines
  <2> HIDE DEF more
  <2> QED BY <1>1, <2>1
<1> HIDE DEF more
<1>4. ASSUME NEW i \in 1 .. n PROVE i \in Firsts(more) <=> i \in Firsts(ls)
  <2>1. i <= n + 1
    BY <1>1
  <2> QED BY <1>1, <1>2, <1>3, <2>1 DEF Firsts
<1>5. n + 1 \in Firsts(more) <=> new
  <2>1. \A j \in 1 .. n : ~(n + 1 <= j)
    BY <1>1
  <2>2. n + 1 <= n + 1
    BY <1>1
  <2> QED BY <1>1, <1>2, <1>3, <2>1, <2>2 DEF Firsts
<1>6. Firsts(ls) \in SUBSET (1 .. n) /\ \A i \in Firsts(more) : i \in 1 .. n \/ i = n + 1
  BY <1>2, <1>3 DEF Firsts
<1>7. Firsts(more) = Firsts(ls) \cup (IF new THEN {n + 1} ELSE {})
  <2> HIDE DEF new
  <2> QED BY <1>4, <1>5, <1>6
<1>8. IsFiniteSet(Firsts(ls))
  <2>1. IsFiniteSet(1 .. n)
    BY <1>1, FS_Interval
  <2> QED BY <1>6, <2>1, FS_Subset
<1>9. Cardinality(Firsts(more)) = Cardinality(Firsts(ls)) + (IF new THEN 1 ELSE 0)
  <2>1. Cardinality(Firsts(ls)) \in Nat
    BY <1>8, FS_CardinalityType
  <2>2. CASE ~new
    <3>1. Firsts(more) = Firsts(ls)
      BY <1>7, <2>2
    <3> QED BY <2>1, <2>2, <3>1
  <2>3. CASE new
    <3>1. n + 1 \notin Firsts(ls)
      BY <1>1, <1>6
    <3>2. Firsts(more) = Firsts(ls) \cup {n + 1}
      BY <1>7, <2>3
    <3> QED BY <1>8, <2>3, <3>1, <3>2, FS_AddElement
  <2> HIDE DEF new
  <2> QED BY <2>2, <2>3
<1> HIDE DEF new
<1> QED BY <1>6, <1>7, <1>8, <1>9 DEF more, new

LEMMA OtherLinesKeepChanges ==
  ASSUME NEW ls \in Seq(Lines), NEW line \in Lines, ~IsAccepted(line),
         NEW s, ChangesInOrder(ls, s), NEW r,
         r.points = s.points, r.pending = s.pending, r.pending_time = s.pending_time
  PROVE  ChangesInOrder(Append(ls, line), r)
<1> DEFINE n == Len(ls)
           more == Append(ls, line)
<1>1. /\ Firsts(more) = Firsts(ls) /\ Firsts(ls) \in SUBSET (1 .. n)
      /\ Cardinality(Firsts(more)) = Cardinality(Firsts(ls))
  BY FirstsOfAppended
<1>2. /\ Accepted(more) = Accepted(ls) /\ \A j \in 1 .. n : more[j] = ls[j]
  <2>1. Accepted(more) = Accepted(ls) \cup {}
    BY AppendedLines
  <2> QED BY <2>1, AppendedLines
<1>3. \A j \in Accepted(ls) : j \in 1 .. n
  BY AcceptedLines
<1> HIDE DEF more
<1>4. AllTimingPoints(r) = AllTimingPoints(s)
  BY DEF AllTimingPoints
<1>5. \A i \in Firsts(more) : more[i] = ls[i]
  BY <1>1, <1>2
<1>6. \A i \in Accepted(more) : more[i] = ls[i]
  BY <1>2, <1>3
<1> QED BY <1>1, <1>2, <1>4, <1>5, <1>6 DEF ChangesInOrder, more

LEMMA TimingLinesKeepChanges ==
  ASSUME NEW ls \in Seq(Lines), NEW line \in TimingPointLines, line \in Lines, IsAccepted(line),
         NEW s, PointsInv(ls, s), LinesInOrder(Append(ls, line)), ChangesInOrder(ls, s)
  PROVE  ChangesInOrder(Append(ls, line), ParseTimingPoints(s, line))
<1> DEFINE n == Len(ls)
           more == Append(ls, line)
           r == ParseTimingPoints(s, line)
           u == line.time
           f == Flushed(s, u)
           point == NewTimingPoint(u, line.beat)
           last == s.pending_time
           all == AllTimingPoints(s)
           new == line.change /\ \A j \in Accepted(ls) : ls[j].change => ls[j].time # u
<1>1. /\ n \in Nat /\ Accepted(more) = Accepted(ls) \cup {n + 1} /\ LinesInOrder(ls)
      /\ more[n + 1] = line /\ \A j \in 1 .. n : more[j] = ls[j]
  BY AppendedLines
<1>2. IsState(s) /\ ListsGrow(s) /\ last \in Int /\ PointsInOrder(ls, s)
  BY <1>1 DEF PointsInv, IsState
<1>3. u \in Int /\ line.change \in BOOLEAN /\ ~TimingLineFails(line) /\ (line.change => line.beat \in Int)
  BY DEF TimingPointLines, IsAccepted, TimingLineFails
<1>4. \A j \in Accepted(ls) : j \in 1 .. n /\ ls[j].time \in Int /\ ls[j].time <= u
  BY AcceptedLines, ActiveIsNext
<1>5. /\ IsState(r) /\ ListsGrow(r) /\ r.pending_time = u
      /\ Unchanged(f, r, Fields \ {"pending", "pending_time"})
      /\ r.pending["timing"] = IF line.change THEN Push(f.pending["timing"], point, TRUE) ELSE f.pending["timing"]
  BY <1>2, <1>3, TimingIsParsed
<1>6. r.points = f.points
  BY <1>5 DEF Unchanged, Fields
<1>7. f = IF u # last THEN FlushPendingPoints(s) ELSE s
  BY DEF Flushed
<1>8. "timing" \in Kinds
  BY DEF Kinds
<1>9. /\ FlushPendingPoints(s).points["timing"] = all
      /\ FlushPendingPoints(s).pending["timing"] = None
  BY <1>2, <1>8, PendingIsFlushed DEF AllTimingPoints, ListsGrow
<1>10. AllBefore(r.points["timing"], u)
  <2>1. PointsInOrder(more, r)
    BY TimingLinesKeepPoints DEF PointsInv
  <2>2. Accepted(more) # {}
    BY <1>1
  <2> QED BY <1>5, <1>8, <2>1, <2>2 DEF PointsInOrder
<1>11. /\ Firsts(more) = Firsts(ls) \cup (IF new THEN {n + 1} ELSE {}) /\ Firsts(ls) \in SUBSET (1 .. n)
       /\ Cardinality(Firsts(more)) = Cardinality(Firsts(ls)) + (IF new THEN 1 ELSE 0)
       /\ Cardinality(Firsts(ls)) \in Nat
  <2>1. Cardinality(Firsts(ls)) \in Nat
    BY FirstsOfAppended, FS_CardinalityType
  <2> QED BY <2>1, FirstsOfAppended
<1>12. u # last => \A j \in Accepted(ls) : ls[j].time # u
  <2> SUFFICES ASSUME u # last, NEW j \in Accepted(ls), ls[j].time = u PROVE FALSE
    OBVIOUS
  <2>1. PICK k \in Accepted(ls) : ls[k].time = last
    BY <1>2 DEF PointsInOrder
  <2>2. ls[j].time <= last /\ ls[k].time <= u
    BY <1>2, <1>4 DEF PointsInOrder
  <2> HIDE DEF u, last
  <2> QED BY <1>2, <1>3, <2>1, <2>2 DEF u
<1> HIDE DEF more, r, f, u, last, point
<1>13. f.pending["timing"] # None <=> \E j \in Accepted(ls) : ls[j].change /\ ls[j].time = u
  <2>1. CASE u = last
    BY <1>7, <2>1 DEF ChangesInOrder, last
  <2>2. CASE u # last
    BY <1>7, <1>9, <1>12, <2>2
  <2> QED BY <2>1, <2>2
<1>14. /\ f.pending["timing"] = None => r.points["timing"] = all
       /\ f.pending["timing"] # None =>
            r.points["timing"] = s.points["timing"] /\ f.pending["timing"] = s.pending["timing"]
  <2>1. CASE u = last
    BY <1>6, <1>7, <2>1 DEF AllTimingPoints, Taken
  <2>2. CASE u # last
    BY <1>6, <1>7, <1>9, <2>2
  <2> QED BY <2>1, <2>2
<1>15. new <=> line.change /\ f.pending["timing"] = None
  BY <1>13
<1>16. /\ all \in Seq(PointsOf("timing")) /\ Len(all) = Cardinality(Firsts(ls))
       /\ \A i \in Firsts(ls) : \E k \in 1 .. Len(all) : all[k] = NewTimingPoint(ls[i].time, ls[i].beat)
  <2>1. all \in Seq(PointsOf("timing"))
    <3>1. IsState(FlushPendingPoints(s))
      BY <1>2, PendingIsFlushed DEF ListsGrow
    <3>2. FlushPendingPoints(s).points["timing"] \in Seq(PointsOf("timing"))
      BY <1>8, <3>1 DEF IsState
    <3> QED BY <1>9, <3>2
  <2> QED BY <2>1 DEF ChangesInOrder
<1> HIDE DEF new, all
<1>17. CASE ~new
  <2>1. r.pending["timing"] = f.pending["timing"]
    BY <1>3, <1>5, <1>15, <1>17 DEF Push
  <2>2. AllTimingPoints(r) = all
    <3>1. CASE f.pending["timing"] = None
      BY <1>14, <2>1, <3>1 DEF AllTimingPoints, Taken
    <3>2. CASE f.pending["timing"] # None
      BY <1>14, <2>1, <3>2 DEF AllTimingPoints, all
    <3> QED BY <3>1, <3>2
  <2>3. Firsts(more) = Firsts(ls) /\ Cardinality(Firsts(more)) = Cardinality(Firsts(ls))
    BY <1>11, <1>17
  <2>4. \A i \in Firsts(more) : more[i] = ls[i]
    BY <1>1, <1>11, <2>3 DEF more
  <2>5. r.pending["timing"] # None <=>
          \E i \in Accepted(more) : more[i].change /\ more[i].time = r.pending_time
    <3>1. \A j \in Accepted(ls) : j \in Accepted(more) /\ more[j] = ls[j]
      BY <1>1, <1>4 DEF more
    <3>2. more[n + 1].change => f.pending["timing"] # None
      BY <1>1, <1>15, <1>17 DEF more
    <3>3. \A j \in Accepted(more) : j \in Accepted(ls) \/ j = n + 1
      BY <1>1 DEF more
    <3> QED BY <1>5, <1>13, <2>1, <3>1, <3>2, <3>3
  <2> QED BY <1>16, <2>2, <2>3, <2>4, <2>5 DEF ChangesInOrder, more, r
<1>18. CASE new
  <2>1. /\ r.pending["timing"] = point /\ r.points["timing"] = all /\ line.change
    BY <1>5, <1>14, <1>15, <1>18 DEF Push
  <2>2. point \in PointsOf("timing") /\ point.time = u
    <3>1. point.time = u
      BY DEF point, NewTimingPoint
    <3> QED BY <1>3, <2>1, <3>1, PointsAreMade DEF point
  <2>3. point # None
    BY <1>8, <2>2, NoneAssumption
  <2>4. AllTimingPoints(r) = Append(all, point)
    <3>1. ~CheckAlreadyExisting("timing", all, point)
      BY DEF CheckAlreadyExisting
    <3>2. Add(all, point) = Append(all, point)
      <4>1. Grows(all)
        BY <1>5, <1>8, <2>1 DEF ListsGrow
      <4>2. \A i \in 1 .. Len(all) : all[i].time < point.time
        BY <1>10, <2>1, <2>2 DEF AllBefore
      <4> QED BY <1>8, <1>16, <2>2, <4>1, <4>2, AddedIsFound
    <3> QED BY <2>1, <2>3, <3>1, <3>2 DEF AllTimingPoints, Taken
  <2>5. /\ Len(AllTimingPoints(r)) = Len(all) + 1 /\ AllTimingPoints(r)[Len(all) + 1] = point
        /\ \A k \in 1 .. Len(all) : AllTimingPoints(r)[k] = all[k]
        /\ Len(all) \in Nat
    BY <1>16, <2>2, <2>4
  <2>6. Firsts(more) = Firsts(ls) \cup {n + 1} /\ Cardinality(Firsts(more)) = Cardinality(Firsts(ls)) + 1
    BY <1>11, <1>18
  <2>7. ASSUME NEW i \in Firsts(more)
        PROVE  \E k \in 1 .. Len(AllTimingPoints(r)) :
                 AllTimingPoints(r)[k] = NewTimingPoint(more[i].time, more[i].beat)
    <3>1. CASE i = n + 1
      <4>1. more[i].time = u /\ more[i].beat = line.beat
        BY <1>1, <3>1 DEF more, u
      <4> QED BY <2>5, <4>1 DEF point
    <3>2. CASE i # n + 1
      <4>1. i \in Firsts(ls) /\ more[i] = ls[i]
        BY <1>1, <1>11, <2>6, <3>2 DEF more
      <4>2. PICK k \in 1 .. Len(all) : all[k] = NewTimingPoint(ls[i].time, ls[i].beat)
        BY <1>16, <4>1
      <4> QED BY <2>5, <4>1, <4>2
    <3> QED BY <3>1, <3>2
  <2>8. \E i \in Accepted(more) : more[i].change /\ more[i].time = r.pending_time
    BY <1>1, <1>5, <2>1 DEF more, u
  <2> QED BY <1>16, <2>1, <2>3, <2>5, <2>6, <2>7, <2>8 DEF ChangesInOrder, more, r
<1> QED BY <1>17, <1>18

(***************************************************************************)
(* The approach rate                                                       *)
(***************************************************************************)
Keyed(ls, key) == {i \in DOMAIN ls : ls[i].section = "Difficulty" /\ ls[i].key = key}

(* The last value the file has for the approach rate, without one for the  *)
(* overall difficulty.                                                     *)
ApproachRateOf(ls) ==
  LET source == IF Keyed(ls, "ar") # {} THEN Keyed(ls, "ar") ELSE Keyed(ls, "od")
  IN  IF source = {} THEN 50 ELSE ls[Max(source)].value

ApproachRateInv(ls, s) ==
  /\ s.has_approach_rate <=> Keyed(ls, "ar") # {}
  /\ s.difficulty.ar = ApproachRateOf(ls)

LEMMA KeyedOfAppended ==
  ASSUME NEW ls \in Seq(Lines), NEW line \in Lines, NEW key
  PROVE  LET n == Len(ls)
             more == Append(ls, line)
             named == line.section = "Difficulty" /\ line.key = key
         IN  /\ Keyed(more, key) = Keyed(ls, key) \cup (IF named THEN {n + 1} ELSE {})
             /\ Keyed(ls, key) \in SUBSET (1 .. n) /\ n \in Nat
             /\ Keyed(ls, key) # {} => /\ Max(Keyed(ls, key)) \in 1 .. n
                                       /\ more[Max(Keyed(ls, key))] = ls[Max(Keyed(ls, key))]
             /\ named => Max(Keyed(more, key)) = n + 1 /\ more[n + 1] = line
<1> DEFINE n == Len(ls)
           more == Append(ls, line)
           named == line.section = "Difficulty" /\ line.key = key
           K == Keyed(ls, key)
<1>1. /\ n \in Nat /\ more[n + 1] = line /\ \A j \in 1 .. n : more[j] = ls[j]
      /\ DOMAIN ls = 1 .. n /\ DOMAIN more = 1 .. n + 1
  OBVIOUS
<1>2. \A j : j \in 1 .. n + 1 <=> j \in 1 .. n \/ j = n + 1
  BY <1>1
<1> HIDE DEF more, n
<1>3. Keyed(more, key) = K \cup (IF named THEN {n + 1} ELSE {})
  BY <1>1, <1>2 DEF Keyed
<1>4. K \in SUBSET (1 .. n)
  BY <1>1 DEF Keyed
<1> HIDE DEF K
<1>5. K # {} => Max(K) \in 1 .. n /\ more[Max(K)] = ls[Max(K)]
  BY <1>1, <1>4, BoundsAreReached
<1>6. named => Max(Keyed(more, key)) = n + 1
  <2> SUFFICES ASSUME named PROVE Max(Keyed(more, key)) = n + 1
    OBVIOUS
  <2>1. Keyed(more, key) = K \cup {n + 1}
    BY <1>3
  <2>2. Keyed(more, key) \in SUBSET Nat /\ n + 1 \in Keyed(more, key)
    BY <1>1, <1>4, <2>1
  <2>3. ASSUME NEW i \in Keyed(more, key) PROVE i <= n + 1
    <3>1. i \in 1 .. n \/ i = n + 1
      BY <1>4, <2>1, <2>3
    <3> QED BY <1>1, <3>1
  <2> QED BY <2>2, <2>3, GreatestIsMax
<1> HIDE DEF named
<1> QED BY <1>1, <1>3, <1>4, <1>5, <1>6 DEF K, more, n, named

LEMMA DifficultyLinesKeepApproachRate ==
  ASSUME NEW ls \in Seq(Lines), NEW line \in DifficultyLines, line \in Lines,
         NEW s, IsState(s), ApproachRateInv(ls, s)
  PROVE  ApproachRateInv(Append(ls, line), ParseDifficulty(s, line))
<1> DEFINE n == Len(ls)
           more == Append(ls, line)
           r == ParseDifficulty(s, line)
<1>1. line.section = "Difficulty"
  BY DEF DifficultyLines
<1>2. /\ Keyed(more, "ar") = Keyed(ls, "ar") \cup (IF line.key = "ar" THEN {n + 1} ELSE {})
      /\ Keyed(ls, "ar") # {} => more[Max(Keyed(ls, "ar"))] = ls[Max(Keyed(ls, "ar"))]
      /\ line.key = "ar" => more[Max(Keyed(more, "ar"))] = line
  BY <1>1, KeyedOfAppended
<1>3. /\ Keyed(more, "od") = Keyed(ls, "od") \cup (IF line.key = "od" THEN {n + 1} ELSE {})
      /\ Keyed(ls, "od") # {} => more[Max(Keyed(ls, "od"))] = ls[Max(Keyed(ls, "od"))]
      /\ line.key = "od" => more[Max(Keyed(more, "od"))] = line
  BY <1>1, KeyedOfAppended
<1>4. /\ r.has_approach_rate <=> s.has_approach_rate \/ line.key = "ar"
      /\ r.difficulty.ar = IF line.key = "ar" \/ (line.key = "od" /\ ~s.has_approach_rate)
                           THEN line.value ELSE s.difficulty.ar
  BY DifficultyIsParsed
<1> HIDE DEF more, r
<1>5. r.has_approach_rate <=> Keyed(more, "ar") # {}
  BY <1>2, <1>4 DEF ApproachRateInv
<1>6. r.difficulty.ar = ApproachRateOf(more)
  <2>1. CASE line.key = "ar"
    BY <1>2, <1>4, <2>1 DEF ApproachRateOf
  <2>2. CASE line.key # "ar" /\ Keyed(ls, "ar") # {}
    BY <1>2, <1>4, <2>2 DEF ApproachRateOf, ApproachRateInv
  <2>3. CASE line.key = "od" /\ Keyed(ls, "ar") = {}
    BY <1>2, <1>3, <1>4, <2>3 DEF ApproachRateOf, ApproachRateInv
  <2>4. CASE line.key \notin {"ar", "od"} /\ Keyed(ls, "ar") = {}
    BY <1>2, <1>3, <1>4, <2>4 DEF ApproachRateOf, ApproachRateInv
  <2> QED BY <2>1, <2>2, <2>3, <2>4
<1> QED BY <1>5, <1>6 DEF ApproachRateInv, more, r

LEMMA OtherLinesKeepApproachRate ==
  ASSUME NEW ls \in Seq(Lines), NEW line \in Lines, line.section # "Difficulty",
         NEW s, ApproachRateInv(ls, s),
         NEW r, r.has_approach_rate = s.has_approach_rate, r.difficulty = s.difficulty
  PROVE  ApproachRateInv(Append(ls, line), r)
<1> DEFINE more == Append(ls, line)
<1>1. /\ Keyed(more, "ar") = Keyed(ls, "ar")
      /\ Keyed(ls, "ar") # {} => more[Max(Keyed(ls, "ar"))] = ls[Max(Keyed(ls, "ar"))]
  <2>1. Keyed(more, "ar") = Keyed(ls, "ar") \cup
          (IF line.section = "Difficulty" /\ line.key = "ar" THEN {Len(ls) + 1} ELSE {})
    BY KeyedOfAppended
  <2>2. Keyed(ls, "ar") # {} => more[Max(Keyed(ls, "ar"))] = ls[Max(Keyed(ls, "ar"))]
    BY KeyedOfAppended
  <2> HIDE DEF more
  <2> QED BY <2>1, <2>2
<1>2. /\ Keyed(more, "od") = Keyed(ls, "od")
      /\ Keyed(ls, "od") # {} => more[Max(Keyed(ls, "od"))] = ls[Max(Keyed(ls, "od"))]
  <2>1. Keyed(more, "od") = Keyed(ls, "od") \cup
          (IF line.section = "Difficulty" /\ line.key = "od" THEN {Len(ls) + 1} ELSE {})
    BY KeyedOfAppended
  <2>2. Keyed(ls, "od") # {} => more[Max(Keyed(ls, "od"))] = ls[Max(Keyed(ls, "od"))]
    BY KeyedOfAppended
  <2> HIDE DEF more
  <2> QED BY <2>1, <2>2
<1> HIDE DEF more
<1>3. ApproachRateOf(more) = ApproachRateOf(ls)
  BY <1>1, <1>2 DEF ApproachRateOf
<1> QED BY <1>1, <1>3 DEF ApproachRateInv, more

(***************************************************************************)
(* The hit objects and their sounds                                        *)
(***************************************************************************)
IsSequence(q) == \E S : q \in Seq(S)

(* What is known of an object and its sound, read from a file's lines.     *)
IsReadFrom(ls, object, sound) ==
  /\ object.line \in 1 .. Len(ls)
  /\ ls[object.line] \in HitObjectLines
  /\ object.start_time = ls[object.line].time
  /\ sound = SoundOf(ls[object.line])

ObjectsInv(ls, s) ==
  /\ IsSequence(s.hit_objects) /\ s.hit_sounds \in Seq(SUBSET Sounds)
  /\ Len(s.hit_sounds) = Len(s.hit_objects)
  /\ Len(s.hit_objects) <= Len(ls)
  /\ \A k \in 1 .. Len(s.hit_objects) : IsReadFrom(ls, s.hit_objects[k], s.hit_sounds[k])
  /\ \A j, k \in 1 .. Len(s.hit_objects) : j < k => s.hit_objects[j].line < s.hit_objects[k].line

(* An object of the line is pushed, or nothing.                            *)
IsPushed(s, r, line, number) ==
  \/ r.hit_objects = s.hit_objects /\ r.hit_sounds = s.hit_sounds
  \/ \E object : /\ object.line = number /\ object.start_time = line.time
                 /\ r.hit_objects = Append(s.hit_objects, object)
                 /\ r.hit_sounds = Append(s.hit_sounds, SoundOf(line))

LEMMA ObjectIsPushed ==
  ASSUME NEW s, IsState(s), NEW line, NEW kind, NEW curve
  PROVE  LET a == [s EXCEPT !.curve_points = curve]
             r == PushHitObject(a, line, kind)
             others == Fields \ {"hit_objects", "hit_sounds", "curve_points"}
         IN  /\ IsState(a) /\ Unchanged(s, a, others) /\ IsPushed(s, a, line, Len(lines) + 1)
             /\ IsState(r) /\ Unchanged(s, r, others) /\ IsPushed(s, r, line, Len(lines) + 1)
<1> DEFINE a == [s EXCEPT !.curve_points = curve]
           object == [line |-> Len(lines) + 1, start_time |-> line.time, kind |-> kind]
           b == [a EXCEPT !.hit_objects = Append(a.hit_objects, object)]
           r == [b EXCEPT !.hit_sounds = Append(b.hit_sounds, SoundOf(line))]
           others == Fields \ {"hit_objects", "hit_sounds", "curve_points"}
<1>1. PushHitObject(a, line, kind) = r
  BY DEF PushHitObject
<1>2. /\ IsState(a) /\ Unchanged(s, a, others)
      /\ a.hit_objects = s.hit_objects /\ a.hit_sounds = s.hit_sounds
  BY DEF IsState, Fields, Unchanged
<1> HIDE DEF a
<1>3. object.line = Len(lines) + 1 /\ object.start_time = line.time
  OBVIOUS
<1> HIDE DEF object
<1>4. /\ IsState(b) /\ Unchanged(a, b, others)
      /\ b.hit_objects = Append(s.hit_objects, object) /\ b.hit_sounds = s.hit_sounds
  BY <1>2 DEF IsState, Fields, Unchanged
<1> HIDE DEF b
<1>5. /\ IsState(r) /\ Unchanged(b, r, others)
      /\ r.hit_objects = b.hit_objects /\ r.hit_sounds = Append(s.hit_sounds, SoundOf(line))
  BY <1>4 DEF IsState, Fields, Unchanged
<1> HIDE DEF r
<1>6. Unchanged(s, r, others)
  BY <1>2, <1>4, <1>5 DEF Unchanged
<1>7. IsPushed(s, a, line, Len(lines) + 1) /\ IsPushed(s, r, line, Len(lines) + 1)
  BY <1>2, <1>3, <1>4, <1>5 DEF IsPushed
<1> QED BY <1>1, <1>2, <1>5, <1>6, <1>7 DEF a

LEMMA HitObjectIsParsed ==
  ASSUME NEW s, IsState(s), NEW line \in HitObjectLines
  PROVE  LET r == ParseHitObjects(s, line)
         IN  /\ IsState(r)
             /\ Unchanged(s, r, Fields \ {"hit_objects", "hit_sounds", "curve_points"})
             /\ IsPushed(s, r, line, Len(lines) + 1)
<1> DEFINE r == ParseHitObjects(s, line)
           Good(q) == /\ IsState(q)
                      /\ Unchanged(s, q, Fields \ {"hit_objects", "hit_sounds", "curve_points"})
                      /\ IsPushed(s, q, line, Len(lines) + 1)
<1>1. s = [s EXCEPT !.curve_points = s.curve_points]
  BY DEF IsState, Fields
<1>2. ASSUME NEW curve PROVE Good([s EXCEPT !.curve_points = curve])
  BY ObjectIsPushed
<1>3. ASSUME NEW curve, NEW kind PROVE Good(PushHitObject([s EXCEPT !.curve_points = curve], line, kind))
  BY ObjectIsPushed
<1>4. Good(s)
  <2>1. Good([s EXCEPT !.curve_points = s.curve_points])
    BY <1>2
  <2> HIDE DEF Good
  <2> QED BY <1>1, <2>1
<1>5. ASSUME NEW kind PROVE Good(PushHitObject(s, line, kind))
  <2>1. Good(PushHitObject([s EXCEPT !.curve_points = s.curve_points], line, kind))
    BY <1>3
  <2> HIDE DEF Good
  <2> QED BY <1>1, <2>1
<1> HIDE DEF Good
<1>6. line.kind \in {"circle", "slider", "spinner", "hold", "unknown"} /\ line.repeats \in Int
  BY DEF HitObjectLines
<1>7. Good(ParseSlider(s, line))
  <2> DEFINE path == ConvertPath(s.curve_points, line.path)
             repeats == Greatest(0, line.repeats - 1)
             slider == [type |-> "slider", repeats |-> repeats, control_points |-> path.curve,
                        node_sounds |-> NodeSounds(line, repeats)]
  <2>1. CASE line.repeats > MaxRepeats
    <3>1. ~(line.repeats <= MaxRepeats)
      BY <1>6, <2>1 DEF MaxRepeats
    <3>2. ParseSlider(s, line) = s
      BY <2>1, <3>1 DEF ParseSlider
    <3> QED BY <1>4, <3>2
  <2>2. CASE ~(line.repeats > MaxRepeats) /\ ~path.ok
    <3>1. line.repeats <= MaxRepeats
      BY <1>6, <2>2 DEF MaxRepeats
    <3>2. ParseSlider(s, line) = [s EXCEPT !.curve_points = path.curve]
      BY <2>2, <3>1 DEF ParseSlider
    <3> QED BY <1>2, <3>2
  <2>3. CASE ~(line.repeats > MaxRepeats) /\ path.ok
    <3>1. ParseSlider(s, line) = PushHitObject([s EXCEPT !.curve_points = <<>>], line, slider)
      BY <2>3 DEF ParseSlider
    <3> QED BY <1>3, <3>1
  <2> QED BY <2>1, <2>2, <2>3
<1>8. Good(r)
  <2>1. CASE line.kind = "circle"
    <3>1. r = PushHitObject(s, line, [type |-> "circle"])
      BY <2>1 DEF ParseHitObjects
    <3> QED BY <1>5, <3>1
  <2>2. CASE line.kind = "slider"
    <3>1. r = ParseSlider(s, line)
      BY <2>2 DEF ParseHitObjects
    <3> QED BY <1>7, <3>1
  <2>3. CASE line.kind \in {"spinner", "hold"}
    <3>1. r = PushHitObject(s, line, [type     |-> line.kind,
                                      duration |-> Greatest(line.end - line.time, 0)])
      BY <2>3 DEF ParseHitObjects
    <3> QED BY <1>5, <3>1
  <2>4. CASE line.kind = "unknown"
    <3>1. r = s
      BY <2>4 DEF ParseHitObjects
    <3> QED BY <1>4, <3>1
  <2> QED BY <1>6, <2>1, <2>2, <2>3, <2>4
<1> QED BY <1>8 DEF Good

LEMMA PushedObjectsAreRead ==
  ASSUME NEW ls \in Seq(Lines), NEW line \in Lines, NEW s, ObjectsInv(ls, s),
         NEW r, IsPushed(s, r, line, Len(ls) + 1),
         \/ line \in HitObjectLines
         \/ r.hit_objects = s.hit_objects /\ r.hit_sounds = s.hit_sounds
  PROVE  ObjectsInv(Append(ls, line), r)
<1> DEFINE n == Len(ls)
           more == Append(ls, line)
           m == Len(s.hit_objects)
<1>1. /\ n \in Nat /\ more[n + 1] = line /\ Len(more) = n + 1 /\ \A j \in 1 .. n : more[j] = ls[j]
      /\ \A j \in 1 .. n : j \in 1 .. n + 1
  OBVIOUS
<1>2. PICK S : s.hit_objects \in Seq(S)
  BY DEF ObjectsInv, IsSequence
<1>3. m \in Nat /\ m <= n /\ s.hit_sounds \in Seq(SUBSET Sounds) /\ Len(s.hit_sounds) = m
  BY <1>2 DEF ObjectsInv
<1>4. ASSUME NEW k \in 1 .. m
      PROVE  /\ IsReadFrom(more, s.hit_objects[k], s.hit_sounds[k])
             /\ s.hit_objects[k].line < n + 1
  <2>1. IsReadFrom(ls, s.hit_objects[k], s.hit_sounds[k])
    BY DEF ObjectsInv
  <2> HIDE DEF more
  <2>2. more[s.hit_objects[k].line] = ls[s.hit_objects[k].line]
    BY <1>1, <2>1 DEF IsReadFrom
  <2>3. s.hit_objects[k].line \in 1 .. Len(more) /\ s.hit_objects[k].line < n + 1
    BY <1>1, <2>1 DEF IsReadFrom
  <2> QED BY <2>1, <2>2, <2>3 DEF IsReadFrom
<1> HIDE DEF more
<1>5. CASE r.hit_objects = s.hit_objects /\ r.hit_sounds = s.hit_sounds
  BY <1>1, <1>2, <1>3, <1>4, <1>5 DEF ObjectsInv, IsSequence, more
<1>6. CASE ~(r.hit_objects = s.hit_objects /\ r.hit_sounds = s.hit_sounds)
  <2>1. line \in HitObjectLines
    BY <1>6
  <2>2. PICK object : /\ object.line = n + 1 /\ object.start_time = line.time
                      /\ r.hit_objects = Append(s.hit_objects, object)
                      /\ r.hit_sounds = Append(s.hit_sounds, SoundOf(line))
    BY <1>6 DEF IsPushed
  <2>3. SoundOf(line) \in SUBSET Sounds
    BY <2>1 DEF SoundOf, HitObjectLines
  <2>4. r.hit_sounds \in Seq(SUBSET Sounds) /\ Len(r.hit_sounds) = m + 1
        /\ r.hit_sounds[m + 1] = SoundOf(line) /\ \A k \in 1 .. m : r.hit_sounds[k] = s.hit_sounds[k]
    BY <1>3, <2>2, <2>3
  <2>5. s.hit_objects \in Seq(S \cup {object})
    BY <1>2
  <2>6. /\ r.hit_objects \in Seq(S \cup {object}) /\ Len(r.hit_objects) = m + 1
        /\ r.hit_objects[m + 1] = object /\ \A k \in 1 .. m : r.hit_objects[k] = s.hit_objects[k]
    BY <2>2, <2>5
  <2>7. IsReadFrom(more, object, SoundOf(line))
    BY <1>1, <2>1, <2>2 DEF IsReadFrom
  <2>8. \A k \in 1 .. m + 1 : k \in 1 .. m \/ k = m + 1
    BY <1>3
  <2>9. \A k \in 1 .. m + 1 : IsReadFrom(more, r.hit_objects[k], r.hit_sounds[k])
    BY <1>4, <2>4, <2>6, <2>7, <2>8
  <2>10. ASSUME NEW j \in 1 .. m + 1, NEW k \in 1 .. m + 1, j < k
         PROVE  r.hit_objects[j].line < r.hit_objects[k].line
    <3>1. j \in 1 .. m
      BY <1>3, <2>10
    <3>2. CASE k = m + 1
      BY <1>4, <2>2, <2>6, <3>1, <3>2
    <3>3. CASE k # m + 1
      <4>1. k \in 1 .. m /\ m = Len(s.hit_objects)
        BY <2>8, <3>3
      <4> HIDE DEF m
      <4> QED BY <2>6, <2>10, <3>1, <4>1 DEF ObjectsInv
    <3> QED BY <3>2, <3>3
  <2> HIDE DEF m
  <2>11. m + 1 <= n + 1
    BY <1>1, <1>3
  <2> QED BY <1>1, <2>4, <2>6, <2>9, <2>10, <2>11 DEF ObjectsInv, IsSequence, more
<1> QED BY <1>5, <1>6

(***************************************************************************)
(* All that the state says of the lines read                               *)
(***************************************************************************)
StateInv(ls, s) ==
  /\ PointsInv(ls, s)
  /\ LinesInOrder(ls) => ChangesInOrder(ls, s)
  /\ ApproachRateInv(ls, s)
  /\ ObjectsInv(ls, s)

LEMMA OtherLinesKeepTiming ==
  ASSUME NEW ls \in Seq(Lines), NEW line \in Lines, ~IsAccepted(line),
         NEW s, StateInv(ls, s), NEW r, IsState(r),
         r.mode = IF line.section = "General" /\ line.key = "Mode" THEN line.value ELSE s.mode,
         r.points = s.points, r.pending = s.pending, r.pending_time = s.pending_time
  PROVE  /\ PointsInv(Append(ls, line), r)
         /\ LinesInOrder(Append(ls, line)) => ChangesInOrder(Append(ls, line), r)
<1>1. PointsInv(Append(ls, line), r)
  BY OtherLinesKeepPoints DEF StateInv
<1>2. LinesInOrder(Append(ls, line)) => ChangesInOrder(Append(ls, line), r)
  <2> SUFFICES ASSUME LinesInOrder(Append(ls, line)) PROVE ChangesInOrder(Append(ls, line), r)
    OBVIOUS
  <2>1. LinesInOrder(ls)
    BY AppendedLines
  <2>2. ChangesInOrder(ls, s)
    BY <2>1 DEF StateInv
  <2> QED BY <2>2, OtherLinesKeepChanges
<1> QED BY <1>1, <1>2

LEMMA OtherLinesKeepObjects ==
  ASSUME NEW ls \in Seq(Lines), NEW line \in Lines, NEW s, ObjectsInv(ls, s),
         NEW r, r.hit_objects = s.hit_objects, r.hit_sounds = s.hit_sounds
  PROVE  ObjectsInv(Append(ls, line), r)
BY PushedObjectsAreRead DEF IsPushed

LEMMA GeneralLinesKeepState ==
  ASSUME NEW ls \in Seq(Lines), NEW line \in Lines, line.section = "General",
         NEW s, StateInv(ls, s)
  PROVE  StateInv(Append(ls, line), ParseGeneral(s, line))
<1> DEFINE r == ParseGeneral(s, line)
<1>1. IsState(s) /\ line \in GeneralLines /\ ~IsAccepted(line)
  BY SectionsOfLines DEF StateInv, PointsInv, IsAccepted
<1>2. /\ IsState(r) /\ Unchanged(s, r, Fields \ {"mode", "stack_leniency"})
      /\ r.mode = IF line.key = "Mode" THEN line.value ELSE s.mode
  BY <1>1, GeneralIsParsed
<1> HIDE DEF r
<1>3. /\ r.points = s.points /\ r.pending = s.pending /\ r.pending_time = s.pending_time
      /\ r.difficulty = s.difficulty /\ r.has_approach_rate = s.has_approach_rate
      /\ r.hit_objects = s.hit_objects /\ r.hit_sounds = s.hit_sounds
  BY <1>2 DEF Unchanged, Fields
<1>4. /\ PointsInv(Append(ls, line), r)
      /\ LinesInOrder(Append(ls, line)) => ChangesInOrder(Append(ls, line), r)
  BY <1>1, <1>2, <1>3, OtherLinesKeepTiming
<1>5. ApproachRateInv(Append(ls, line), r)
  BY <1>3, OtherLinesKeepApproachRate DEF StateInv
<1>6. ObjectsInv(Append(ls, line), r)
  BY <1>3, OtherLinesKeepObjects DEF StateInv
<1> QED BY <1>4, <1>5, <1>6 DEF StateInv, r

LEMMA DifficultyLinesKeepState ==
  ASSUME NEW ls \in Seq(Lines), NEW line \in Lines, line.section = "Difficulty",
         NEW s, StateInv(ls, s)
  PROVE  StateInv(Append(ls, line), ParseDifficulty(s, line))
<1> DEFINE r == ParseDifficulty(s, line)
<1>1. IsState(s) /\ line \in DifficultyLines /\ ~IsAccepted(line)
  BY SectionsOfLines DEF StateInv, PointsInv, IsAccepted
<1>2. IsState(r) /\ Unchanged(s, r, Fields \ {"difficulty", "has_approach_rate"})
  BY <1>1, DifficultyIsParsed
<1>3. ApproachRateInv(Append(ls, line), r)
  BY <1>1, DifficultyLinesKeepApproachRate DEF StateInv
<1> HIDE DEF r
<1>4. /\ r.points = s.points /\ r.pending = s.pending /\ r.pending_time = s.pending_time
      /\ r.mode = s.mode /\ r.hit_objects = s.hit_objects /\ r.hit_sounds = s.hit_sounds
  BY <1>2 DEF Unchanged, Fields
<1>5. /\ PointsInv(Append(ls, line), r)
      /\ LinesInOrder(Append(ls, line)) => ChangesInOrder(Append(ls, line), r)
  BY <1>1, <1>2, <1>4, OtherLinesKeepTiming
<1>6. ObjectsInv(Append(ls, line), r)
  BY <1>4, OtherLinesKeepObjects DEF StateInv
<1> QED BY <1>3, <1>5, <1>6 DEF StateInv, r

LEMMA EventLinesKeepState ==
  ASSUME NEW ls \in Seq(Lines), NEW line \in Lines, line.section = "Events",
         NEW s, StateInv(ls, s)
  PROVE  StateInv(Append(ls, line), ParseEvents(s, line))
<1> DEFINE r == ParseEvents(s, line)
<1>1. IsState(s) /\ ~IsAccepted(line)
  BY DEF StateInv, PointsInv, IsAccepted
<1>2. IsState(r) /\ Unchanged(s, r, Fields \ {"breaks"})
  BY <1>1, EventsAreParsed
<1> HIDE DEF r
<1>3. /\ r.points = s.points /\ r.pending = s.pending /\ r.pending_time = s.pending_time
      /\ r.difficulty = s.difficulty /\ r.has_approach_rate = s.has_approach_rate
      /\ r.mode = s.mode /\ r.hit_objects = s.hit_objects /\ r.hit_sounds = s.hit_sounds
  BY <1>2 DEF Unchanged, Fields
<1>4. /\ PointsInv(Append(ls, line), r)
      /\ LinesInOrder(Append(ls, line)) => ChangesInOrder(Append(ls, line), r)
  BY <1>1, <1>2, <1>3, OtherLinesKeepTiming
<1>5. ApproachRateInv(Append(ls, line), r)
  BY <1>3, OtherLinesKeepApproachRate DEF StateInv
<1>6. ObjectsInv(Append(ls, line), r)
  BY <1>3, OtherLinesKeepObjects DEF StateInv
<1> QED BY <1>4, <1>5, <1>6 DEF StateInv, r

LEMMA TimingLinesKeepState ==
  ASSUME NEW ls \in Seq(Lines), NEW line \in Lines, line.section = "TimingPoints",
         NEW s, StateInv(ls, s)
  PROVE  StateInv(Append(ls, line), ParseTimingPoints(s, line))
<1> DEFINE r == ParseTimingPoints(s, line)
           more == Append(ls, line)
<1>1. IsState(s) /\ ListsGrow(s) /\ line \in TimingPointLines
  BY SectionsOfLines DEF StateInv, PointsInv
<1>2. CASE TimingLineFails(line)
  <2>1. r = s
    BY <1>2 DEF ParseTimingPoints
  <2>2. ~IsAccepted(line)
    BY <1>2 DEF IsAccepted
  <2>3. PointsInv(more, s) /\ (LinesInOrder(more) => ChangesInOrder(more, s))
    BY <1>1, <2>2, OtherLinesKeepTiming
  <2>4. ApproachRateInv(more, s)
    BY OtherLinesKeepApproachRate DEF StateInv
  <2>5. ObjectsInv(more, s)
    BY OtherLinesKeepObjects DEF StateInv
  <2> QED BY <2>1, <2>3, <2>4, <2>5 DEF StateInv
<1>3. CASE ~TimingLineFails(line)
  <2>1. IsAccepted(line)
    BY <1>3 DEF IsAccepted
  <2>2. PointsInv(more, r)
    BY <1>1, <2>1, TimingLinesKeepPoints DEF StateInv
  <2>3. LinesInOrder(more) => ChangesInOrder(more, r)
    <3> SUFFICES ASSUME LinesInOrder(more) PROVE ChangesInOrder(more, r)
      OBVIOUS
    <3>1. LinesInOrder(ls)
      BY AppendedLines
    <3> QED BY <1>1, <2>1, <3>1, TimingLinesKeepChanges DEF StateInv
  <2>4. /\ Unchanged(Flushed(s, line.time), r, Fields \ {"pending", "pending_time"})
        /\ Unchanged(s, Flushed(s, line.time), Fields \ {"points", "pending"})
    BY <1>1, <1>3, TimingIsParsed, FlushedIsState
  <2> HIDE DEF r
  <2>5. /\ r.difficulty = s.difficulty /\ r.has_approach_rate = s.has_approach_rate
        /\ r.hit_objects = s.hit_objects /\ r.hit_sounds = s.hit_sounds
    BY <2>4 DEF Unchanged, Fields
  <2>6. ApproachRateInv(more, r)
    BY <2>5, OtherLinesKeepApproachRate DEF StateInv
  <2>7. ObjectsInv(more, r)
    BY <2>5, OtherLinesKeepObjects DEF StateInv
  <2> QED BY <2>2, <2>3, <2>6, <2>7 DEF StateInv, r
<1> QED BY <1>2, <1>3

LEMMA HitObjectLinesKeepState ==
  ASSUME lines \in Seq(Lines), NEW line \in Lines, line.section = "HitObjects",
         NEW s, StateInv(lines, s)
  PROVE  StateInv(Append(lines, line), ParseHitObjects(s, line))
<1> DEFINE r == ParseHitObjects(s, line)
<1>1. IsState(s) /\ line \in HitObjectLines /\ ~IsAccepted(line)
  BY SectionsOfLines DEF StateInv, PointsInv, IsAccepted
<1>2. /\ IsState(r) /\ Unchanged(s, r, Fields \ {"hit_objects", "hit_sounds", "curve_points"})
      /\ IsPushed(s, r, line, Len(lines) + 1)
  BY <1>1, HitObjectIsParsed
<1> HIDE DEF r
<1>3. /\ r.points = s.points /\ r.pending = s.pending /\ r.pending_time = s.pending_time
      /\ r.difficulty = s.difficulty /\ r.has_approach_rate = s.has_approach_rate
      /\ r.mode = s.mode
  BY <1>2 DEF Unchanged, Fields
<1>4. /\ PointsInv(Append(lines, line), r)
      /\ LinesInOrder(Append(lines, line)) => ChangesInOrder(Append(lines, line), r)
  BY <1>1, <1>2, <1>3, OtherLinesKeepTiming
<1>5. ApproachRateInv(Append(lines, line), r)
  BY <1>3, OtherLinesKeepApproachRate DEF StateInv
<1>6. ObjectsInv(Append(lines, line), r)
  BY <1>1, <1>2, PushedObjectsAreRead DEF StateInv
<1> QED BY <1>4, <1>5, <1>6 DEF StateInv, r

(***************************************************************************)
(* The inductive invariant: what the state says of the lines read, and     *)
(* where the map comes from.                                               *)
(***************************************************************************)
IInv ==
  /\ content \subseteq Lines
  /\ lines \in Seq(Lines) /\ Len(lines) <= MaxLines
  /\ StateInv(lines, state)
  /\ map # None => map = BeatmapOf(state)

LEMMA CreatedStateIsEmpty == StateInv(<<>>, Create)
<1> DEFINE s == Create
<1>1. /\ IsState(s) /\ s.mode = "osu" /\ ~s.has_approach_rate /\ s.difficulty.ar = 50
      /\ s.hit_objects = <<>> /\ s.hit_sounds = <<>>
      /\ \A kind \in Kinds : s.points[kind] = <<>> /\ s.pending[kind] = None
  BY DEF Create, IsState, Fields, Difficulties, Kinds
<1>2. "timing" \in Kinds
  BY DEF Kinds
<1> HIDE DEF s
<1>3. /\ Accepted(<<>>) = {} /\ Keyed(<<>>, "ar") = {} /\ Keyed(<<>>, "od") = {} /\ Firsts(<<>>) = {}
  BY DEF Accepted, Keyed, Firsts
<1>4. ModeIn(<<>>, Len(<<>>) + 1) = "osu"
  BY DEF ModeIn
<1>5. PointsInv(<<>>, s)
  <2>1. ListsGrow(s)
    BY <1>1 DEF ListsGrow, Grows
  <2>2. PendingAtTime(s)
    BY <1>1 DEF PendingAtTime
  <2> QED BY <1>1, <1>3, <1>4, <2>1, <2>2 DEF PointsInv, PointsInOrder
<1>6. ChangesInOrder(<<>>, s)
  <2>1. AllTimingPoints(s) = <<>> /\ Len(AllTimingPoints(s)) = 0
    BY <1>1, <1>2 DEF AllTimingPoints, Taken
  <2>2. Cardinality(Firsts(<<>>)) = 0
    BY <1>3, FS_EmptySet
  <2> QED BY <1>1, <1>2, <1>3, <2>1, <2>2 DEF ChangesInOrder
<1>7. ApproachRateInv(<<>>, s)
  BY <1>1, <1>3 DEF ApproachRateInv, ApproachRateOf
<1>8. ObjectsInv(<<>>, s)
  BY <1>1 DEF ObjectsInv, IsSequence
<1> QED BY <1>5, <1>6, <1>7, <1>8 DEF StateInv, s

LEMMA InitialStates == Init => IInv
<1> SUFFICES ASSUME Init PROVE IInv
  OBVIOUS
<1>1. content \subseteq Lines
  BY ContentsAssumption DEF Init
<1>2. lines \in Seq(Lines) /\ Len(lines) <= MaxLines
  BY MaxLinesAssumption DEF Init
<1>3. StateInv(lines, state)
  BY CreatedStateIsEmpty DEF Init
<1> QED BY <1>1, <1>2, <1>3 DEF Init, IInv

LEMMA LineIsRead ==
  ASSUME IInv, NEW line \in content, NEW parsed, Read(line, parsed),
         StateInv(Append(lines, line), parsed)
  PROVE  IInv'
<1>1. lines \in Seq(Lines) /\ line \in Lines
  BY DEF IInv
<1>2. lines' = Append(lines, line) /\ Len(lines) < MaxLines
  BY DEF Read
<1>3. lines' \in Seq(Lines) /\ Len(lines') <= MaxLines
  <2>1. Len(lines') = Len(lines) + 1 /\ lines' \in Seq(Lines) /\ Len(lines) \in Nat
    BY <1>1, <1>2
  <2> QED BY <1>2, <2>1, MaxLinesAssumption
<1>4. StateInv(lines', state')
  BY <1>2 DEF Read
<1> QED BY <1>3, <1>4 DEF IInv, Read

LEMMA Steps == IInv /\ [Next]_vars => IInv'
<1> SUFFICES ASSUME IInv, [Next]_vars PROVE IInv'
  OBVIOUS
<1>1. /\ lines \in Seq(Lines) /\ StateInv(lines, state)
      /\ \A line \in content : line \in Lines
  BY DEF IInv
<1>2. CASE GeneralLine
  <2>1. PICK line \in content : line.section = "General" /\ Read(line, ParseGeneral(state, line))
    BY <1>2 DEF GeneralLine, OfSection
  <2> QED BY <1>1, <2>1, GeneralLinesKeepState, LineIsRead
<1>3. CASE DifficultyLine
  <2>1. PICK line \in content : line.section = "Difficulty" /\ Read(line, ParseDifficulty(state, line))
    BY <1>3 DEF DifficultyLine, OfSection
  <2> QED BY <1>1, <2>1, DifficultyLinesKeepState, LineIsRead
<1>4. CASE EventLine
  <2>1. PICK line \in content : line.section = "Events" /\ Read(line, ParseEvents(state, line))
    BY <1>4 DEF EventLine, OfSection
  <2> QED BY <1>1, <2>1, EventLinesKeepState, LineIsRead
<1>5. CASE TimingLine
  <2>1. PICK line \in content : line.section = "TimingPoints" /\ Read(line, ParseTimingPoints(state, line))
    BY <1>5 DEF TimingLine, OfSection
  <2> QED BY <1>1, <2>1, TimingLinesKeepState, LineIsRead
<1>6. CASE HitObjectLine
  <2>1. PICK line \in content : line.section = "HitObjects" /\ Read(line, ParseHitObjects(state, line))
    BY <1>6 DEF HitObjectLine, OfSection
  <2> QED BY <1>1, <2>1, HitObjectLinesKeepState, LineIsRead
<1>7. CASE Finish
  BY <1>7 DEF IInv, Finish
<1>8. CASE UNCHANGED vars
  BY <1>8 DEF IInv, vars
<1> QED BY <1>2, <1>3, <1>4, <1>5, <1>6, <1>7, <1>8 DEF Next

(* What the parsers have kept of the lines read stays true line by line.    *)
THEOREM Invariance == Spec => []IInv
BY InitialStates, Steps, PTL DEF Spec

(***************************************************************************)
(* What the map is made of                                                 *)
(***************************************************************************)
LEMMA MapIsOfState ==
  ASSUME IInv, map # None
  PROVE  /\ map.ar = Clamp(state.difficulty.ar, 0, 100)
         /\ map.points = FlushPendingPoints(state).points
         /\ LET objects == Sort(NewStable(StartTimes(state.hit_objects)), state.hit_objects)
            IN  /\ map.hit_objects = objects.slice
                /\ map.hit_sounds = Sort(objects.sorter, state.hit_sounds).slice
<1> DEFINE f == FlushPendingPoints(state)
           objects == Sort(NewStable(StartTimes(f.hit_objects)), f.hit_objects)
           sounds == Sort(objects.sorter, f.hit_sounds)
<1>1. IsState(state) /\ ListsGrow(state)
  BY DEF IInv, StateInv, PointsInv
<1>2. Unchanged(state, f, Fields \ {"points", "pending"})
  BY <1>1, PendingIsFlushed DEF ListsGrow
<1>3. /\ f.difficulty = state.difficulty
      /\ f.hit_objects = state.hit_objects /\ f.hit_sounds = state.hit_sounds
  BY <1>2 DEF Unchanged, Fields
<1>4. map = BeatmapOf(state)
  BY DEF IInv
<1>5. /\ map.ar = Clamp(f.difficulty.ar, 0, 100) /\ map.points = f.points
      /\ map.hit_objects = objects.slice /\ map.hit_sounds = sounds.slice
  BY <1>4 DEF BeatmapOf
<1> QED BY <1>3, <1>5

(* The approach rate is the one of the file, whatever overall difficulty   *)
(* follows it in the file, and only without one the last overall           *)
(* difficulty.                                                             *)
THEOREM ApproachRateIsOfTheFile == Spec => []ApproachRateFollowsOverallDifficulty
<1>1. ASSUME IInv PROVE ApproachRateFollowsOverallDifficulty
  <2> SUFFICES ASSUME map # None PROVE ApproachRateFollowsOverallDifficulty
    BY DEF ApproachRateFollowsOverallDifficulty
  <2>1. map.ar = Clamp(ApproachRateOf(lines), 0, 100)
    BY <1>1, MapIsOfState DEF IInv, StateInv, ApproachRateInv
  <2>2. \A key : {i \in LinesOf("Difficulty") : lines[i].key = key} = Keyed(lines, key)
    BY DEF LinesOf, Keyed
  <2>3. Clamp(50, 0, 100) = 50
    BY DEF Clamp, Greatest, Least
  <2> QED BY <2>1, <2>2, <2>3 DEF ApproachRateFollowsOverallDifficulty, ApproachRateOf
<1> QED BY <1>1, Invariance, PTL

(* Objects come sorted by time, those of one time in the order of the      *)
(* file, and each sound is still that of its object: sort() applies the    *)
(* permutation of the start times to both lists.                           *)
THEOREM SoundsFollow == Spec => []SoundsFollowTheirObjects
<1>1. ASSUME IInv PROVE SoundsFollowTheirObjects
  <2> SUFFICES ASSUME map # None PROVE SoundsFollowTheirObjects
    BY DEF SoundsFollowTheirObjects
  <2> DEFINE n == Len(state.hit_objects)
             keys == StartTimes(state.hit_objects)
             objects == state.hit_objects
             sounds == state.hit_sounds
  <2>1. ObjectsInv(lines, state) /\ lines \in Seq(Lines) /\ Len(lines) <= MaxLines
    BY <1>1 DEF IInv, StateInv
  <2>2. PICK S : objects \in Seq(S)
    BY <2>1 DEF ObjectsInv, IsSequence
  <2>3. /\ n \in Nat /\ n <= TopBit
        /\ sounds \in [1 .. n -> SUBSET Sounds] /\ objects \in [1 .. n -> S]
    <3>1. n \in Nat /\ n <= Len(lines) /\ Len(lines) \in Nat /\ sounds \in Seq(SUBSET Sounds) /\ Len(sounds) = n
      BY <2>1, <2>2 DEF ObjectsInv
    <3>2. n <= TopBit
      BY <2>1, <3>1, MaxLinesAssumption DEF TopBit
    <3> QED BY <2>2, <3>1, <3>2
  <2>4. ASSUME NEW k \in 1 .. n
        PROVE  /\ objects[k].line \in Nat /\ objects[k].start_time \in Int
               /\ sounds[k] = SoundOf(lines[objects[k].line])
    <3>1. IsReadFrom(lines, objects[k], sounds[k])
      BY <2>1 DEF ObjectsInv
    <3> QED BY <3>1 DEF IsReadFrom, HitObjectLines
  <2>5. \A j, k \in 1 .. n : j < k => objects[j].line < objects[k].line
    BY <2>1 DEF ObjectsInv
  <2>6. /\ keys \in [1 .. n -> Int] /\ \A k \in 1 .. n : keys[k] = objects[k].start_time
    BY <2>3, <2>4 DEF StartTimes
  <2> HIDE DEF n, keys, objects, sounds
  <2>7. PICK to \in [1 .. n -> 1 .. n] :
          /\ \A a, b \in 1 .. n : a < b => Precedes(keys, to[a], to[b])
          /\ map.hit_objects = Permuted(objects, to, n)
          /\ map.hit_sounds = Permuted(sounds, to, n)
    <3>1. /\ map.hit_objects = Sort(NewStable(keys), objects).slice
          /\ map.hit_sounds = Sort(Sort(NewStable(keys), objects).sorter, sounds).slice
      BY <1>1, MapIsOfState DEF keys, objects, sounds
    <3>2. IsList(objects, n) /\ IsList(sounds, n)
      BY <2>3 DEF IsList
    <3>3. AreMovedTogether(keys, objects, sounds, n)
      BY <2>3, <2>6, <3>2, BothListsAreMoved
    <3> QED BY <3>1, <3>3 DEF AreMovedTogether
  <2>8. Len(map.hit_objects) = n /\ DOMAIN map.hit_objects = 1 .. n
    BY <2>3, <2>7 DEF Permuted
  <2>9. ASSUME NEW a \in 1 .. n, NEW b \in 1 .. n, a < b
        PROVE  \/ map.hit_objects[a].start_time < map.hit_objects[b].start_time
               \/ /\ map.hit_objects[a].start_time = map.hit_objects[b].start_time
                  /\ map.hit_objects[a].line < map.hit_objects[b].line
    <3>1. Precedes(keys, to[a], to[b]) /\ to[a] \in 1 .. n /\ to[b] \in 1 .. n
      BY <2>7, <2>9
    <3>2. map.hit_objects[a] = objects[to[a]] /\ map.hit_objects[b] = objects[to[b]]
      BY <2>7 DEF Permuted
    <3> QED BY <2>5, <2>6, <3>1, <3>2 DEF Precedes
  <2>10. ASSUME NEW k \in 1 .. n
         PROVE  map.hit_sounds[k] = SoundOf(lines[map.hit_objects[k].line])
    BY <2>4, <2>7 DEF Permuted
  <2> QED BY <2>8, <2>9, <2>10 DEF SoundsFollowTheirObjects, IsSorted, n, objects
<1> QED BY <1>1, Invariance, PTL

LEMMA TimingLinesAreAccepted ==
  /\ TimingLines = Accepted(lines)
  /\ TimesInOrder <=> LinesInOrder(lines)
  /\ \A i : ModeAt(i) = ModeIn(lines, i)
<1>1. TimingLines = Accepted(lines)
  BY DEF TimingLines, LinesOf, Accepted, IsAccepted
<1>2. TimesInOrder <=> LinesInOrder(lines)
  BY <1>1 DEF TimesInOrder, LinesInOrder
<1>3. ASSUME NEW i PROVE ModeAt(i) = ModeIn(lines, i)
  <2>1. {j \in LinesOf("General") : j < i /\ lines[j].key = "Mode"} =
          {j \in DOMAIN lines : lines[j].section = "General" /\ j < i /\ lines[j].key = "Mode"}
    BY DEF LinesOf
  <2> QED BY <2>1 DEF ModeAt, ModeIn
<1> QED BY <1>1, <1>2, <1>3

(* Whatever the order of the lines, the points of each kind are sorted by  *)
(* strictly growing times. In a file whose timing lines are in order, the  *)
(* velocity and the effects at every time are those of the line that is    *)
(* active then.                                                            *)
THEOREM ActivePointsAreOfTheFile == Spec => []ActivePointsAreThoseOfTheFile
<1>1. ASSUME IInv PROVE ActivePointsAreThoseOfTheFile
  <2>1. /\ IsState(state) /\ ListsGrow(state) /\ PointsInv(lines, state) /\ lines \in Seq(Lines)
    BY <1>1 DEF IInv, StateInv, PointsInv
  <2>2. \A kind \in Kinds : IsSorted(state.points[kind], LAMBDA p, q : p.time < q.time)
    BY <2>1 DEF IsSorted, ListsGrow, Grows
  <2>3. ASSUME map # None, TimesInOrder,
               NEW time \in {lines[j].time + offset : j \in TimingLines, offset \in {-1, 0}}
        PROVE  PointsTellOfTheFile(time)
    <3> DEFINE i == ActiveLine(time)
               at(kind) == Worth(kind, PointAt(kind, map.points[kind], time))
    <3>1. time \in Int
      <4>1. PICK j \in TimingLines, offset \in {-1, 0} : time = lines[j].time + offset
        BY <2>3
      <4>2. lines[j].time \in Int
        BY <2>1, <4>1, TimingLinesAreAccepted, AcceptedLines
      <4> QED BY <4>1, <4>2
    <3>2. LinesInOrder(lines)
      BY <2>3, TimingLinesAreAccepted
    <3>3. IsActive(lines, time, i)
      BY <2>1, <3>1, <3>2, ActiveLineIsActive
    <3>4. i \in Nat
      <4>1. i = 0 \/ i \in Accepted(lines)
        BY <3>3 DEF IsActive
      <4> QED BY <2>1, <4>1, AcceptedLines
    <3>5. map.points = FlushPendingPoints(state).points
      BY <1>1, <2>3, MapIsOfState
    <3> HIDE DEF i
    <3>6. \A kind \in Worthy : at(kind) = InForce(lines, kind, i)
      BY <2>1, <3>1, <3>2, <3>3, <3>4, <3>5, FlushedListsTell
    <3>7. CASE i = 0
      BY <3>6, <3>7 DEF InForce, Worthy, Kinds, i, PointsTellOfTheFile
    <3>8. CASE i # 0
      <4>1. at("difficulty") = Worth("difficulty", NewDifficultyPoint(lines[i].time, lines[i].beat))
        BY <3>6, <3>8 DEF InForce, Worthy, PointOfLine
      <4>2. at("effect") = Worth("effect", NewEffectPoint(lines[i].time, lines[i].kiai,
                                                          ScrollSpeed(ModeIn(lines, i), lines[i].beat)))
        BY <3>6, <3>8 DEF InForce, Worthy, PointOfLine
      <4>3. at("difficulty") = Worth("difficulty", NewDifficultyPoint(time, lines[i].beat))
        BY <4>1 DEF Worth, NewDifficultyPoint
      <4>4. at("effect") = <<ScrollSpeed(ModeAt(i), lines[i].beat), lines[i].kiai>>
        BY <4>2, TimingLinesAreAccepted DEF Worth, NewEffectPoint
      <4> QED BY <3>8, <4>3, <4>4 DEF i, PointsTellOfTheFile
    <3> QED BY <3>7, <3>8
  <2>4. map # None /\ TimesInOrder =>
          \A time \in {lines[i].time + offset : i \in TimingLines, offset \in {-1, 0}} : PointsTellOfTheFile(time)
    BY <2>3
  <2> QED BY <2>2, <2>4 DEF ActivePointsAreThoseOfTheFile, IsSorted
<1> QED BY <1>1, Invariance, PTL

(* Every timing change is kept, the first of each time, although timing    *)
(* points share their slot with later lines of the same time.              *)
THEOREM TimingChangesStay == Spec => []TimingChangesAreKept
<1>1. ASSUME IInv PROVE TimingChangesAreKept
  <2> SUFFICES ASSUME map # None, TimesInOrder PROVE TimingChangesAreKept
    BY DEF TimingChangesAreKept
  <2> DEFINE all == AllTimingPoints(state)
  <2>1. /\ IsState(state) /\ ListsGrow(state) /\ lines \in Seq(Lines) /\ "timing" \in Kinds
    BY <1>1 DEF IInv, StateInv, PointsInv, Kinds
  <2>2. ChangesInOrder(lines, state)
    BY <1>1, TimingLinesAreAccepted DEF IInv, StateInv
  <2>3. map.points["timing"] = all /\ all \in Seq(PointsOf("timing")) /\ Grows(all)
    <3>1. /\ IsState(FlushPendingPoints(state))
          /\ FlushPendingPoints(state).points["timing"] = all
          /\ Grows(FlushPendingPoints(state).points["timing"])
      BY <2>1, PendingIsFlushed DEF ListsGrow, AllTimingPoints
    <3>2. FlushPendingPoints(state).points["timing"] \in Seq(PointsOf("timing"))
      BY <2>1, <3>1 DEF IsState
    <3> QED BY <1>1, <3>1, <3>2, MapIsOfState
  <2>4. Len(all) = Cardinality(Firsts(lines))
    BY <2>2 DEF ChangesInOrder
  <2>5. ASSUME NEW i \in Firsts(lines)
        PROVE  TimingPointAt(all, lines[i].time) = NewTimingPoint(lines[i].time, lines[i].beat)
    <3> DEFINE t == lines[i].time
    <3>1. PICK k \in 1 .. Len(all) : all[k] = NewTimingPoint(t, lines[i].beat)
      BY <2>2 DEF ChangesInOrder
    <3>2. t \in Int
      BY <2>1, AcceptedLines DEF Firsts
    <3>3. all[k].time = t
      BY <3>1 DEF NewTimingPoint
    <3> HIDE DEF all, t
    <3>4. Len(all) \in Nat /\ \A j \in 1 .. Len(all) : all[j].time \in Int
      BY <2>1, <2>3, TimesOfPoints
    <3>5. Passed(all, t, k)
      BY <2>3, <3>2, <3>3, <3>4 DEF Passed, Grows
    <3>6. Passed(all, t, IndexAt(all, t))
      BY <2>1, <2>3, <3>2, IndexIsFound
    <3>7. IndexAt(all, t) = k
      BY <3>4, <3>5, <3>6, IndexIsUnique
    <3>8. Greatest(1, k) = k
      BY <3>4 DEF Greatest
    <3> QED BY <3>1, <3>7, <3>8 DEF TimingPointAt, t
  <2> DEFINE changes == {i \in TimingLines : lines[i].change}
             firsts  == {i \in changes : \A j \in changes : lines[j].time = lines[i].time => i <= j}
  <2>6. firsts = Firsts(lines)
    BY TimingLinesAreAccepted DEF Firsts
  <2> HIDE DEF firsts, all
  <2> QED BY <2>3, <2>4, <2>5, <2>6 DEF TimingChangesAreKept, firsts
<1> QED BY <1>1, Invariance, PTL
=============================================================================
