-------------------------- MODULE PreparationProofs ---------------------------
(***************************************************************************)
(* The ring of LimitedQueue implements the queue of LatestElements, for    *)
(* every capacity and every kind of elements; and the density that the     *)
(* conversion to osu!mania reads off its slices is that of the elements.   *)
(* Of the jobs of the preparation, those that sort and those that check    *)
(* for suspicion do what is promised of them, whatever they work on.       *)
(* And the conversion to osu!mania finds a free column for every note,     *)
(* whatever its random numbers are.                                        *)
(***************************************************************************)
EXTENDS Preparation, SortingProofs, SequenceTheorems

(* Around the array at most once: what % N does to the indices in use.     *)
LEMMA WrapAround ==
  ASSUME NEW x \in 0 .. 2 * N - 1
  PROVE  x % N = IF x < N THEN x ELSE x - N
<1> USE CapacityAssumption
<1>1. CASE x < N
  BY <1>1
<1>2. CASE x >= N
  <2>1. x = 1 * N + (x - N) /\ x - N \in 0 .. N - 1
    BY <1>2
  <2> QED BY <2>1, <1>2
<1> QED BY <1>1, <1>2

(* Where the k-th of l elements is, if the last one is at e: at the front  *)
(* of the array while it fills, and from the one after e on, around the    *)
(* array, once it is full.                                                 *)
LEMMA Positions ==
  ASSUME NEW e \in 0 .. N - 1, NEW l \in 0 .. N, NEW k \in 1 .. l
  PROVE  (k - 1 + (IF l = N THEN e + 1 ELSE 0)) % N
           = IF l < N THEN k - 1 ELSE IF k + e < N THEN k + e ELSE k + e - N
<1> USE CapacityAssumption
<1>1. CASE l < N
  <2>1. k - 1 \in 0 .. 2 * N - 1 /\ k - 1 < N
    BY <1>1
  <2>2. (k - 1) % N = k - 1
    BY <2>1, WrapAround
  <2>3. k - 1 + (IF l = N THEN e + 1 ELSE 0) = k - 1
    BY <1>1
  <2> QED BY <1>1, <2>2, <2>3
<1>2. CASE l = N
  <2>1. k + e \in 0 .. 2 * N - 1
    BY <1>2
  <2>2. (k + e) % N = IF k + e < N THEN k + e ELSE k + e - N
    BY <2>1, WrapAround
  <2>3. k - 1 + (IF l = N THEN e + 1 ELSE 0) = k + e
    BY <1>2
  <2> QED BY <1>2, <2>2, <2>3
<1> QED BY <1>1, <1>2

(* The index after e.                                                      *)
LEMMA NextIndex ==
  ASSUME NEW e \in 0 .. N - 1
  PROVE  After(e) = (IF e + 1 < N THEN e + 1 ELSE 0) /\ After(e) \in 0 .. N - 1
<1> USE CapacityAssumption
<1>1. e + 1 \in 0 .. 2 * N - 1
  OBVIOUS
<1>2. After(e) = IF e + 1 < N THEN e + 1 ELSE e + 1 - N
  BY <1>1, WrapAround DEF After
<1>3. e + 1 < N \/ e + 1 - N = 0
  OBVIOUS
<1> QED BY <1>2, <1>3

(***************************************************************************)
(* The elements shown                                                      *)
(***************************************************************************)

(* The elements of an array q of which l are in use, the last one at e.    *)
Shown(q, e, l) ==
  [k \in 1 .. l |-> q[IF l < N THEN k - 1 ELSE IF k + e < N THEN k + e ELSE k + e - N]]

(* They are as many as are in use, each of them an element.                *)
LEMMA ShownType ==
  ASSUME NEW q \in [0 .. N - 1 -> Elements], NEW e \in 0 .. N - 1, NEW l \in 0 .. N
  PROVE  Shown(q, e, l) \in Seq(Elements) /\ Len(Shown(q, e, l)) = l
<1> USE CapacityAssumption
<1>1. \A k \in 1 .. l :
        (IF l < N THEN k - 1 ELSE IF k + e < N THEN k + e ELSE k + e - N) \in 0 .. N - 1
  OBVIOUS
<1>2. Shown(q, e, l) \in [1 .. l -> Elements] /\ l \in Nat
  BY <1>1 DEF Shown
<1> QED BY <1>2

(* They are what indexing shows, before and after a step.                  *)
LEMMA ContentsShown ==
  /\ TypeOK => Contents = Shown(queue, end, len)
  /\ TypeOK' => Contents' = Shown(queue', end', len')
<1>1. ASSUME TypeOK PROVE Contents = Shown(queue, end, len)
  <2>1. \A k \in 1 .. len :
          Position(k - 1) = IF len < N THEN k - 1 ELSE IF k + end < N THEN k + end ELSE k + end - N
    BY <1>1, Positions DEF Position, IsFull, TypeOK
  <2> QED BY <2>1 DEF Contents, Shown
<1>2. ASSUME TypeOK' PROVE Contents' = Shown(queue', end', len')
  <2>1. \A k \in 1 .. len' :
          Position(k - 1)' = IF len' < N THEN k - 1
                             ELSE IF k + end' < N THEN k + end' ELSE k + end' - N
    BY <1>2, Positions DEF Position, IsFull, TypeOK
  <2> QED BY <2>1 DEF Contents, Shown
<1> QED BY <1>1, <1>2

(***************************************************************************)
(* A push                                                                  *)
(***************************************************************************)
LEMMA PushKeepsTypes ==
  ASSUME TypeOK, NEW elem \in Elements, Push(elem)
  PROVE  TypeOK'
<1> USE CapacityAssumption
<1>1. After(end) \in 0 .. N - 1
  BY NextIndex DEF TypeOK
<1>2. queue' \in [0 .. N - 1 -> Elements] /\ end' \in 0 .. N - 1 /\ len' \in 0 .. N
  BY <1>1 DEF Push, TypeOK
<1>3. ASSUME len' < N PROVE After(end') = len'
  <2>1. len < N /\ len' = len + 1
    BY <1>3 DEF Push, TypeOK
  <2>2. end' = len
    BY <2>1 DEF Push, TypeOK
  <2>3. After(end') = IF end' + 1 < N THEN end' + 1 ELSE 0
    BY <1>2, NextIndex
  <2> QED BY <1>3, <2>1, <2>2, <2>3
<1>4. (After(end) = len)' <=> After(end') = len'
  BY DEF After
<1> QED BY <1>2, <1>3, <1>4 DEF TypeOK

(* Writing an element after the last one of the array appends it to the    *)
(* elements shown, and drops the oldest one if there were N.               *)
LEMMA ShownPush ==
  ASSUME NEW q \in [0 .. N - 1 -> Elements], NEW e \in 0 .. N - 1, NEW l \in 0 .. N,
         l < N => After(e) = l,
         NEW elem \in Elements
  PROVE  Shown([q EXCEPT ![After(e)] = elem], After(e), IF l < N THEN l + 1 ELSE l)
           = Append(IF l < N THEN Shown(q, e, l) ELSE Tail(Shown(q, e, l)), elem)
<1> USE CapacityAssumption
<1> DEFINE e2   == After(e)
           q2   == [q EXCEPT ![e2] = elem]
           l2   == IF l < N THEN l + 1 ELSE l
           Old  == Shown(q, e, l)
           New  == Shown(q2, e2, l2)
           Kept == IF l < N THEN Old ELSE Tail(Old)
<1>1. e2 = (IF e + 1 < N THEN e + 1 ELSE 0) /\ e2 \in 0 .. N - 1
  BY NextIndex
<1>2. q2 \in [0 .. N - 1 -> Elements] /\ l2 \in 1 .. N
  BY <1>1
<1>3. Old \in Seq(Elements) /\ Len(Old) = l
  BY ShownType
<1>4. New \in Seq(Elements) /\ Len(New) = l2
  <2> HIDE DEF e2, q2, l2
  <2>1. l2 \in 0 .. N
    BY <1>2
  <2> QED BY <1>1, <1>2, <2>1, ShownType
<1>5. Kept \in Seq(Elements) /\ Len(Kept) = l2 - 1
  BY <1>3
<1>6. Append(Kept, elem) \in Seq(Elements) /\ Len(Append(Kept, elem)) = l2
  BY <1>2, <1>5
<1>7. ASSUME NEW k \in 1 .. l2 PROVE New[k] = Append(Kept, elem)[k]
  <2>1. CASE l < N
    <3>1. l2 = l + 1 /\ e2 = l
      BY <2>1
    <3>2. New[k] = q2[k - 1]
      <4>1. CASE l2 < N
        BY <4>1 DEF Shown
      <4>2. CASE l2 = N
        BY <3>1, <4>2 DEF Shown
      <4> QED BY <1>2, <4>1, <4>2
    <3>3. CASE k = l2
      <4>1. Append(Kept, elem)[k] = elem
        BY <1>5, <3>3
      <4>2. q2[k - 1] = elem
        BY <1>1, <3>1, <3>3
      <4> QED BY <3>2, <4>1, <4>2
    <3>4. CASE k < l2
      <4>1. Append(Kept, elem)[k] = Old[k]
        BY <1>3, <2>1, <3>1, <3>4
      <4>2. Old[k] = q[k - 1]
        BY <2>1, <3>1, <3>4 DEF Shown
      <4>3. q2[k - 1] = q[k - 1]
        BY <1>1, <2>1, <3>1, <3>4
      <4> QED BY <3>2, <4>1, <4>2, <4>3
    <3>5. k = l2 \/ k < l2
      BY <1>2
    <3> QED BY <3>3, <3>4, <3>5
  <2>2. CASE l = N
    <3> DEFINE pos == IF k + e2 < N THEN k + e2 ELSE k + e2 - N
    <3>1. l2 = N
      BY <2>2
    <3>2. New[k] = q2[pos]
      BY <3>1 DEF Shown
    <3> HIDE DEF e2, q2, l2, Old, New
    <3>3. CASE k = N
      <4>1. pos = e2
        BY <1>1, <3>3
      <4>2. q2[e2] = elem
        BY <1>1 DEF q2
      <4>3. Append(Kept, elem)[k] = elem
        BY <1>5, <3>1, <3>3
      <4> QED BY <3>2, <4>1, <4>2, <4>3
    <3>4. CASE k < N
      <4>1. Append(Kept, elem)[k] = Old[k + 1]
        BY <1>3, <1>5, <2>2, <3>1, <3>4
      <4>2. pos = IF k + 1 + e < N THEN k + 1 + e ELSE k + 1 + e - N
        BY <1>1, <3>1, <3>4
      <4>3. Old[k + 1] = q[pos]
        BY <2>2, <3>1, <3>4, <4>2 DEF Shown, Old
      <4>4. pos # e2 /\ pos \in 0 .. N - 1
        BY <1>1, <3>1, <3>4
      <4>5. q2[pos] = q[pos]
        BY <1>1, <4>4 DEF q2
      <4> QED BY <3>2, <4>1, <4>3, <4>5
    <3>5. k = N \/ k < N
      BY <3>1
    <3> QED BY <3>3, <3>4, <3>5
  <2>3. l < N \/ l = N
    OBVIOUS
  <2> QED BY <2>1, <2>2, <2>3
<1> QED BY <1>4, <1>6, <1>7, SeqEqual

(* Whatever the state of the ring, a push appends to the elements it shows.*)
LEMMA PushAppends ==
  ASSUME TypeOK, NEW elem \in Elements, Push(elem)
  PROVE  Contents' = Append(IF Len(Contents) < N THEN Contents ELSE Tail(Contents), elem)
<1>1. Contents = Shown(queue, end, len) /\ Contents' = Shown(queue', end', len')
  BY PushKeepsTypes, ContentsShown
<1>2. Len(Contents) = len
  BY <1>1, ShownType DEF TypeOK
<1>3. Shown(queue', end', len')
        = Append(IF len < N THEN Shown(queue, end, len) ELSE Tail(Shown(queue, end, len)), elem)
  BY ShownPush DEF TypeOK, Push
<1> QED BY <1>1, <1>2, <1>3

(***************************************************************************)
(* The theorems                                                            *)
(***************************************************************************)

(* The index and the length stay within the array, and while the queue is  *)
(* not full the array is filled from its front.                            *)
THEOREM TypeCorrectness == QueueSpec => []TypeOK
<1>1. QueueInit => TypeOK
  <2> SUFFICES ASSUME QueueInit PROVE TypeOK
    OBVIOUS
  <2>1. N - 1 \in 0 .. N - 1
    BY CapacityAssumption
  <2>2. After(N - 1) = 0
    BY <2>1, NextIndex, CapacityAssumption
  <2> QED BY <2>1, <2>2, CapacityAssumption, DefaultAssumption DEF QueueInit, TypeOK
<1>2. TypeOK /\ [QueueNext]_queueVars => TypeOK'
  <2> SUFFICES ASSUME TypeOK, [QueueNext]_queueVars PROVE TypeOK'
    OBVIOUS
  <2>1. CASE QueueNext
    BY <2>1, PushKeepsTypes DEF QueueNext
  <2>2. CASE UNCHANGED queueVars
    BY <2>2 DEF queueVars, TypeOK, After
  <2> QED BY <2>1, <2>2
<1> QED BY <1>1, <1>2, PTL DEF QueueSpec

(* The ring holds the latest N elements, oldest first: whatever is pushed, *)
(* indexing shows what LatestElements holds.                               *)
THEOREM Refinement == QueueSpec => HoldsLatest
<1>1. QueueInit => Latest!Init
  BY CapacityAssumption DEF QueueInit, Latest!Init, Contents
<1>2. TypeOK /\ [QueueNext]_queueVars => [Latest!Next]_Contents
  <2> SUFFICES ASSUME TypeOK, [QueueNext]_queueVars PROVE [Latest!Next]_Contents
    OBVIOUS
  <2>1. CASE QueueNext
    <3>1. PICK elem \in Elements : Push(elem)
      BY <2>1 DEF QueueNext
    <3> QED BY <3>1, PushAppends DEF Latest!Next, Latest!Push
  <2>2. CASE UNCHANGED queueVars
    BY <2>2 DEF queueVars, Contents, Position, IsFull
  <2> QED BY <2>1, <2>2
<1> QED BY <1>1, <1>2, TypeCorrectness, PTL DEF QueueSpec, HoldsLatest, Latest!Spec

(***************************************************************************)
(* The density of notes                                                    *)
(***************************************************************************)

(* The first and the last element shown are the ones after and at `end`    *)
(* once the array is full, and the ends of its used part before.           *)
LEMMA OldestAndNewest ==
  ASSUME TypeOK', len' >= 1
  PROVE  /\ Contents'[1] = queue'[IF len' < N THEN 0 ELSE IF end' + 1 < N THEN end' + 1 ELSE 0]
         /\ Contents'[len'] = queue'[IF len' < N THEN len' - 1 ELSE end']
<1> USE CapacityAssumption
<1> DEFINE e == end'
           l == len'
           q == queue'
<1>1. Contents' = Shown(q, e, l)
  BY ContentsShown
<1>2. 1 \in 1 .. l /\ l \in 1 .. l /\ l \in 0 .. N /\ e \in 0 .. N - 1
  BY DEF TypeOK
<1> HIDE DEF e, l, q
<1>3. Shown(q, e, l)[1] = q[IF l < N THEN 1 - 1 ELSE IF 1 + e < N THEN 1 + e ELSE 1 + e - N]
  BY <1>2 DEF Shown
<1>4. Shown(q, e, l)[l] = q[IF l < N THEN l - 1 ELSE IF l + e < N THEN l + e ELSE l + e - N]
  BY <1>2 DEF Shown
<1>5. ~(l < N) => ~(l + e < N) /\ l + e - N = e
  BY <1>2
<1>6. 1 + e = e + 1 /\ (~(1 + e < N) => 1 + e - N = 0)
  BY <1>2
<1> QED BY <1>1, <1>3, <1>4, <1>5, <1>6 DEF e, l, q

(* A slice of an array q begins and ends with the elements at its bounds.  *)
SliceOf(q, from, to) == [i \in 1 .. to - from |-> q[from + i - 1]]

LEMMA SliceEnds ==
  ASSUME NEW q, NEW from \in 0 .. N, NEW to \in from .. N
  PROVE  /\ Len(SliceOf(q, from, to)) = to - from
         /\ to = from => SliceOf(q, from, to) = <<>>
         /\ to > from => /\ SliceOf(q, from, to) # <<>>
                        /\ SliceOf(q, from, to)[1] = q[from]
                        /\ SliceOf(q, from, to)[to - from] = q[to - 1]
<1> USE CapacityAssumption
<1>1. to - from \in Nat
  OBVIOUS
<1>2. Len(SliceOf(q, from, to)) = to - from
  BY <1>1 DEF SliceOf
<1> QED BY <1>1, <1>2 DEF SliceOf

(* The density read off the slices after a push is that of the elements    *)
(* shown, as soon as there are two of them, and stays what it was before.  *)
LEMMA SlicesShowDensity ==
  ASSUME TypeOK', len' >= 1
  PROVE  SlicesDensity(AsSlices', len')
           = IF len' < 2 THEN density ELSE <<Contents'[len'] - Contents'[1], len'>>
<1> USE CapacityAssumption
<1> DEFINE e == end'
           l == len'
           q == queue'
           First  == SliceOf(q, e + 1, N)
           Second == SliceOf(q, 0, e + 1)
           Used   == SliceOf(q, 0, l)
<1>1. l \in 1 .. N /\ e \in 0 .. N - 1 /\ (l < 2 <=> l = 1)
  BY DEF TypeOK
<1>2. AsSlices' = IF l = N THEN <<First, Second>> ELSE << <<>>, Used>>
  <2>1. (AsSlices)' = IF len' = N THEN <<Slice(end + 1, N)', Slice(0, end + 1)'>> ELSE << <<>>, Slice(0, len)'>>
    BY DEF AsSlices, IsFull
  <2>2. Slice(end + 1, N)' = First /\ Slice(0, end + 1)' = Second /\ Slice(0, len)' = Used
    BY DEF Slice, SliceOf
  <2> QED BY <2>1, <2>2
<1>3. /\ Contents'[1] = q[IF l < N THEN 0 ELSE IF e + 1 < N THEN e + 1 ELSE 0]
      /\ Contents'[l] = q[IF l < N THEN l - 1 ELSE e]
  BY OldestAndNewest
<1> DEFINE oldest == Contents'[1]
           newest == Contents'[l]
<1> HIDE DEF e, l, q, First, Second, Used, oldest, newest
<1>4. CASE l = N /\ e + 1 < N
  <2>1. e + 1 \in 0 .. N /\ 0 \in 0 .. N /\ N \in e + 1 .. N /\ e + 1 > 0 /\ e + 1 - 0 = e + 1 /\ e + 1 - 1 = e
    BY <1>1
  <2>2. Len(First) = N - (e + 1) /\ First # <<>> /\ First[1] = q[e + 1]
    BY <1>4, <2>1, SliceEnds DEF First
  <2>3. 0 \in 0 .. N /\ e + 1 \in 0 .. N /\ e + 1 > 0
    BY <1>1
  <2>4. Len(Second) = e + 1 /\ Second # <<>> /\ Second[e + 1] = q[e]
    <3>1. ASSUME NEW t \in 0 .. N, t > 0
          PROVE  /\ Len(SliceOf(q, 0, t)) = t /\ SliceOf(q, 0, t) # <<>>
                 /\ SliceOf(q, 0, t)[t] = q[t - 1]
      <4>1. 0 \in 0 .. N /\ t - 0 = t
        OBVIOUS
      <4> QED BY <3>1, <4>1, SliceEnds
    <3>2. e + 1 - 1 = e
      BY <1>1
    <3> QED BY <1>1, <2>3, <3>1, <3>2 DEF Second
  <2>5. Len(First) >= 1 /\ Len(Second) >= 1 /\ Second[Len(Second)] = q[e]
    BY <1>1, <1>4, <2>1, <2>2, <2>4
  <2>6. SlicesDensity(<<First, Second>>, l) = <<q[e] - q[e + 1], l>>
    BY <2>2, <2>4, <2>5 DEF SlicesDensity
  <2>7. oldest = q[e + 1] /\ newest = q[e] /\ ~(l < 2)
    BY <1>1, <1>3, <1>4 DEF oldest, newest
  <2> QED BY <1>2, <1>4, <2>6, <2>7 DEF oldest, newest, l
<1>5. CASE ~(l = N /\ e + 1 < N)
  <2> DEFINE Whole == IF l = N THEN Second ELSE Used
  <2>1. l = N => e + 1 = N /\ e = l - 1
    BY <1>1, <1>5
  <2>2. Whole = SliceOf(q, 0, l)
    BY <2>1 DEF Second, Used
  <2>3. AsSlices' = << <<>>, Whole>>
    <3>1. l = N => First = <<>>
      <4> SUFFICES ASSUME l = N PROVE First = <<>>
        OBVIOUS
      <4>1. e + 1 = N /\ N \in N .. N /\ N \in 0 .. N
        BY <2>1
      <4>2. SliceOf(q, N, N) = <<>>
        BY <4>1, SliceEnds
      <4> QED BY <4>1, <4>2 DEF First
    <3> QED BY <1>2, <3>1
  <2> HIDE DEF Whole
  <2>4. Len(Whole) = l /\ Whole # <<>> /\ Whole[1] = q[0] /\ Whole[l] = q[l - 1]
    <3>1. 0 \in 0 .. N /\ l \in 0 .. N /\ l > 0 /\ l - 0 = l
      BY <1>1
    <3> QED BY <2>2, <3>1, SliceEnds
  <2>5. oldest = q[0] /\ newest = q[l - 1]
    BY <1>1, <1>3, <2>1 DEF oldest, newest
  <2>6. Len(<< >>) = 0
    OBVIOUS
  <2>7. CASE l >= 2
    <3>1. SlicesDensity(<< <<>>, Whole>>, l) = <<q[l - 1] - q[0], l>>
      BY <2>4, <2>6, <2>7 DEF SlicesDensity
    <3> QED BY <1>1, <2>3, <2>5, <2>7, <3>1 DEF oldest, newest, l
  <2>8. CASE l = 1
    <3>1. Len(Whole) = 1
      BY <2>4, <2>8
    <3> HIDE DEF l
    <3>2. ~(Len(<< >>) >= 1) /\ ~(Len(Whole) >= 2) /\ ~(Len(<< >>) >= 2)
      BY <2>6, <3>1
    <3>3. << <<>>, Whole>>[1] = <<>> /\ << <<>>, Whole>>[2] = Whole
      OBVIOUS
    <3>4. SlicesDensity(<< <<>>, Whole>>, l) = density
      BY <3>2, <3>3, Zenon DEF SlicesDensity
    <3> QED BY <1>1, <2>3, <2>8, <3>4 DEF l
  <2> QED BY <1>1, <2>7, <2>8
<1> QED BY <1>4, <1>5

(* The density is that of the latest notes after every note, although it   *)
(* is only read off the slices and left alone when no pattern matches.     *)
THEOREM DensityInvariance == DensitySpec => []DensityOfLatest
<1>1. DensityInit => TypeOK /\ DensityOfLatest
  <2> SUFFICES ASSUME DensityInit PROVE TypeOK /\ DensityOfLatest
    OBVIOUS
  <2>1. N - 1 \in 0 .. N - 1
    BY CapacityAssumption
  <2>2. After(N - 1) = 0
    BY <2>1, NextIndex, CapacityAssumption
  <2>3. TypeOK
    BY <2>1, <2>2, CapacityAssumption, DefaultAssumption DEF DensityInit, QueueInit, TypeOK
  <2> QED BY <2>3 DEF DensityInit, QueueInit, DensityOfLatest
<1>2. TypeOK /\ DensityOfLatest /\ [DensityNext]_densityVars => TypeOK' /\ DensityOfLatest'
  <2> SUFFICES ASSUME TypeOK, DensityOfLatest, [DensityNext]_densityVars
               PROVE  TypeOK' /\ DensityOfLatest'
    OBVIOUS
  <2>1. CASE DensityNext
    <3>1. PICK newNoteTime \in Elements : ComputeDensity(newNoteTime)
      BY <2>1 DEF DensityNext
    <3>2. Push(newNoteTime) /\ density' = SlicesDensity(AsSlices', len')
      BY <3>1 DEF ComputeDensity
    <3>3. TypeOK'
      BY <3>2, PushKeepsTypes
    <3>4. len' >= 1 /\ len' \in Nat /\ len \in Nat /\ (len' < 2 => len < 2)
      BY <3>2, CapacityAssumption DEF TypeOK, Push
    <3>5. SlicesDensity(AsSlices', len')
            = IF len' < 2 THEN density ELSE <<Contents'[len'] - Contents'[1], len'>>
      BY <3>3, <3>4, SlicesShowDensity
    <3> QED BY <3>2, <3>3, <3>4, <3>5 DEF DensityOfLatest
  <2>2. CASE UNCHANGED densityVars
    BY <2>2 DEF densityVars, queueVars, TypeOK, After, DensityOfLatest, Contents, Position, IsFull
  <2> QED BY <2>1, <2>2
<1> QED BY <1>1, <1>2, PTL DEF DensitySpec

(***************************************************************************)
(* The jobs: what is prepared stays, and its answer is the one of its kind.*)
(***************************************************************************)
SortAnswer(j) ==
  [csharp |-> CSharpSort(j.keys, j.depth, j.threshold),
   legacy |-> IF InOrder(j.keys) THEN LegacySort(j.keys, j.depth) ELSE <<>>]
SuspicionAnswer(j) ==
  [i \in 0 .. Len(j.objects) |-> TooSuspicious(j.mode, SubSeq(j.objects, 1, i), j.cs, Limits)]

AnswerInv ==
  /\ job \in Jobs \cup {Conversion}
  /\ Done("sort") => answer = SortAnswer(job)
  /\ Done("suspicion") => answer = SuspicionAnswer(job)

(* Every other job leaves the answers of these two kinds alone.            *)
LEMMA AnswersStay == Spec => []AnswerInv
<1>1. Init => AnswerInv
  BY DEF Init, AnswerInv, Done
<1>2. AnswerInv /\ [Next]_vars => AnswerInv'
  <2> SUFFICES ASSUME AnswerInv, [Next]_vars PROVE AnswerInv'
    OBVIOUS
  <2>1. ASSUME job' = job, job.kind \notin {"sort", "suspicion"} PROVE AnswerInv'
    BY <2>1 DEF AnswerInv, Done
  <2>2. CASE ConvertToMania
    <3>1. job' = job /\ job.kind = "conversion"
      BY <2>2 DEF ConvertToMania, Conversion
    <3> QED BY <2>1, <3>1
  <2>3. CASE SortKeys
    <3>1. job' = job /\ job.kind = "sort" /\ answer' = SortAnswer(job)
      BY <2>3 DEF SortKeys, Prepare, SortAnswer
    <3> QED BY <3>1 DEF AnswerInv, Done
  <2>4. CASE CheckSuspicion
    <3>1. job' = job /\ job.kind = "suspicion" /\ answer' = SuspicionAnswer(job)
      BY <2>4 DEF CheckSuspicion, Prepare, SuspicionAnswer
    <3> QED BY <3>1 DEF AnswerInv, Done
  <2>5. CASE ApplyManiaMods
    BY <2>1, <2>5 DEF ApplyManiaMods, Prepare
  <2>6. CASE PlaceOsuObjects
    BY <2>1, <2>6 DEF PlaceOsuObjects, Prepare
  <2>7. CASE ConvertToTaikoMap
    BY <2>1, <2>7 DEF ConvertToTaikoMap, Prepare
  <2>8. CASE GroupTaikoObjects
    BY <2>1, <2>8 DEF GroupTaikoObjects, Prepare
  <2>9. CASE PlaceCatchObjects
    BY <2>1, <2>9 DEF PlaceCatchObjects, Prepare
  <2>10. CASE CollectStrains
    BY <2>1, <2>10 DEF CollectStrains, Prepare
  <2>11. CASE UNCHANGED vars
    BY <2>11 DEF vars, AnswerInv, Done
  <2> QED BY <2>2, <2>3, <2>4, <2>5, <2>6, <2>7, <2>8, <2>9, <2>10, <2>11 DEF Next
<1> QED BY <1>1, <1>2, PTL DEF Spec

(* Whatever the depth from which they heap and the size below which they   *)
(* insert, the sorts of C# and of osu!mania return what they are handed in *)
(* order: all of it, and nothing else.                                     *)
THEOREM SortsStaySorted == Spec => []SortsSort
<1>1. AnswerInv => SortsSort
  <2> SUFFICES ASSUME AnswerInv, Done("sort") PROVE SortsSort
    BY DEF SortsSort
  <2>1. job \in Jobs /\ job.kind = "sort"
    BY DEF AnswerInv, Done, Conversion
  <2>2. AreTimed(job.keys) /\ job.depth \in Nat /\ job.threshold \in Nat
    BY <2>1, JobsAssumption
  <2>3. job.keys \in Seq(ToSet(job.keys)) /\ \A key \in ToSet(job.keys) : key.time \in Int
    BY <2>2 DEF AreTimed
  <2>4. answer = SortAnswer(job)
    BY DEF AnswerInv
  <2>5. InOrder(answer.csharp) /\ SameElements(answer.csharp, job.keys)
    BY <2>2, <2>3, <2>4, CSharpSortsLists DEF SortAnswer
  <2>6. ASSUME answer.legacy # <<>>
        PROVE  InOrder(answer.legacy) /\ SameElements(answer.legacy, job.keys)
    <3>1. InOrder(job.keys) /\ answer.legacy = LegacySort(job.keys, job.depth)
      BY <2>4, <2>6 DEF SortAnswer
    <3> QED BY <2>2, <2>3, <3>1, LegacySortKeepsLists
  <2> QED BY <2>5, <2>6 DEF SortsSort
<1> QED BY <1>1, AnswersStay, PTL

(***************************************************************************)
(* The check for suspicion                                                 *)
(***************************************************************************)

(* The objects of a map after another one is added to those of s.          *)
IsLonger(s, t) == Len(t) = Len(s) + 1 /\ \A i \in 1 .. Len(s) : t[i] = s[i]
HasTimes(s) == Len(s) \in Nat /\ DOMAIN s = 1 .. Len(s) /\ \A i \in 1 .. Len(s) : s[i].time \in Int

(* No limit on the number of objects or on the length is kept again.       *)
LEMMA LimitsStayExceeded ==
  ASSUME NEW s, NEW t, HasTimes(s), HasTimes(t), IsLonger(s, t), NEW mode,
         \A i, j \in 1 .. Len(t) : i < j => t[i].time <= t[j].time
  PROVE  /\ TooManyObjects(mode, s, Limits) => TooManyObjects(mode, t, Limits)
         /\ TooLong(s, Limits) => TooLong(t, Limits)
<1>1. Limits.objects \in Nat /\ Limits.taikoObjects \in Nat /\ Limits.length \in Nat
  BY LimitsAssumption
<1>2. ASSUME TooManyObjects(mode, s, Limits) PROVE TooManyObjects(mode, t, Limits)
  <2>1. (IF mode = "taiko" THEN Limits.taikoObjects ELSE Limits.objects) \in Nat
    BY <1>1
  <2> QED BY <1>2, <2>1 DEF TooManyObjects, IsLonger, HasTimes
<1>3. ASSUME TooLong(s, Limits) PROVE TooLong(t, Limits)
  <2>1. Len(s) \in Nat /\ Len(s) >= 2 /\ Len(t) = Len(s) + 1
    BY <1>3 DEF TooLong, IsLonger, HasTimes
  <2>2. s[Len(s)].time - s[1].time > Limits.length
    BY <1>3 DEF TooLong
  <2>3. t[1] = s[1] /\ t[Len(s)] = s[Len(s)]
    BY <2>1 DEF IsLonger
  <2>4. t[Len(s)].time <= t[Len(t)].time
    BY <2>1
  <2>5. t[1].time \in Int /\ t[Len(s)].time \in Int /\ t[Len(t)].time \in Int
    BY <2>1 DEF HasTimes
  <2> DEFINE a == t[1].time
             b == t[Len(s)].time
             c == t[Len(t)].time
             limit == Limits.length
  <2>6. a \in Int /\ b \in Int /\ c \in Int /\ limit \in Int /\ b - a > limit /\ b <= c
    BY <1>1, <2>2, <2>3, <2>4, <2>5
  <2> HIDE DEF a, b, c, limit
  <2>7. c - a > limit
    BY <2>6
  <2> QED BY <2>1, <2>7 DEF TooLong, a, c, limit
<1> QED BY <1>2, <1>3

(* Objects that are too dense or a red flag remain so.                     *)
LEMMA DenseStays ==
  ASSUME NEW s, NEW t, HasTimes(s), HasTimes(t), IsLonger(s, t), NEW i \in DOMAIN s,
         NEW hands \in Nat, TooDense(s, i, Limits, hands)
  PROVE  TooDense(t, i, Limits, hands)
<1> DEFINE Follows(list, per, time) ==
             i + per * hands <= Len(list) /\ list[i + per * hands].time - list[i].time < time
<1>1. ASSUME NEW per \in Nat, NEW time, Follows(s, per, time) PROVE Follows(t, per, time)
  <2>1. per * hands \in Nat
    OBVIOUS
  <2> DEFINE at == i + per * hands
  <2> HIDE DEF at
  <2>2. i \in 1 .. Len(s) /\ at \in 1 .. Len(s)
    BY <1>1, <2>1 DEF HasTimes, at
  <2>3. t[i] = s[i] /\ t[at] = s[at] /\ at <= Len(t)
    BY <2>2 DEF IsLonger, HasTimes
  <2> QED BY <1>1, <2>3 DEF at
<1>2. Limits.second \in Nat /\ Limits.tenSeconds \in Nat
  BY LimitsAssumption
<1>3. Follows(s, Limits.second, 1000) \/ Follows(s, Limits.tenSeconds, 10000)
  BY DEF TooDense
<1> HIDE DEF Follows
<1>4. Follows(t, Limits.second, 1000) \/ Follows(t, Limits.tenSeconds, 10000)
  BY <1>1, <1>2, <1>3
<1> QED BY <1>4 DEF TooDense, Follows

(* No slider that is counted is forgotten.                                 *)
LEMMA CountsGrow ==
  ASSUME NEW s, NEW t, HasTimes(s), HasTimes(t), IsLonger(s, t),
         EvalSliders(s, Limits) # NotSuspicious
  PROVE  EvalSliders(t, Limits) # NotSuspicious
<1> DEFINE Far(list) ==
             {i \in DOMAIN list : FarAway(list[i], Limits) /\ ~Repeating(list[i], Limits)}
           Again(list) ==
             {i \in DOMAIN list : Repeating(list[i], Limits) /\ ~FarAway(list[i], Limits)}
<1>1. Far(s) \subseteq Far(t) /\ Again(s) \subseteq Again(t)
  BY DEF IsLonger, HasTimes
<1>2. IsFiniteSet(Far(t)) /\ IsFiniteSet(Again(t))
  <2>1. IsFiniteSet(DOMAIN t)
    BY FS_Interval DEF HasTimes
  <2> QED BY <2>1, FS_Subset
<1> HIDE DEF Far, Again
<1>3. /\ Cardinality(Far(s)) <= Cardinality(Far(t)) /\ Cardinality(Again(s)) <= Cardinality(Again(t))
      /\ IsFiniteSet(Far(s)) /\ IsFiniteSet(Again(s))
  BY <1>1, <1>2, FS_Subset
<1>4. /\ Cardinality(Far(s)) \in Nat /\ Cardinality(Again(s)) \in Nat
      /\ Cardinality(Far(t)) \in Nat /\ Cardinality(Again(t)) \in Nat
  BY <1>2, <1>3, FS_CardinalityType
<1>5. \A list : EvalSliders(list, Limits)
        = IF Cardinality(Far(list)) > Limits.cutoff THEN "SliderPositions"
          ELSE IF Cardinality(Again(list)) > Limits.cutoff THEN "SliderRepeats"
          ELSE NotSuspicious
  BY DEF EvalSliders, Far, Again
<1>6. Limits.cutoff \in Nat
  BY LimitsAssumption
<1>7. Cardinality(Far(s)) > Limits.cutoff \/ Cardinality(Again(s)) > Limits.cutoff
  BY <1>5
<1>8. Cardinality(Far(t)) > Limits.cutoff \/ Cardinality(Again(t)) > Limits.cutoff
  BY <1>3, <1>4, <1>6, <1>7
<1> QED BY <1>5, <1>8 DEF NotSuspicious

LEMMA HandsOfModes == ASSUME NEW mode, NEW cs \in Nat PROVE Hands(mode, cs) \in Nat
<1>1. cs \div 2 \in Nat
  OBVIOUS
<1>2. Greatest(1, cs \div 2) \in Nat
  BY <1>1 DEF Greatest
<1>3. CASE mode = "taiko"
  BY <1>3 DEF Hands
<1>4. CASE mode = "mania"
  BY <1>2, <1>4 DEF Hands
<1>5. CASE mode \notin {"taiko", "mania"}
  BY <1>5 DEF Hands
<1> QED BY <1>3, <1>4, <1>5

(* All checks of a mode, one after the other.                              *)
LEMMA ModesStaySuspicious ==
  ASSUME NEW s, NEW t, HasTimes(s), HasTimes(t), IsLonger(s, t), NEW mode, NEW cs \in Nat,
         CheckMode(mode, s, cs, Limits) # NotSuspicious
  PROVE  CheckMode(mode, t, cs, Limits) # NotSuspicious
<1> DEFINE hands == Hands(mode, cs)
           Dense1(list) == {i \in DOMAIN list : mode # "catch" /\ TooDense(list, i, Limits, hands)}
           Flags(list) == {i \in DOMAIN list : mode \in {"osu", "catch"} /\ RedFlag(list[i], Limits)}
           Dense2(list) == Dense1(list) \cup Flags(list)
<1>1. \A list : CheckMode(mode, list, cs, Limits)
        = IF Dense2(list) # {} THEN IF Min(Dense2(list)) \in Dense1(list) THEN "Density" ELSE "RedFlag"
          ELSE IF mode \in {"osu", "catch"} THEN EvalSliders(list, Limits)
          ELSE NotSuspicious
  BY DEF CheckMode
<1>2. hands \in Nat
  BY HandsOfModes
<1> HIDE DEF hands
<1>3. DOMAIN s \subseteq DOMAIN t /\ \A i \in DOMAIN s : t[i] = s[i]
  BY DEF IsLonger, HasTimes
<1>4. Dense1(s) \subseteq Dense1(t)
  BY <1>2, <1>3, DenseStays
<1>5. Flags(s) \subseteq Flags(t)
  BY <1>3
<1> HIDE DEF Dense1, Flags
<1>6. CASE Dense2(s) # {}
  <2>1. Dense2(t) # {}
    BY <1>4, <1>5, <1>6
  <2> HIDE DEF Dense2
  <2> QED BY <1>1, <2>1 DEF NotSuspicious
<1>7. CASE Dense2(s) = {}
  <2> HIDE DEF Dense2
  <2>1. mode \in {"osu", "catch"} /\ EvalSliders(s, Limits) # NotSuspicious
    BY <1>1, <1>7
  <2>2. EvalSliders(t, Limits) # NotSuspicious
    BY <2>1, CountsGrow
  <2> QED BY <1>1, <2>1, <2>2 DEF NotSuspicious
<1> QED BY <1>6, <1>7

(* Whatever a map was too suspicious for, it is with one more object.      *)
THEOREM SuspicionStays == Spec => []MoreObjectsStaySuspicious
<1>1. AnswerInv => MoreObjectsStaySuspicious
  <2> SUFFICES ASSUME AnswerInv, Done("suspicion"),
                      NEW n \in 1 .. Len(job.objects), answer[n - 1] # NotSuspicious
               PROVE  answer[n] # NotSuspicious
    BY DEF MoreObjectsStaySuspicious
  <2> DEFINE objects == job.objects
             s == SubSeq(objects, 1, n - 1)
             t == SubSeq(objects, 1, n)
             Answer(list) == TooSuspicious(job.mode, list, job.cs, Limits)
  <2>1. job \in Jobs /\ job.kind = "suspicion"
    BY DEF AnswerInv, Done, Conversion
  <2>2. AreTimed(objects) /\ InOrder(objects) /\ job.cs \in Nat
    BY <2>1, JobsAssumption
  <2>3. objects \in Seq(ToSet(objects)) /\ \A key \in ToSet(objects) : key.time \in Int
    BY <2>2 DEF AreTimed
  <2>4. Len(objects) \in Nat /\ \A i \in 1 .. Len(objects) : objects[i].time \in Int
    BY <2>3 DEF ToSet
  <2>5. \A i, j \in 1 .. Len(objects) : i < j => objects[i].time <= objects[j].time
    <3>1. IsTimed(objects, Len(objects), ToSet(objects))
      BY <2>3 DEF IsTimed
    <3>2. Ordered(objects, 1, Len(objects))
      BY <2>2, <3>1, NeighboursAreEnough
    <3> QED BY <3>2 DEF Ordered
  <2>6. answer[n - 1] = Answer(s) /\ answer[n] = Answer(t)
    BY <2>4 DEF AnswerInv, SuspicionAnswer
  <2>7. /\ Len(s) = n - 1 /\ DOMAIN s = 1 .. n - 1 /\ \A i \in 1 .. n - 1 : s[i] = objects[i]
        /\ Len(t) = n /\ DOMAIN t = 1 .. n /\ \A i \in 1 .. n : t[i] = objects[i]
    BY <2>3
  <2> HIDE DEF s, t
  <2>8. IsLonger(s, t) /\ HasTimes(s) /\ HasTimes(t)
    <3>1. n \in Nat /\ n >= 1 /\ n <= Len(objects)
      BY <2>4
    <3> HIDE DEF objects
    <3>2. \A i \in 1 .. n - 1 : t[i] = s[i]
      BY <2>7, <3>1
    <3>3. (\A i \in 1 .. n - 1 : s[i].time \in Int) /\ \A i \in 1 .. n : t[i].time \in Int
      <4>1. \A i \in 1 .. n : i \in 1 .. Len(objects) /\ objects[i].time \in Int
        BY <2>4, <3>1
      <4>2. \A i \in 1 .. n : t[i].time \in Int
        BY <2>7, <4>1
      <4>3. \A i \in 1 .. n - 1 : i \in 1 .. n
        BY <3>1
      <4>4. \A i \in 1 .. n - 1 : s[i].time \in Int
        BY <3>2, <4>2, <4>3
      <4> QED BY <4>2, <4>4
    <3> QED BY <2>7, <3>1, <3>2, <3>3 DEF IsLonger, HasTimes
  <2> HIDE DEF objects
  <2>9. \A i, j \in 1 .. Len(t) : i < j => t[i].time <= t[j].time
    <3>1. n \in Nat /\ n <= Len(objects) /\ Len(objects) \in Nat
      BY <2>4 DEF objects
    <3>2. \A i \in 1 .. n : i \in 1 .. Len(objects) /\ t[i] = objects[i]
      BY <2>7, <3>1
    <3> QED BY <2>5, <2>7, <3>2
  <2>10. TooManyObjects(job.mode, s, Limits) => TooManyObjects(job.mode, t, Limits)
    BY <2>8, <2>9, LimitsStayExceeded
  <2>11. TooLong(s, Limits) => TooLong(t, Limits)
    BY <2>8, <2>9, LimitsStayExceeded
  <2>12. CheckMode(job.mode, s, job.cs, Limits) # NotSuspicious
         => CheckMode(job.mode, t, job.cs, Limits) # NotSuspicious
    BY <2>2, <2>8, ModesStaySuspicious
  <2> QED BY <2>6, <2>10, <2>11, <2>12 DEF TooSuspicious, NotSuspicious
<1> QED BY <1>1, AnswersStay, PTL

(***************************************************************************)
(* Columns of the stage                                                    *)
(***************************************************************************)

(* The numbers of columns that a conversion may choose.                    *)
Keys == 1 .. 10

(* A position of the playfield is in a column of the stage, however far    *)
(* outside it is.                                                          *)
LEMMA ColumnIsOnStage ==
  ASSUME NEW keys \in Nat \ {0}, NEW x \in Int
  PROVE  ColumnAt(x, keys) \in 0 .. keys - 1
<1> DEFINE c == (x * keys) \div 512
<1>1. c \in Int
  <2>1. x * keys \in Int
    OBVIOUS
  <2> QED BY <2>1
<1>2. ColumnAt(x, keys) = Least(Greatest(c, 0), keys - 1)
  BY DEF ColumnAt
<1> HIDE DEF c
<1> QED BY <1>1, <1>2 DEF Least, Greatest

(* With eight columns, it is never in the special first one.               *)
LEMMA ColumnIsUsable ==
  ASSUME NEW keys \in Keys, NEW x \in Int
  PROVE  GetColumn(x, keys) \in Usable(keys)
<1>1. CASE keys = 8
  <2>1. ColumnAt(x, 7) \in 0 .. 7 - 1
    <3>1. 7 \in Nat \ {0}
      OBVIOUS
    <3> QED BY <3>1, ColumnIsOnStage
  <2> QED BY <1>1, <2>1 DEF GetColumn, Usable, RandomStart
<1>2. CASE keys # 8
  <2>1. ColumnAt(x, keys) \in 0 .. keys - 1
    BY ColumnIsOnStage DEF Keys
  <2> QED BY <1>2, <2>1 DEF GetColumn, Usable, RandomStart
<1> QED BY <1>1, <1>2

(* The position that stands for a column is in this column.                *)
LEMMA ColumnOfItsPosition ==
  ASSUME NEW keys \in Keys, NEW c \in 0 .. keys - 1
  PROVE  ColumnAt(ColumnToPos(c, keys), keys) = c
<1> DEFINE x == ColumnToPos(c, keys)
<1>1. x \in Int /\ c * 512 <= x * keys /\ x * keys < c * 512 + keys
  <2>1. keys = 1 \/ keys = 2 \/ keys = 3 \/ keys = 4 \/ keys = 5 \/ keys = 6 \/ keys = 7
        \/ keys = 8 \/ keys = 9 \/ keys = 10
    BY DEF Keys
  <2> QED BY <2>1 DEF ColumnToPos
<1> HIDE DEF x
<1> DEFINE y == x * keys
<1>2. y \in Int /\ c * 512 <= y /\ y < c * 512 + 512
  BY <1>1 DEF Keys
<1>3. ColumnAt(x, keys) = Least(Greatest(y \div 512, 0), keys - 1)
  BY DEF ColumnAt
<1> HIDE DEF y
<1>4. y \div 512 = c
  BY <1>2
<1> QED BY <1>3, <1>4 DEF Least, Greatest, x, Keys

(* The columns that notes may take.                                        *)
LEMMA UsableColumns ==
  ASSUME NEW keys \in Keys
  PROVE  /\ Usable(keys) \subseteq 0 .. keys - 1
         /\ IsFiniteSet(Usable(keys))
         /\ Cardinality(Usable(keys)) = (IF keys = 8 THEN 7 ELSE keys)
         /\ RandomStart(keys) = (IF keys = 8 THEN 1 ELSE 0)
         /\ NoColumn \notin Usable(keys)
<1>1. RandomStart(keys) \in 0 .. 1 /\ keys \in Int
  BY DEF RandomStart, Keys
<1>2. IsFiniteSet(Usable(keys))
      /\ Cardinality(Usable(keys)) = IF RandomStart(keys) > keys - 1 THEN 0 ELSE keys - 1 - RandomStart(keys) + 1
  <2> DEFINE first == RandomStart(keys)
             last == keys - 1
  <2>1. first \in Int /\ last \in Int /\ Usable(keys) = first .. last
    BY <1>1 DEF Usable
  <2> HIDE DEF first, last
  <2>2. IsFiniteSet(first .. last) /\ Cardinality(first .. last) = IF first > last THEN 0 ELSE last - first + 1
    BY <2>1, FS_Interval
  <2> QED BY <2>1, <2>2 DEF first, last
<1>3. RandomStart(keys) = (IF keys = 8 THEN 1 ELSE 0)
  BY DEF RandomStart
<1>4. Cardinality(Usable(keys)) = (IF keys = 8 THEN 7 ELSE keys)
  <2>1. CASE keys = 8
    <3>1. RandomStart(keys) = 1
      BY <1>3, <2>1
    <3> QED BY <1>2, <2>1, <3>1
  <2>2. CASE keys # 8
    <3>1. RandomStart(keys) = 0 /\ keys >= 1 /\ keys \in Int
      BY <1>3, <2>2 DEF Keys
    <3> QED BY <1>2, <2>2, <3>1
  <2> QED BY <2>1, <2>2
<1>5. Usable(keys) \subseteq 0 .. keys - 1 /\ NoColumn \notin Usable(keys)
  BY <1>1 DEF Usable, NoColumn
<1> QED BY <1>2, <1>3, <1>4, <1>5

(* A search among usable columns finds one that is not occupied, if there  *)
(* is one.                                                                 *)
LEMMA FindsFreeColumn ==
  ASSUME NEW columns, NEW occupied, NEW initial, initial \in columns \/ initial \in occupied,
         ~(columns \subseteq occupied), NEW column \in FindAvailable(initial, columns, occupied)
  PROVE  column \in columns /\ column \notin occupied
BY DEF FindAvailable

(* The next column of a gathered pattern, around the stage.                *)
LEMMA GatheredColumn ==
  ASSUME NEW keys \in Keys, NEW column \in Usable(keys), NEW occupied,
         ~(Usable(keys) \subseteq occupied)
  PROVE  NextGathered(column, keys, occupied) \in Usable(keys) \ occupied
<1> DEFINE start == RandomStart(keys)
           width == keys - start
           Onward(k) == start + ((column + k - start) % (keys - start))
           Found == {k \in 1 .. keys : Onward(k) \notin occupied}
           First(k) == Onward(k) \notin occupied /\ \A j \in 1 .. k - 1 : Onward(j) \in occupied
           steps == CHOOSE k \in 1 .. keys : First(k)
<1>1. start \in 0 .. 1 /\ width \in 1 .. 10 /\ keys \in Nat /\ width <= keys
  BY DEF Keys, RandomStart
<1>2. column - start \in 0 .. width - 1
  BY <1>1 DEF Usable
<1>3. \A k \in 1 .. keys : Onward(k) \in Usable(keys)
  <2> SUFFICES ASSUME NEW k \in 1 .. keys PROVE Onward(k) \in Usable(keys)
    OBVIOUS
  <2>1. (column + k - start) % width \in 0 .. width - 1
    <3> DEFINE a == column + k - start
    <3>1. a \in Int
      BY <1>1, <1>2 DEF Usable
    <3> HIDE DEF a, width
    <3>2. a % width \in 0 .. width - 1
      BY <1>1, <3>1
    <3> QED BY <3>2 DEF a
  <2> QED BY <1>1, <2>1 DEF Usable
<1>4. Found # {}
  <2>1. PICK c \in Usable(keys) : c \notin occupied
    OBVIOUS
  <2>2. c - start \in 0 .. width - 1
    BY <1>1 DEF Usable
  <2> DEFINE k == IF c > column THEN c - column ELSE c - column + width
  <2>3. k \in 1 .. keys /\ (column + k - start = c - start \/ column + k - start = 1 * width + (c - start))
    BY <1>1, <1>2, <2>2 DEF Usable
  <2>4. (column + k - start) % width = c - start
    <3> HIDE DEF k, start, width
    <3>1. \A a \in 0 .. width - 1 : a % width = a /\ (1 * width + a) % width = a
      BY <1>1
    <3> QED BY <2>2, <2>3, <3>1
  <2>5. Onward(k) = c
    BY <2>4, <1>1 DEF Usable
  <2> QED BY <2>1, <2>3, <2>5
<1>5. \E k \in 1 .. keys : First(k)
  <2> HIDE DEF After
  <2>1. PICK k \in Found : \A j \in Found : k <= j
    BY <1>1, <1>4, SmallestExists
  <2>2. \A j \in 1 .. k - 1 : j \in 1 .. keys /\ j \notin Found
    BY <1>1, <2>1
  <2>3. First(k)
    BY <2>1, <2>2
  <2> QED BY <2>1, <2>3
<1> HIDE DEF First
<1>6. steps \in 1 .. keys /\ First(steps)
  BY <1>5
<1> HIDE DEF steps
<1>7. NextGathered(column, keys, occupied) = Onward(steps)
  BY DEF NextGathered, steps, First
<1> QED BY <1>3, <1>6, <1>7 DEF First

(***************************************************************************)
(* Rows of columns                                                         *)
(***************************************************************************)
IsRow(row, n, keys, used) ==
  /\ row \in [1 .. n -> Usable(keys)]
  /\ \A i \in 1 .. n : row[i] \notin used
  /\ \A i, j \in 1 .. n : i # j => row[i] # row[j]

(* The columns chosen before the k-th.                                     *)
Chosen(row, k) == {row[j] : j \in 1 .. k - 1}

(* Before the k-th column, at most k - 1 were chosen.                      *)
LEMMA FewerBefore ==
  ASSUME NEW row, NEW k \in Nat \ {0}
  PROVE  /\ IsFiniteSet(Chosen(row, k)) /\ Cardinality(Chosen(row, k)) \in Nat
         /\ Cardinality(Chosen(row, k)) <= k - 1
<1> DEFINE f == [j \in 1 .. k - 1 |-> row[j]]
<1>1. f \in Surjection(1 .. k - 1, Chosen(row, k))
  BY DEF Chosen, Surjection
<1>2. IsFiniteSet(1 .. k - 1) /\ Cardinality(1 .. k - 1) = k - 1
  BY FS_Interval
<1>3. IsFiniteSet(Chosen(row, k)) /\ Cardinality(Chosen(row, k)) <= Cardinality(1 .. k - 1)
  <2> HIDE DEF f
  <2> QED BY <1>1, <1>2, FS_Surjection
<1> QED BY <1>2, <1>3, FS_CardinalityType

(* As long as there are more usable columns than are used or were chosen. *)
LEMMA RoomRemains ==
  ASSUME NEW keys \in Keys, NEW used, IsFiniteSet(used), NEW n \in Nat, NEW k \in 1 .. n, NEW row,
         n + Cardinality(used) <= Cardinality(Usable(keys))
  PROVE  ~(Usable(keys) \subseteq used \cup Chosen(row, k))
<1> SUFFICES ASSUME Usable(keys) \subseteq used \cup Chosen(row, k) PROVE FALSE
  OBVIOUS
<1> DEFINE B == Chosen(row, k)
<1>1. IsFiniteSet(B) /\ Cardinality(B) \in Nat /\ Cardinality(B) <= k - 1
  BY FewerBefore
<1> HIDE DEF B
<1>2. IsFiniteSet(used \cup B)
      /\ Cardinality(used \cup B) = Cardinality(used) + Cardinality(B) - Cardinality(used \cap B)
  BY <1>1, FS_Union
<1>3. Cardinality(used \cap B) \in Nat /\ Cardinality(used) \in Nat
      /\ Cardinality(used \cup B) \in Nat
  BY <1>1, <1>2, FS_Intersection, FS_CardinalityType
<1>4. Cardinality(Usable(keys)) <= Cardinality(used \cup B)
  BY <1>2, FS_Subset DEF B
<1>5. Cardinality(Usable(keys)) \in Nat
  BY UsableColumns, FS_CardinalityType
<1> QED BY <1>1, <1>2, <1>3, <1>4, <1>5

(* Whatever is gathered, the columns of a row are free and differ.         *)
LEMMA RowsFindRoom ==
  ASSUME NEW g, g.total \in Keys, g.x \in Int, NEW used, IsFiniteSet(used), NEW n \in Nat,
         n + Cardinality(used) <= Cardinality(Usable(g.total)), NEW row \in ColumnRows(g, n, used)
  PROVE  IsRow(row, n, g.total, used)
<1> DEFINE keys == g.total
           From(k) == IF k = 1 THEN GetColumn(g.x, keys) ELSE row[k - 1]
           Occupied(k) == used \cup Chosen(row, k)
           In == {k \in 0 .. n : k = 0 \/ (row[k] \in Usable(keys) /\ row[k] \notin Occupied(k))}
<1>1. row \in [1 .. n -> Usable(keys) \cup {NoColumn}]
      /\ \A k \in 1 .. n : row[k] \in NextFree(g, From(k), Occupied(k))
  <2>1. /\ row \in [1 .. n -> Usable(keys) \cup {NoColumn}]
        /\ \A k \in 1 .. n : row[k] \in IF k = 1 THEN NextFree(g, GetColumn(g.x, keys), used)
                                        ELSE NextFree(g, row[k - 1], used \cup Chosen(row, k))
    BY DEF ColumnRows, Chosen
  <2>2. Occupied(1) = used
    <3>1. Chosen(row, 1) = {}
      BY DEF Chosen
    <3> QED BY <3>1
  <2>3. ASSUME NEW k \in 1 .. n PROVE row[k] \in NextFree(g, From(k), Occupied(k))
    <3>1. CASE k = 1
      <4>1. row[k] \in NextFree(g, GetColumn(g.x, keys), used)
        BY <2>1, <3>1
      <4> QED BY <2>2, <3>1, <4>1
    <3>2. CASE k # 1
      <4>1. row[k] \in NextFree(g, row[k - 1], used \cup Chosen(row, k))
        BY <2>1, <3>2
      <4> QED BY <3>2, <4>1
    <3> QED BY <3>1, <3>2
  <2> QED BY <2>1, <2>3
<1>2. 0 \in In
  OBVIOUS
<1>3. ASSUME NEW k \in 1 .. n, k - 1 \in In PROVE k \in In
  <2>1. ~(Usable(keys) \subseteq Occupied(k))
    BY RoomRemains
  <2>2. From(k) \in Usable(keys)
    <3>1. CASE k = 1
      BY <3>1, ColumnIsUsable
    <3>2. CASE k # 1
      BY <1>3, <3>2
    <3> QED BY <3>1, <3>2
  <2>3. row[k] \in NextFree(g, From(k), Occupied(k))
    BY <1>1
  <2> HIDE DEF From, Occupied
  <2>4. CASE "GATHERED" \in g.convert /\ From(k) \in Occupied(k)
    <3>1. row[k] = NextGathered(From(k), keys, Occupied(k))
      BY <2>1, <2>3, <2>4 DEF NextFree
    <3>2. row[k] \in Usable(keys) \ Occupied(k)
      BY <2>1, <2>2, <3>1, GatheredColumn
    <3> QED BY <3>2
  <2>5. CASE ~("GATHERED" \in g.convert /\ From(k) \in Occupied(k))
    <3>1. row[k] \in FindAvailable(From(k), Usable(keys), Occupied(k))
      BY <2>3, <2>5 DEF NextFree
    <3>2. row[k] \in Usable(keys) /\ row[k] \notin Occupied(k)
      BY <2>1, <2>2, <3>1, FindsFreeColumn
    <3> QED BY <3>2
  <2> QED BY <2>4, <2>5
<1>4. \A k \in 0 .. n : k \in In
  <2> HIDE DEF In
  <2> QED BY <1>2, <1>3, IntervalIsReached
<1>5. \A k \in 1 .. n : row[k] \in Usable(keys) /\ row[k] \notin used
                       /\ \A j \in 1 .. k - 1 : row[j] # row[k]
  BY <1>4 DEF Chosen
<1>6. ASSUME NEW i \in 1 .. n, NEW j \in 1 .. n, i # j PROVE row[i] # row[j]
  <2>1. i \in 1 .. j - 1 \/ j \in 1 .. i - 1
    BY <1>6
  <2> QED BY <1>5, <2>1
<1>7. row \in [1 .. n -> Usable(keys)]
  BY <1>1, <1>5
<1> QED BY <1>5, <1>6, <1>7 DEF IsRow

(* The columns of holds differ: those that must not stack find room beside *)
(* the pattern before, the others beside each other.                       *)
LEMMA HoldsFindRoom ==
  ASSUME NEW g, g.total \in Keys, IsFiniteSet(g.prev.columns), NEW n \in Nat, NEW apart \in 0 .. n,
         apart = 0 \/ apart + Cardinality(g.prev.columns) <= Cardinality(Usable(g.total)),
         n <= Cardinality(Usable(g.total)), NEW firsts \in SUBSET Usable(g.total),
         NEW row \in HoldColumns(g, firsts, n, apart)
  PROVE  IsRow(row, n, g.total, {})
<1> DEFINE keys == g.total
           used(k) == IF k <= apart THEN g.prev.columns ELSE {}
           Occupied(k) == used(k) \cup Chosen(row, k)
<1>1. row \in [1 .. n -> Usable(keys) \cup {NoColumn}]
      /\ \A k \in 1 .. n : \E initial \in IF k = 1 THEN firsts ELSE {row[k - 1]} :
           row[k] \in FindFree(g, initial, Occupied(k))
  BY DEF HoldColumns, Chosen
<1>2. ASSUME NEW k \in 1 .. n PROVE row[k] \in Usable(keys) /\ row[k] \notin Occupied(k)
  <2>1. ~(Usable(keys) \subseteq Occupied(k))
    <3>1. CASE k <= apart
      <4>1. k \in 1 .. apart /\ apart \in Nat /\ apart + Cardinality(g.prev.columns) <= Cardinality(Usable(keys))
        BY <3>1
      <4>2. ~(Usable(keys) \subseteq g.prev.columns \cup Chosen(row, k))
        BY <4>1, RoomRemains
      <4> QED BY <3>1, <4>2
    <3>2. CASE ~(k <= apart)
      <4>1. n + Cardinality({}) <= Cardinality(Usable(keys)) /\ IsFiniteSet({})
        BY FS_EmptySet
      <4>2. ~(Usable(keys) \subseteq {} \cup Chosen(row, k))
        BY <4>1, RoomRemains
      <4> QED BY <3>2, <4>2
    <3> QED BY <3>1, <3>2
  <2>2. PICK initial \in IF k = 1 THEN firsts ELSE {row[k - 1]} :
          row[k] \in FindAvailable(initial, Usable(keys), Occupied(k))
    BY <1>1 DEF FindFree
  <2>3. initial \in Usable(keys) \/ initial \in Occupied(k)
    <3>1. CASE k = 1
      BY <2>2, <3>1
    <3>2. CASE k # 1
      BY <2>2, <3>2 DEF Chosen
    <3> QED BY <3>1, <3>2
  <2> HIDE DEF Occupied
  <2> QED BY <2>1, <2>2, <2>3, FindsFreeColumn
<1>3. \A k \in 1 .. n : row[k] \in Usable(keys) /\ \A j \in 1 .. k - 1 : row[j] # row[k]
  BY <1>2 DEF Chosen
<1>4. ASSUME NEW i \in 1 .. n, NEW j \in 1 .. n, i # j PROVE row[i] # row[j]
  <2>1. i \in 1 .. j - 1 \/ j \in 1 .. i - 1
    BY <1>4
  <2> QED BY <1>3, <2>1
<1>5. row \in [1 .. n -> Usable(keys)]
  BY <1>1, <1>3
<1> QED BY <1>3, <1>4, <1>5 DEF IsRow

(***************************************************************************)
(* Patterns of circles                                                     *)
(***************************************************************************)

(* What later objects look at: columns of the stage, not all of the usable *)
(* ones of eight, and a single one if it is said to be.                    *)
SeenOnStage(seen, keys) ==
  /\ seen.columns \subseteq 0 .. keys - 1
  /\ seen.single => \E c \in Usable(keys) : seen.columns = {c}
  /\ keys = 8 => Cardinality(seen.columns) <= 6

(* Different columns, of which the special one is never on its own.        *)
OnStage(columns, n, keys) ==
  /\ columns \in [1 .. n -> 0 .. keys - 1]
  /\ \A i, j \in 1 .. n : i # j => columns[i] # columns[j]
  /\ keys = 8 => n <= 6 /\ (n = 1 => columns[1] \in Usable(keys))

(* None of the columns that notes may take is one of those used.           *)
Avoids(columns, n, keys, used) ==
  \A i \in 1 .. n : columns[i] \in Usable(keys) => columns[i] \notin used

(* What is seen of the last pattern never covers the stage of eight        *)
(* columns.                                                                *)
LEMMA SeenIsFinite ==
  ASSUME NEW keys \in Keys, NEW seen, SeenOnStage(seen, keys)
  PROVE  /\ IsFiniteSet(seen.columns) /\ Cardinality(seen.columns) \in Nat
         /\ Cardinality(seen.columns) <= Cardinality(Usable(keys))
         /\ keys = 8 => Cardinality(seen.columns) <= 6
<1>1. IsFiniteSet(0 .. keys - 1) /\ Cardinality(0 .. keys - 1) = keys
  BY FS_Interval DEF Keys
<1>2. /\ IsFiniteSet(seen.columns) /\ Cardinality(seen.columns) \in Nat
      /\ Cardinality(seen.columns) <= keys
  BY <1>1, FS_Subset, FS_CardinalityType DEF SeenOnStage
<1> QED BY <1>2, UsableColumns DEF SeenOnStage, Keys

(* No count is chosen whose probability, and that of higher ones, is zero. *)
LEMMA CountsAreBounded ==
  ASSUME NEW p2 \in Int, NEW p3 \in Int, NEW p4 \in Int, NEW p5 \in Int,
         NEW n \in NoteCounts(p2, p3, p4, p5)
  PROVE  /\ n \in 1 .. 5
         /\ p5 = 0 => n <= 4
         /\ p4 = 0 /\ p5 = 0 => n <= 3
         /\ p3 = 0 /\ p4 = 0 /\ p5 = 0 => n <= 2
         /\ p2 = 0 /\ p3 = 0 /\ p4 = 0 /\ p5 = 0 => n = 1
<1> DEFINE p == <<1000, p2, p3, p4, p5, 0>>
<1>1. n \in 1 .. 5 /\ \A m \in n + 1 .. 6 : p[m] < p[n]
  BY DEF NoteCounts
<1>2. p[2] = p2 /\ p[3] = p3 /\ p[4] = p4 /\ p[5] = p5 /\ p[6] = 0
  OBVIOUS
<1> HIDE DEF p
<1>3. (n = 5 => p[6] < p[5]) /\ (n = 4 => p[5] < p[4]) /\ (n = 3 => p[4] < p[3]) /\ (n = 2 => p[3] < p[2])
  BY <1>1
<1> QED BY <1>1, <1>2, <1>3

(* A finite set in any sequence: each of its elements once.                *)
LEMMA SetInSequence ==
  ASSUME NEW S, IsFiniteSet(S)
  PROVE  /\ SetToSeq(S) \in [1 .. Cardinality(S) -> S]
         /\ \A i, j \in 1 .. Cardinality(S) : i # j => SetToSeq(S)[i] # SetToSeq(S)[j]
<1>1. ExistsBijection(1 .. Cardinality(S), S)
  BY FS_CardinalityType
<1>2. PICK f : f \in [1 .. Cardinality(S) -> S] /\ IsInjective(f)
  BY <1>1 DEF ExistsBijection, Bijection, Injection, IsInjective
<1>3. SetToSeq(S) \in [1 .. Cardinality(S) -> S] /\ IsInjective(SetToSeq(S))
  BY <1>2 DEF SetToSeq
<1> QED BY <1>3 DEF IsInjective

(* At most three notes, of at most as many as there are columns.           *)
LEMMA CircleCountsFit ==
  ASSUME NEW g, g.total \in 2 .. 10, NEW p2 \in Nat, NEW p3 \in Nat,
         NEW n \in CircleCounts(g, p2, p3, 0, 0)
  PROVE  n \in 1 .. 3 /\ (g.total \in {2, 3} => n <= 2)
<1> DEFINE keys == g.total
           q2 == CASE keys = 2 -> 0
                   [] keys = 3 -> Least(p2, 100)
                   [] keys = 4 -> Least(p2, 230)
                   [] OTHER     -> p2
           q3 == CASE keys \in {2, 3} -> 0
                   [] keys = 4 -> Least(p3, 40)
                   [] keys = 5 -> Least(p3, 150)
                   [] OTHER     -> p3
           q4 == CASE keys \in 2 .. 4 -> 0
                   [] keys = 5 -> Least(0, 30)
                   [] OTHER     -> 0
           q5 == IF keys \in 2 .. 5 THEN 0 ELSE 0
           first == IF "CLAP" \in g.sounds THEN 1000 ELSE q2
<1>1. n \in NoteCounts(first, q3, q4, q5)
  BY DEF CircleCounts
<1>2. q2 \in Int
  BY DEF Least
<1>3. q3 \in Int /\ (keys \in {2, 3} => q3 = 0)
  BY DEF Least
<1>4. q4 = 0 /\ q5 = 0 /\ first \in Int
  BY <1>2 DEF Least
<1> HIDE DEF q2, q3, q4, q5, first
<1> QED BY <1>1, <1>2, <1>3, <1>4, CountsAreBounded

(* A circle's generator g, with the pattern before it on the stage.        *)
IsCircle(g) ==
  /\ g.total \in 2 .. 10 /\ g.x \in Int /\ g.diff \in Int
  /\ SeenOnStage(g.prev, g.total)
  /\ g.total = 8 => "MIRROR" \notin g.convert

(* The columns that must be kept free of the notes of a circle.            *)
Taken(g) == IF "FORCE_NOT_STACK" \in g.convert THEN g.prev.columns ELSE {}

(* Random notes are on the stage, away from those before if they must not  *)
(* stack; there is at least one, if there is room for one.                 *)
LEMMA RandomNotesFit ==
  ASSUME NEW g, IsCircle(g), NEW count \in 1 .. 5,
         "FORCE_NOT_STACK" \in g.convert \/ count <= Cardinality(Usable(g.total)),
         NEW columns \in RandomNotes(g, count)
  PROVE  \E n \in 0 .. 5 : /\ IsRow(columns, n, g.total, Taken(g))
                           /\ g.total = 8 => n >= 1
<1> DEFINE keys == g.total
           apart == "FORCE_NOT_STACK" \in g.convert
           free == Cardinality(Usable(keys)) - Cardinality(g.prev.columns)
           n == IF apart THEN Greatest(Least(free, count), 0) ELSE count
<1>1. keys \in Keys /\ SeenOnStage(g.prev, keys) /\ g.x \in Int
  BY DEF IsCircle, Keys
<1>2. /\ IsFiniteSet(g.prev.columns) /\ Cardinality(g.prev.columns) \in Nat
      /\ Cardinality(g.prev.columns) <= Cardinality(Usable(keys))
      /\ keys = 8 => Cardinality(g.prev.columns) <= 6
  BY <1>1, SeenIsFinite
<1>3. Cardinality(Usable(keys)) \in Nat /\ (keys = 8 => Cardinality(Usable(keys)) = 7)
  BY <1>1, UsableColumns DEF Keys
<1>4. columns \in ColumnRows(g, n, Taken(g))
  BY DEF RandomNotes, Taken
<1>5. free \in Nat /\ (keys = 8 => free >= 1)
  BY <1>2, <1>3
<1> HIDE DEF free
<1>6. n \in 0 .. 5 /\ (keys = 8 => n >= 1) /\ (apart => n <= free)
  BY <1>5 DEF Least, Greatest
<1>7. IsFiniteSet(Taken(g)) /\ n + Cardinality(Taken(g)) <= Cardinality(Usable(keys))
  <2>1. CASE apart
    <3>1. Taken(g) = g.prev.columns /\ n <= free
      BY <1>6, <2>1 DEF Taken
    <3> HIDE DEF n
    <3> QED BY <1>2, <1>3, <1>5, <1>6, <3>1 DEF free
  <2>2. CASE ~apart
    <3>1. Taken(g) = {} /\ IsFiniteSet({}) /\ Cardinality({}) = 0 /\ n = count
      BY <2>2, FS_EmptySet DEF Taken
    <3> QED BY <1>3, <2>2, <3>1
  <2> QED BY <2>1, <2>2
<1> HIDE DEF n
<1>8. IsRow(columns, n, keys, Taken(g))
  BY <1>1, <1>4, <1>6, <1>7, RowsFindRoom
<1> QED BY <1>6, <1>8

(* Columns found one after the other are different ones of the stage.      *)
LEMMA RowIsOnStage ==
  ASSUME NEW keys \in Keys, NEW n \in 0 .. 6, NEW used, NEW columns, IsRow(columns, n, keys, used)
  PROVE  OnStage(columns, n, keys) /\ Avoids(columns, n, keys, used)
<1>1. Usable(keys) \subseteq 0 .. keys - 1
  BY UsableColumns
<1> QED BY <1>1 DEF IsRow, OnStage, Avoids

(* The special column is not usable: no note of a row is on it.            *)
LEMMA SpecialFits ==
  ASSUME NEW g, g.total \in Keys, NEW n \in 0 .. 5, g.total = 8 => n >= 1, NEW used,
         NEW columns, IsRow(columns, n, g.total, used)
  PROVE  \E m \in 0 .. 6 : /\ OnStage(WithSpecial(g, columns), m, g.total)
                           /\ Avoids(WithSpecial(g, columns), m, g.total, used)
<1> DEFINE keys == g.total
<1>1. CASE ~HasSpecialColumn(g)
  <2>1. WithSpecial(g, columns) = columns
    BY <1>1 DEF WithSpecial
  <2> QED BY <2>1, RowIsOnStage
<1>2. CASE HasSpecialColumn(g)
  <2> DEFINE all == Append(columns, 0)
  <2>1. keys = 8 /\ WithSpecial(g, columns) = all
    BY <1>2 DEF HasSpecialColumn, RandomStart, WithSpecial
  <2>2. Usable(keys) = 1 .. 7
    BY <2>1 DEF Usable, RandomStart
  <2>3. /\ columns \in [1 .. n -> 1 .. 7] /\ \A i, j \in 1 .. n : i # j => columns[i] # columns[j]
        /\ \A i \in 1 .. n : columns[i] \notin used
    BY <2>2 DEF IsRow
  <2>4. columns \in Seq(1 .. 7) /\ Len(columns) = n
    BY <2>3
  <2>5. all \in [1 .. n + 1 -> 0 .. 7] /\ all[n + 1] = 0 /\ \A i \in 1 .. n : all[i] = columns[i]
    <3>1. columns \in Seq(0 .. 7) /\ 0 \in 0 .. 7
      BY <2>4
    <3>2. /\ all \in Seq(0 .. 7) /\ Len(all) = Len(columns) + 1 /\ all[Len(columns) + 1] = 0
          /\ \A i \in 1 .. Len(columns) : all[i] = columns[i]
      BY <3>1, AppendProperties
    <3> HIDE DEF all
    <3> QED BY <2>4, <3>2
  <2> HIDE DEF all
  <2>6. \A i \in 1 .. n + 1 : i = n + 1 \/ (i \in 1 .. n /\ all[i] \in 1 .. 7)
    BY <2>3, <2>5
  <2>7. n + 1 \in 0 .. 6 /\ n + 1 # 1
    BY <2>1
  <2>8. \A i, j \in 1 .. n + 1 : i # j => all[i] # all[j]
    BY <2>3, <2>5, <2>6
  <2>9. OnStage(all, n + 1, keys)
    BY <2>1, <2>5, <2>7, <2>8 DEF OnStage
  <2>10. Avoids(all, n + 1, keys, used)
    BY <2>2, <2>3, <2>5, <2>6 DEF Avoids
  <2> QED BY <2>1, <2>7, <2>9, <2>10
<1> QED BY <1>1, <1>2

(* What the counts that were drawn make of these notes.                    *)
LEMMA RandomPatternFits ==
  ASSUME NEW g, IsCircle(g), NEW p2 \in Nat, NEW p3 \in Nat, NEW p4 \in Nat, NEW p5 \in Nat,
         "FORCE_NOT_STACK" \in g.convert \/ (p4 = 0 /\ p5 = 0),
         NEW columns \in RandomPattern(g, p2, p3, p4, p5)
  PROVE  \E m \in 0 .. 6 : OnStage(columns, m, g.total) /\ Avoids(columns, m, g.total, Taken(g))
<1>1. PICK count \in CircleCounts(g, p2, p3, p4, p5) :
        \E row \in RandomNotes(g, count) : columns = WithSpecial(g, row)
  BY DEF RandomPattern
<1>2. PICK row \in RandomNotes(g, count) : columns = WithSpecial(g, row)
  BY <1>1
<1>3. count \in 1 .. 5
  BY DEF CircleCounts, NoteCounts
<1>4. g.total \in 2 .. 10 /\ g.total \in Keys
  BY DEF IsCircle, Keys
<1>5. "FORCE_NOT_STACK" \in g.convert \/ count <= Cardinality(Usable(g.total))
  <2>1. CASE "FORCE_NOT_STACK" \notin g.convert
    <3>1. count \in CircleCounts(g, p2, p3, 0, 0)
      BY <2>1
    <3>2. count \in 1 .. 3 /\ (g.total \in {2, 3} => count <= 2)
      BY <1>4, <3>1, CircleCountsFit
    <3> QED BY <1>4, <3>2, UsableColumns
  <2> QED BY <2>1
<1>6. PICK n \in 0 .. 5 : IsRow(row, n, g.total, Taken(g)) /\ (g.total = 8 => n >= 1)
  BY <1>2, <1>3, <1>5, RandomNotesFit
<1> QED BY <1>2, <1>4, <1>6, SpecialFits

(* The columns of one half and their mirror images.                        *)
MirroredHalves(row, keys) == row \o [k \in DOMAIN row |-> keys - row[k] - 1]

(* A mirrored pattern has at most as many columns on a side as there are.  *)
LEMMA MirroredCountsFit ==
  ASSUME NEW keys \in 2 .. 10, NEW p2 \in Nat, NEW p3 \in Nat, NEW n \in MirroredCounts(keys, p2, p3)
  PROVE  n \in 1 .. 3 /\ n <= keys \div 2
<1> DEFINE q2 == CASE keys \in {2, 3} -> 0
                   [] keys = 4 -> DoubledInverse(p2, 800)
                   [] keys = 6 -> DoubledInverse(p2, 50)
                   [] OTHER     -> p2
           q3 == CASE keys \in 2 .. 5 -> 0
                   [] keys = 6 -> DoubledInverse(p3, 850)
                   [] OTHER     -> p3
<1>1. n \in NoteCounts(q2, q3, 0, 0)
  BY DEF MirroredCounts
<1>2. q2 \in Int /\ (keys \in {2, 3} => q2 = 0)
  BY DEF DoubledInverse, Greatest
<1>3. q3 \in Int /\ (keys \in 2 .. 5 => q3 = 0)
  BY DEF DoubledInverse, Greatest
<1> HIDE DEF q2, q3
<1>4. n \in 1 .. 3 /\ (keys \in 2 .. 5 => n <= 2) /\ (keys \in {2, 3} => n = 1)
  BY <1>1, <1>2, <1>3, CountsAreBounded
<1>5. keys \div 2 >= 1 /\ (keys >= 4 => keys \div 2 >= 2) /\ (keys >= 6 => keys \div 2 >= 3)
  OBVIOUS
<1> QED BY <1>4, <1>5

(* Columns of one half of the stage, each searched for where none is yet.  *)
AreHalves(row, n, keys) ==
  /\ row \in [1 .. n -> (0 .. keys \div 2 - 1) \cup {NoColumn}]
  /\ row[1] \in 0 .. keys \div 2 - 1
  /\ \A k \in 2 .. n :
       row[k] \in FindAvailable(row[k - 1], 0 .. keys \div 2 - 1,
                                UNION {{row[j], keys - row[j] - 1} : j \in 1 .. k - 1})

(* The search for them in one half of the stage finds each.                *)
LEMMA HalvesFindRoom ==
  ASSUME NEW keys \in 2 .. 10, NEW n \in 1 .. 3, n <= keys \div 2, NEW row, AreHalves(row, n, keys)
  PROVE  /\ row \in [1 .. n -> 0 .. keys \div 2 - 1]
         /\ \A i, j \in 1 .. n : i # j => row[i] # row[j]
<1> DEFINE middle == keys \div 2
           half == 0 .. middle - 1
           Occupied(k) == UNION {{row[j], keys - row[j] - 1} : j \in 1 .. k - 1}
           In == {k \in 0 .. n : \A i \in 1 .. k : row[i] \in half /\ row[i] \notin Chosen(row, i)}
<1>1. middle \in Nat /\ 2 * middle <= keys /\ n <= middle
  OBVIOUS
<1> HIDE DEF middle
<1>2. IsFiniteSet(half) /\ Cardinality(half) = middle
  <2> DEFINE upper == middle - 1
  <2>1. 0 \in Int /\ upper \in Int
    BY <1>1
  <2> HIDE DEF upper
  <2>2. IsFiniteSet(0 .. upper) /\ Cardinality(0 .. upper) = IF 0 > upper THEN 0 ELSE upper - 0 + 1
    BY <2>1, FS_Interval
  <2> QED BY <1>1, <2>1, <2>2 DEF upper
<1>3. 0 \in In
  OBVIOUS
<1>4. ASSUME NEW k \in 1 .. n, k - 1 \in In PROVE k \in In
  <2>1. \A i \in 1 .. k - 1 : row[i] \in half /\ row[i] \notin Chosen(row, i)
    BY <1>4
  <2>2. row[k] \in half /\ row[k] \notin Chosen(row, k)
    <3>1. CASE k = 1
      BY <3>1 DEF Chosen, middle, AreHalves
    <3>2. CASE k # 1
      <4>1. k \in 2 .. n /\ k \in Nat \ {0}
        BY <3>2
      <4>2. row[k] \in FindAvailable(row[k - 1], half, Occupied(k))
        BY <4>1 DEF middle, AreHalves
      <4>3. row[k - 1] \in half
        BY <2>1, <4>1
      <4>4. half \cap Occupied(k) \subseteq Chosen(row, k)
        <5> SUFFICES ASSUME NEW j \in 1 .. k - 1 PROVE keys - row[j] - 1 \notin half
          BY DEF Chosen
        <5>1. row[j] \in half
          BY <2>1
        <5> QED BY <1>1, <5>1
      <4>5. ~(half \subseteq Occupied(k))
        <5> SUFFICES ASSUME half \subseteq Occupied(k) PROVE FALSE
          OBVIOUS
        <5>1. half \subseteq Chosen(row, k)
          BY <4>4
        <5>2. IsFiniteSet(Chosen(row, k)) /\ Cardinality(Chosen(row, k)) \in Nat
              /\ Cardinality(Chosen(row, k)) <= k - 1
          BY <4>1, FewerBefore
        <5>3. Cardinality(half) <= Cardinality(Chosen(row, k))
          BY <5>1, <5>2, FS_Subset
        <5> QED BY <1>1, <1>2, <5>2, <5>3
      <4>6. Chosen(row, k) \subseteq Occupied(k)
        BY DEF Chosen
      <4>7. row[k] \in half /\ row[k] \notin Occupied(k)
        <5>1. PICK initial : initial = row[k - 1]
          OBVIOUS
        <5> HIDE DEF half, Occupied
        <5>2. initial \in half /\ row[k] \in FindAvailable(initial, half, Occupied(k))
          BY <4>2, <4>3, <5>1
        <5> QED BY <4>5, <5>2, FindsFreeColumn
      <4> QED BY <4>6, <4>7
    <3> QED BY <3>1, <3>2
  <2>3. \A i \in 1 .. k : i = k \/ i \in 1 .. k - 1
    OBVIOUS
  <2> QED BY <2>1, <2>2, <2>3
<1>5. \A k \in 0 .. n : k \in In
  <2> HIDE DEF In
  <2> QED BY <1>3, <1>4, IntervalIsReached
<1>6. \A k \in 1 .. n : row[k] \in half /\ \A j \in 1 .. k - 1 : row[j] # row[k]
  BY <1>5 DEF Chosen
<1>7. ASSUME NEW i \in 1 .. n, NEW j \in 1 .. n, i # j PROVE row[i] # row[j]
  <2>1. i \in 1 .. j - 1 \/ j \in 1 .. i - 1
    BY <1>7
  <2> QED BY <1>6, <2>1
<1>8. row \in [1 .. n -> half]
  BY <1>6 DEF AreHalves
<1> QED BY <1>7, <1>8 DEF middle

(* The halves do not touch, and the centre of an odd stage is in neither.  *)
LEMMA HalvesDiffer ==
  ASSUME NEW keys \in 2 .. 10, keys # 8, NEW n \in 1 .. 3, NEW row,
         row \in [1 .. n -> 0 .. keys \div 2 - 1],
         \A i, j \in 1 .. n : i # j => row[i] # row[j]
  PROVE  /\ OnStage(MirroredHalves(row, keys), 2 * n, keys)
         /\ keys % 2 # 0
              => OnStage(Append(MirroredHalves(row, keys), keys \div 2), 2 * n + 1, keys)
<1> DEFINE middle == keys \div 2
           mirror == [k \in DOMAIN row |-> keys - row[k] - 1]
           all == MirroredHalves(row, keys)
           more == Append(all, middle)
<1>1. middle \in Nat /\ 2 * middle <= keys /\ keys <= 2 * middle + 1 /\ (keys % 2 # 0 => keys = 2 * middle + 1)
  OBVIOUS
<1>2. row \in [1 .. n -> 0 .. middle - 1]
  OBVIOUS
<1> HIDE DEF middle
<1>3. /\ \A k \in 1 .. n : row[k] \in 0 .. middle - 1 /\ row[k] \in 0 .. keys - 1
      /\ \A k \in 1 .. n : mirror[k] = keys - row[k] - 1 /\ mirror[k] \in keys - middle .. keys - 1
  <2>1. \A k \in 1 .. n : row[k] \in 0 .. middle - 1
    BY <1>2
  <2>2. \A k \in 1 .. n : mirror[k] = keys - row[k] - 1
    BY <1>2
  <2>3. \A c \in 0 .. middle - 1 : c \in 0 .. keys - 1 /\ keys - c - 1 \in keys - middle .. keys - 1
    BY <1>1
  <2> HIDE DEF mirror
  <2> QED BY <2>1, <2>2, <2>3
<1>4. row \in Seq(0 .. keys - 1) /\ mirror \in Seq(0 .. keys - 1) /\ Len(row) = n /\ Len(mirror) = n
  <2>1. mirror = [k \in 1 .. n |-> keys - row[k] - 1]
    BY <1>2
  <2> HIDE DEF mirror
  <2>2. \A k \in 1 .. n : row[k] \in 0 .. keys - 1 /\ keys - row[k] - 1 \in 0 .. keys - 1
    BY <1>3
  <2>3. mirror \in [1 .. n -> 0 .. keys - 1]
    BY <2>1, <2>2
  <2>4. row \in [1 .. n -> 0 .. keys - 1]
    BY <1>2, <2>2
  <2> QED BY <2>3, <2>4
<1> HIDE DEF mirror
<1>5. /\ all \in Seq(0 .. keys - 1) /\ Len(all) = n + n
      /\ \A i \in 1 .. 2 * n : all[i] = IF i <= n THEN row[i] ELSE mirror[i - n]
  <2>1. all = row \o mirror
    BY DEF MirroredHalves, mirror
  <2>2. row \o mirror \in Seq(0 .. keys - 1) /\ Len(row \o mirror) = Len(row) + Len(mirror)
        /\ \A i \in 1 .. Len(row) + Len(mirror) :
             (row \o mirror)[i] = IF i <= Len(row) THEN row[i] ELSE mirror[i - Len(row)]
    BY <1>4, ConcatProperties
  <2>3. Len(row) + Len(mirror) = n + n /\ Len(row) = n /\ n + n = 2 * n
    BY <1>4
  <2> HIDE DEF all
  <2> QED BY <2>1, <2>2, <2>3
<1> HIDE DEF all
<1>6. \A i \in 1 .. 2 * n :
        \/ i \in 1 .. n /\ all[i] = row[i]
        \/ i - n \in 1 .. n /\ ~(i <= n) /\ all[i] = keys - row[i - n] - 1
  <2> SUFFICES ASSUME NEW i \in 1 .. 2 * n
               PROVE  \/ i \in 1 .. n /\ all[i] = row[i]
                      \/ i - n \in 1 .. n /\ ~(i <= n) /\ all[i] = keys - row[i - n] - 1
    OBVIOUS
  <2>1. CASE i <= n
    BY <1>5, <2>1
  <2>2. CASE ~(i <= n)
    <3>1. i - n \in 1 .. n
      BY <2>2
    <3>2. mirror[i - n] = keys - row[i - n] - 1
      BY <1>3, <3>1
    <3> QED BY <1>5, <2>2, <3>1, <3>2
  <2> QED BY <2>1, <2>2
<1>7. ASSUME NEW i \in 1 .. 2 * n, NEW j \in 1 .. 2 * n, i # j PROVE all[i] # all[j]
  <2>1. CASE i \in 1 .. n /\ j \in 1 .. n /\ all[i] = row[i] /\ all[j] = row[j]
    BY <1>7, <2>1
  <2>0. \A a, b \in 0 .. middle - 1 : a # keys - b - 1
    BY <1>1
  <2>2. CASE i \in 1 .. n /\ j - n \in 1 .. n /\ all[i] = row[i] /\ all[j] = keys - row[j - n] - 1
    <3>1. row[i] \in 0 .. middle - 1 /\ row[j - n] \in 0 .. middle - 1
      BY <1>3, <2>2
    <3> QED BY <2>0, <2>2, <3>1
  <2>3. CASE j \in 1 .. n /\ i - n \in 1 .. n /\ all[j] = row[j] /\ all[i] = keys - row[i - n] - 1
    <3>1. row[j] \in 0 .. middle - 1 /\ row[i - n] \in 0 .. middle - 1
      BY <1>3, <2>3
    <3> QED BY <2>0, <2>3, <3>1
  <2>4. CASE i - n \in 1 .. n /\ j - n \in 1 .. n /\ all[i] = keys - row[i - n] - 1
             /\ all[j] = keys - row[j - n] - 1
    <3>1. row[i - n] # row[j - n] /\ row[i - n] \in Int /\ row[j - n] \in Int
      BY <1>3, <1>7, <2>4
    <3> QED BY <2>4, <3>1
  <2> QED BY <1>6, <2>1, <2>2, <2>3, <2>4
<1>8. all \in [1 .. 2 * n -> 0 .. keys - 1]
  BY <1>5
<1>9. OnStage(all, 2 * n, keys)
  BY <1>7, <1>8 DEF OnStage
<1>10. ASSUME keys % 2 # 0 PROVE OnStage(more, 2 * n + 1, keys)
  <2>1. keys = 2 * middle + 1 /\ middle \in 0 .. keys - 1
    BY <1>1, <1>10
  <2>2. /\ more \in Seq(0 .. keys - 1) /\ Len(more) = Len(all) + 1 /\ more[Len(all) + 1] = middle
        /\ \A i \in 1 .. Len(all) : more[i] = all[i]
    BY <1>5, <2>1, AppendProperties
  <2> HIDE DEF more
  <2>3. more \in [1 .. 2 * n + 1 -> 0 .. keys - 1] /\ more[2 * n + 1] = middle
        /\ \A i \in 1 .. 2 * n : more[i] = all[i]
    <3>1. Len(all) = 2 * n
      BY <1>5
    <3>2. more \in [1 .. Len(more) -> 0 .. keys - 1]
      BY <2>2
    <3> QED BY <2>2, <3>1, <3>2
  <2>4. \A i \in 1 .. 2 * n : all[i] # middle
    BY <1>1, <1>3, <1>6, <2>1
  <2>5. \A i \in 1 .. 2 * n + 1 : i = 2 * n + 1 \/ i \in 1 .. 2 * n
    OBVIOUS
  <2>6. \A i, j \in 1 .. 2 * n + 1 : i # j => more[i] # more[j]
    BY <1>7, <2>3, <2>4, <2>5
  <2> QED BY <2>3, <2>6 DEF OnStage
<1> QED BY <1>9, <1>10 DEF all, more, middle

(* A mirrored pattern, with the special column on or without it, has no    *)
(* column twice.                                                           *)
LEMMA MirroredPatternFits ==
  ASSUME NEW g, IsCircle(g), g.total # 8, NEW p2 \in Nat, NEW p3 \in Nat,
         NEW columns \in RandomPatternWithMirrored(g, p2, p3)
  PROVE  \E m \in Nat : OnStage(columns, m, g.total) /\ Avoids(columns, m, g.total, Taken(g))
<1> DEFINE keys == g.total
           half == RandomStart(keys) .. keys \div 2 - 1
           Mirror(column) == RandomStart(keys) + keys - column - 1
           Halves(count) ==
             {row \in [1 .. count -> half \cup {NoColumn}] :
                /\ row[1] \in half
                /\ \A k \in 2 .. count :
                     row[k] \in FindAvailable(row[k - 1], half,
                                             UNION {{row[j], Mirror(row[j])} : j \in 1 .. k - 1})}
           Both(row) == row \o [k \in DOMAIN row |-> Mirror(row[k])]
<1>1. keys \in 2 .. 10 /\ keys \in Keys /\ RandomStart(keys) = 0 /\ ~HasSpecialColumn(g)
  BY DEF IsCircle, Keys, RandomStart, HasSpecialColumn
<1>2. CASE "FORCE_NOT_STACK" \in g.convert
  <2> DEFINE q2 == 500 + p2 \div 2
             q4 == (p2 + p3) \div 2
  <2>1. columns \in RandomPattern(g, q2, p2, q4, p3)
    BY <1>2 DEF RandomPatternWithMirrored
  <2>2. q2 \in Nat /\ q4 \in Nat
    OBVIOUS
  <2> HIDE DEF keys, Halves, Both, Mirror, half, q2, q4
  <2>3. \E m \in 0 .. 6 : OnStage(columns, m, g.total) /\ Avoids(columns, m, g.total, Taken(g))
    BY <1>2, <2>1, <2>2, RandomPatternFits
  <2>4. 0 .. 6 \subseteq Nat
    OBVIOUS
  <2> QED BY <2>3, <2>4
<1>3. CASE "FORCE_NOT_STACK" \notin g.convert
  <2>1. \E count \in MirroredCounts(keys, p2, p3) : \E centre \in Centres(keys, count) :
          \E row \in Halves(count) :
            columns = WithSpecial(g, IF centre THEN Append(Both(row), keys \div 2) ELSE Both(row))
    <3>1. columns \in UNION {UNION {
                {WithSpecial(g, IF centre THEN Append(Both(row), keys \div 2) ELSE Both(row)) :
                   row \in Halves(count)} :
                   centre \in Centres(keys, count)} : count \in MirroredCounts(keys, p2, p3)}
      BY <1>3 DEF RandomPatternWithMirrored
    <3> HIDE DEF Halves, Both
    <3> QED BY <3>1
  <2>2. PICK count \in MirroredCounts(keys, p2, p3) : \E centre \in Centres(keys, count) :
          \E row \in Halves(count) :
            columns = WithSpecial(g, IF centre THEN Append(Both(row), keys \div 2) ELSE Both(row))
    BY <2>1
  <2>3. PICK centre \in Centres(keys, count) : \E row \in Halves(count) :
            columns = WithSpecial(g, IF centre THEN Append(Both(row), keys \div 2) ELSE Both(row))
    BY <2>2
  <2>4. PICK row \in Halves(count) :
            columns = WithSpecial(g, IF centre THEN Append(Both(row), keys \div 2) ELSE Both(row))
    BY <2>3
  <2>6. count \in 1 .. 3 /\ count <= keys \div 2
    BY <1>1, MirroredCountsFit
  <2>7. AreHalves(row, count, keys) /\ Both(row) = MirroredHalves(row, keys)
    <3>1. \A c : c \in half \cup {NoColumn} => Mirror(c) = keys - c - 1
      <4>1. half \subseteq Int /\ NoColumn \in Int
        BY DEF NoColumn
      <4> HIDE DEF half
      <4>2. ASSUME NEW c, c \in half \cup {NoColumn} PROVE Mirror(c) = keys - c - 1
        <5>1. c \in Int /\ keys \in Int /\ RandomStart(keys) = 0
          BY <1>1, <4>1, <4>2
        <5>2. Mirror(c) = 0 + keys - c - 1
          BY <5>1
        <5> HIDE DEF Mirror, keys
        <5> QED BY <5>1, <5>2
      <4> QED BY <4>2
    <3>2. row \in [1 .. count -> half \cup {NoColumn}] /\ row[1] \in half
      BY <2>4
    <3>3. half = 0 .. keys \div 2 - 1
      BY <1>1
    <3>4. ASSUME NEW k \in 2 .. count
          PROVE  row[k] \in FindAvailable(row[k - 1], half,
                                          UNION {{row[j], keys - row[j] - 1} : j \in 1 .. k - 1})
      <4>1. row[k] \in FindAvailable(row[k - 1], half,
                                     UNION {{row[j], Mirror(row[j])} : j \in 1 .. k - 1})
        BY <2>4
      <4>2. \A j \in 1 .. k - 1 : j \in 1 .. count /\ row[j] \in half \cup {NoColumn}
        BY <2>6, <3>2
      <4> HIDE DEF Mirror, half
      <4>3. UNION {{row[j], Mirror(row[j])} : j \in 1 .. k - 1}
              = UNION {{row[j], keys - row[j] - 1} : j \in 1 .. k - 1}
        BY <3>1, <4>2
      <4> QED BY <4>1, <4>3
    <3>5. Both(row) = MirroredHalves(row, keys)
      <4>1. DOMAIN row = 1 .. count /\ \A k \in 1 .. count : row[k] \in half \cup {NoColumn}
        BY <3>2
      <4> HIDE DEF half, Mirror, keys
      <4>2. [k \in DOMAIN row |-> Mirror(row[k])] = [k \in DOMAIN row |-> keys - row[k] - 1]
        BY <3>1, <4>1
      <4> QED BY <4>2 DEF MirroredHalves
    <3> HIDE DEF half, Both
    <3> QED BY <3>2, <3>3, <3>4, <3>5 DEF AreHalves
  <2>8. /\ row \in [1 .. count -> 0 .. keys \div 2 - 1]
        /\ \A i, j \in 1 .. count : i # j => row[i] # row[j]
    <3>1. keys \in 2 .. 10 /\ count \in 1 .. 3 /\ count <= keys \div 2 /\ AreHalves(row, count, keys)
      BY <1>1, <2>6, <2>7
    <3> HIDE DEF keys, Halves, Both, half, Mirror
    <3> QED BY <3>1, HalvesFindRoom
  <2>9. /\ OnStage(MirroredHalves(row, keys), 2 * count, keys)
        /\ keys % 2 # 0
             => OnStage(Append(MirroredHalves(row, keys), keys \div 2), 2 * count + 1, keys)
    BY <1>1, <2>6, <2>8, HalvesDiffer
  <2>10. centre => keys % 2 # 0
    BY <2>3 DEF Centres
  <2>11. columns = IF centre THEN Append(MirroredHalves(row, keys), keys \div 2)
                             ELSE MirroredHalves(row, keys)
    BY <1>1, <2>4, <2>7 DEF WithSpecial
  <2>12. \E m \in Nat : OnStage(columns, m, keys)
    <3>1. 2 * count \in Nat /\ 2 * count + 1 \in Nat
      BY <2>6
    <3> QED BY <2>9, <2>10, <2>11, <3>1
  <2>13. Taken(g) = {}
    BY <1>3 DEF Taken
  <2> QED BY <2>12, <2>13 DEF Avoids
<1> QED BY <1>2, <1>3

(* The columns of a set, in some order and moved by a mirror.              *)
LEMMA KeptColumnsFit ==
  ASSUME NEW keys \in 2 .. 10, NEW seen, SeenOnStage(seen, keys), NEW s,
         s = SetToSeq(seen.columns \cap Usable(keys))
  PROVE  \E m \in Nat :
           /\ OnStage(s, m, keys)
           /\ OnStage([i \in DOMAIN s |-> RandomStart(keys) + keys - s[i] - 1], m, keys)
<1> DEFINE S == seen.columns \cap Usable(keys)
           m == Cardinality(S)
           t == [i \in DOMAIN s |-> RandomStart(keys) + keys - s[i] - 1]
<1>1. keys \in Keys
  BY DEF Keys
<1>2. IsFiniteSet(seen.columns) /\ Cardinality(seen.columns) \in Nat
      /\ (keys = 8 => Cardinality(seen.columns) <= 6)
  BY <1>1, SeenIsFinite
<1>3. IsFiniteSet(S) /\ m <= Cardinality(seen.columns) /\ m \in Nat
  BY <1>2, FS_Subset, FS_CardinalityType
<1> HIDE DEF m
<1>4. s \in [1 .. m -> S] /\ \A i, j \in 1 .. m : i # j => s[i] # s[j]
  BY <1>3, SetInSequence DEF m
<1>5. RandomStart(keys) \in 0 .. 1 /\ Usable(keys) \subseteq 0 .. keys - 1 /\ S \subseteq Usable(keys)
  BY <1>1, UsableColumns
<1> HIDE DEF S
<1>6. s \in [1 .. m -> Usable(keys)]
  BY <1>4, <1>5
<1>7. OnStage(s, m, keys)
  <2>1. \A i \in 1 .. m : s[i] \in Usable(keys)
    BY <1>6
  <2>2. s \in [1 .. m -> 0 .. keys - 1]
    BY <1>5, <1>6
  <2>3. keys = 8 => m <= 6
    BY <1>2, <1>3
  <2>4. m = 1 => s[1] \in Usable(keys)
    BY <2>1
  <2> QED BY <1>4, <2>2, <2>3, <2>4 DEF OnStage
<1>8. ASSUME NEW i \in 1 .. m PROVE RandomStart(keys) + keys - s[i] - 1 \in Usable(keys) /\ s[i] \in Int
  <2>1. s[i] \in Usable(keys)
    BY <1>6
  <2> QED BY <1>5, <2>1 DEF Usable
<1>9. t = [i \in 1 .. m |-> RandomStart(keys) + keys - s[i] - 1]
  BY <1>4
<1> HIDE DEF t
<1>10. t \in [1 .. m -> Usable(keys)]
  BY <1>8, <1>9
<1>11. ASSUME NEW i \in 1 .. m, NEW j \in 1 .. m, i # j PROVE t[i] # t[j]
  <2>1. s[i] # s[j] /\ s[i] \in Int /\ s[j] \in Int /\ RandomStart(keys) \in Int
    <3>1. s[i] # s[j]
      BY <1>4, <1>11
    <3> QED BY <1>5, <1>8, <3>1
  <2>2. t[i] = RandomStart(keys) + keys - s[i] - 1 /\ t[j] = RandomStart(keys) + keys - s[j] - 1
    BY <1>9
  <2> QED BY <2>1, <2>2
<1>12. OnStage(t, m, keys)
  BY <1>2, <1>3, <1>5, <1>10, <1>11 DEF OnStage
<1> QED BY <1>3, <1>7, <1>12 DEF t

(* A single note that is seen is in a column that notes may take.          *)
LEMMA LastColumnIsSeen ==
  ASSUME NEW keys \in Keys, NEW seen, SeenOnStage(seen, keys), seen.single
  PROVE  LastColumn(seen, keys) \in Usable(keys) /\ seen.columns = {LastColumn(seen, keys)}
<1>1. PICK c \in Usable(keys) : seen.columns = {c}
  BY DEF SeenOnStage
<1>2. (CHOOSE d \in seen.columns : seen.single) = c
  BY <1>1
<1>3. c \in 0 .. keys - 1
  BY UsableColumns
<1>4. LastColumn(seen, keys) = c
  BY <1>2, <1>3, ColumnOfItsPosition DEF LastColumn
<1> QED BY <1>1, <1>4

(* One column, and a stair does not stay where it is.                      *)
LEMMA OneColumnFits ==
  ASSUME NEW keys \in Keys, NEW c \in Usable(keys)
  PROVE  OnStage(<<c>>, 1, keys)
<1>1. Usable(keys) \subseteq 0 .. keys - 1
  BY UsableColumns
<1>2. <<c>> \in [1 .. 1 -> 0 .. keys - 1] /\ <<c>>[1] = c
  BY <1>1
<1> QED BY <1>2 DEF OnStage

(* A stair always steps to another column.                                 *)
LEMMA StairsMove ==
  ASSUME NEW keys \in 2 .. 10, NEW c \in Usable(keys)
  PROVE  /\ NextStair(c, keys) \in Usable(keys) \ {c}
         /\ NextReverseStair(c, keys) \in Usable(keys) \ {c}
BY DEF NextStair, NextReverseStair, Usable, RandomStart

(* The types of a circle that follows the last object at once.             *)
KeepsApart(convert) ==
  "FORCE_NOT_STACK" \in convert /\ {"REVERSE", "CYCLE", "FORCE_STACK"} \cap convert = {}

(* Circles of the mirrored types fit.                                      *)
LEMMA MirroredCircleFits ==
  ASSUME NEW g, IsCircle(g), g.total # 8, NEW columns \in MirroredCircle(g)
  PROVE  \E m \in Nat : OnStage(columns, m, g.total) /\ Avoids(columns, m, g.total, Taken(g))
<1>1. g.diff \in Int
  BY DEF IsCircle
<1>2. \/ columns \in RandomPatternWithMirrored(g, 380, 120)
      \/ columns \in RandomPatternWithMirrored(g, 170, 0)
      \/ columns \in RandomPatternWithMirrored(g, 0, 0)
  BY <1>1 DEF MirroredCircle
<1> QED BY <1>2, MirroredPatternFits

(* Circles whose number of notes is drawn fit.                             *)
LEMMA RandomCircleFits ==
  ASSUME NEW g, IsCircle(g), NEW columns \in RandomCircle(g)
  PROVE  \E m \in Nat : OnStage(columns, m, g.total) /\ Avoids(columns, m, g.total, Taken(g))
<1>1. g.diff \in Int
  BY DEF IsCircle
<1>2. \E p2, p3 \in Nat : columns \in RandomPattern(g, p2, p3, 0, 0)
  <2>1. \A a, b \in Nat : columns \in RandomPattern(g, a, b, 0, 0)
          => \E p2, p3 \in Nat : columns \in RandomPattern(g, p2, p3, 0, 0)
    OBVIOUS
  <2>2. \/ columns \in RandomPattern(g, 780, 420, 0, 0) \/ columns \in RandomPattern(g, 1000, 620, 0, 0)
        \/ columns \in RandomPattern(g, 350, 80, 0, 0) \/ columns \in RandomPattern(g, 520, 150, 0, 0)
        \/ columns \in RandomPattern(g, 180, 0, 0, 0) \/ columns \in RandomPattern(g, 450, 0, 0, 0)
        \/ columns \in RandomPattern(g, 0, 0, 0, 0)
    BY <1>1 DEF RandomCircle
  <2> QED BY <2>1, <2>2
<1>3. PICK p2 \in Nat, p3 \in Nat : columns \in RandomPattern(g, p2, p3, 0, 0)
  BY <1>2
<1>4. \E m \in 0 .. 6 : OnStage(columns, m, g.total) /\ Avoids(columns, m, g.total, Taken(g))
  BY <1>3, RandomPatternFits
<1> QED BY <1>4

(* Whatever the types of a circle, its columns are different ones of the   *)
(* stage, and none is one of the last pattern when they must be kept       *)
(* apart.                                                                  *)
LEMMA CirclesFit ==
  ASSUME NEW g, g.total \in Keys, g.x \in Int, g.diff \in Int, SeenOnStage(g.prev, g.total),
         g.total = 8 => "MIRROR" \notin g.convert, NEW columns \in CirclePatterns(g)
  PROVE  \E m \in Nat :
           /\ OnStage(columns, m, g.total)
           /\ g.total > 1 /\ KeepsApart(g.convert) => Avoids(columns, m, g.total, g.prev.columns)
<1> DEFINE keys == g.total
           last == LastColumn(g.prev, keys)
           Fits(m) == /\ OnStage(columns, m, keys)
                      /\ keys > 1 /\ KeepsApart(g.convert) => Avoids(columns, m, keys, g.prev.columns)
<1>1. g.prev.single => last \in Usable(keys) /\ g.prev.columns = {last}
  BY LastColumnIsSeen
<1> HIDE DEF last
<1>2. ASSUME NEW c \in Usable(keys), columns = <<c>>, KeepsApart(g.convert) => c \notin g.prev.columns
      PROVE  \E m \in Nat : Fits(m)
  <2>1. OnStage(columns, 1, keys)
    BY <1>2, OneColumnFits
  <2>2. KeepsApart(g.convert) => Avoids(columns, 1, keys, g.prev.columns)
    <3>1. columns[1] = c
      BY <1>2
    <3> QED BY <1>2, <3>1 DEF Avoids
  <2> QED BY <2>1, <2>2
<1>3. ASSUME NEW m \in Nat, OnStage(columns, m, keys), Avoids(columns, m, keys, Taken(g))
      PROVE  \E n \in Nat : Fits(n)
  BY <1>3 DEF Taken, KeepsApart
<1>4. CASE keys = 1
  <2>1. columns = <<0>> /\ 0 \in Usable(keys)
    BY <1>4 DEF CirclePatterns, Usable, RandomStart
  <2>2. OnStage(columns, 1, keys)
    BY <2>1, OneColumnFits
  <2> QED BY <1>4, <2>2
<1>5. CASE keys # 1
  <2>1. keys \in 2 .. 10 /\ IsCircle(g)
    BY <1>5 DEF Keys, IsCircle
  <2> DEFINE some == g.prev.columns # {}
  <2>2. CASE "REVERSE" \in g.convert /\ some
    <3>1. columns = Reversed(g)
      BY <1>5, <2>2 DEF CirclePatterns
    <3>2. \E m \in Nat : OnStage(columns, m, keys)
      BY <2>1, <3>1, KeptColumnsFit DEF Reversed
    <3> QED BY <2>2, <3>2 DEF KeepsApart
  <2>3. CASE ~("REVERSE" \in g.convert /\ some) /\ Cycles(g)
    <3>1. columns = <<RandomStart(keys) + keys - last - 1>>
      BY <1>5, <2>3 DEF CirclePatterns, last
    <3>2. last \in Usable(keys) /\ "CYCLE" \in g.convert
      BY <1>1, <2>3 DEF Cycles
    <3>3. RandomStart(keys) + keys - last - 1 \in Usable(keys)
      BY <2>1, <3>2 DEF Usable, RandomStart
    <3> QED BY <1>2, <3>1, <3>2, <3>3 DEF KeepsApart
  <2>4. CASE /\ ~("REVERSE" \in g.convert /\ some) /\ ~Cycles(g)
             /\ "FORCE_STACK" \in g.convert /\ some
    <3>1. columns = SetToSeq(g.prev.columns \cap Usable(keys))
      BY <1>5, <2>4 DEF CirclePatterns
    <3>2. \E m \in Nat : OnStage(columns, m, keys)
      BY <2>1, <3>1, KeptColumnsFit
    <3> QED BY <2>4, <3>2 DEF KeepsApart
  <2>5. CASE /\ ~("REVERSE" \in g.convert /\ some) /\ ~Cycles(g)
             /\ ~("FORCE_STACK" \in g.convert /\ some)
    <3>1. columns \in
            IF g.prev.single /\ "STAIR" \in g.convert THEN {<<NextStair(last, keys)>>}
            ELSE IF g.prev.single /\ "REVERSE_STAIR" \in g.convert THEN {<<NextReverseStair(last, keys)>>}
            ELSE IF "KEEP_SINGLE" \in g.convert THEN RandomNotes(g, 1)
            ELSE IF "MIRROR" \in g.convert THEN MirroredCircle(g)
            ELSE RandomCircle(g)
      BY <1>5, <2>5 DEF CirclePatterns, last
    <3>2. \/ g.prev.single /\ columns = <<NextStair(last, keys)>>
          \/ g.prev.single /\ columns = <<NextReverseStair(last, keys)>>
          \/ columns \in RandomNotes(g, 1)
          \/ "MIRROR" \in g.convert /\ columns \in MirroredCircle(g)
          \/ columns \in RandomCircle(g)
      BY <3>1
    <3>3. CASE g.prev.single /\ columns = <<NextStair(last, keys)>>
      <4>1. NextStair(last, keys) \in Usable(keys) \ {last}
        BY <1>1, <2>1, <3>3, StairsMove
      <4> QED BY <1>1, <1>2, <3>3, <4>1
    <3>4. CASE g.prev.single /\ columns = <<NextReverseStair(last, keys)>>
      <4>1. NextReverseStair(last, keys) \in Usable(keys) \ {last}
        BY <1>1, <2>1, <3>4, StairsMove
      <4> QED BY <1>1, <1>2, <3>4, <4>1
    <3>5. CASE columns \in RandomNotes(g, 1)
      <4>1. 1 <= Cardinality(Usable(keys)) /\ 1 \in 1 .. 5
        BY <2>1, UsableColumns
      <4>2. PICK n \in 0 .. 5 : IsRow(columns, n, keys, Taken(g))
        BY <2>1, <3>5, <4>1, RandomNotesFit
      <4>3. OnStage(columns, n, keys) /\ Avoids(columns, n, keys, Taken(g)) /\ n \in Nat
        BY <4>2, RowIsOnStage
      <4> QED BY <1>3, <4>3
    <3>6. CASE "MIRROR" \in g.convert /\ columns \in MirroredCircle(g)
      <4>1. \E m \in Nat : OnStage(columns, m, keys) /\ Avoids(columns, m, keys, Taken(g))
        BY <2>1, <3>6, MirroredCircleFits
      <4> QED BY <1>3, <4>1
    <3>7. CASE columns \in RandomCircle(g)
      <4>1. \E m \in Nat : OnStage(columns, m, keys) /\ Avoids(columns, m, keys, Taken(g))
        BY <2>1, <3>7, RandomCircleFits
      <4> QED BY <1>3, <4>1
    <3> QED BY <3>2, <3>3, <3>4, <3>5, <3>6, <3>7
  <2> QED BY <2>2, <2>3, <2>4, <2>5
<1> QED BY <1>4, <1>5

(***************************************************************************)
(* Patterns of notes, and what is seen of them                             *)
(***************************************************************************)

(* n notes on the stage that do not overlap in a column.                   *)
Fit(notes, n, keys) ==
  /\ notes \in [1 .. n -> [column : 0 .. keys - 1, from : Int, to : Int]]
  /\ \A i \in 1 .. n : notes[i].from <= notes[i].to
  /\ \A i, j \in 1 .. n : i # j /\ notes[i].column = notes[j].column
       => notes[i].to < notes[j].from \/ notes[j].to < notes[i].from

(* EveryNoteFitsTheStage, of a pattern.                                    *)
PatternFits(pattern, keys) ==
  /\ Cardinality(pattern.notes) = pattern.size
  /\ \A note \in pattern.notes : note.column \in 0 .. keys - 1
  /\ \A a, b \in pattern.notes :
       a # b /\ a.column = b.column => a.to < b.from \/ b.to < a.from

(* Notes that do not overlap make a pattern in which none is lost.         *)
LEMMA FitNotesMakePatterns ==
  ASSUME NEW keys, NEW n \in Nat, NEW notes, Fit(notes, n, keys)
  PROVE  PatternFits(PatternOf(notes), keys)
<1> DEFINE S == {notes[i] : i \in DOMAIN notes}
<1>1. /\ DOMAIN notes = 1 .. n /\ Len(notes) = n
      /\ \A i \in 1 .. n : /\ notes[i].column \in 0 .. keys - 1 /\ notes[i].from \in Int
                           /\ notes[i].to \in Int /\ notes[i].from <= notes[i].to
  BY DEF Fit
<1>2. \A i, j \in 1 .. n : i # j /\ notes[i].column = notes[j].column
        => notes[i].to < notes[j].from \/ notes[j].to < notes[i].from
  BY DEF Fit
<1>3. \A i, j \in 1 .. n : notes[i] = notes[j] => i = j
  BY <1>1, <1>2
<1>4. notes \in [1 .. n -> S]
  BY <1>1 DEF Fit
<1>5. notes \in Bijection(1 .. n, S)
  <2>1. \A t \in S : \E i \in 1 .. n : notes[i] = t
    BY <1>1
  <2> HIDE DEF S
  <2> QED BY <1>1, <1>3, <1>4, <2>1 DEF Bijection, Injection, IsInjective, Surjection
<1>6. Cardinality(S) = n
  <2> HIDE DEF S
  <2> QED BY <1>5, FS_CountingElements DEF ExistsBijection
<1>7. PatternOf(notes).notes = S /\ PatternOf(notes).size = n
  BY <1>1 DEF PatternOf
<1>8. \A note \in S : note.column \in 0 .. keys - 1
  BY <1>1
<1>9. \A a, b \in S : a # b /\ a.column = b.column => a.to < b.from \/ b.to < a.from
  BY <1>1, <1>2
<1> HIDE DEF S
<1> QED BY <1>6, <1>7, <1>8, <1>9 DEF PatternFits

(* Notes at one time.                                                      *)
LEMMA ColumnsMakeNotes ==
  ASSUME NEW keys \in Keys, NEW m \in Nat, NEW columns, OnStage(columns, m, keys)
  PROVE  LET notes == NotesAt(columns, 0)
         IN  /\ Fit(notes, m, keys)
             /\ SeenOnStage(Seen(notes, DOMAIN notes), keys)
             /\ ColumnsOf(PatternOf(notes)) = {columns[i] : i \in 1 .. m}
<1> DEFINE notes == NotesAt(columns, 0)
           shown == {columns[i] : i \in 1 .. m}
<1>1. DOMAIN columns = 1 .. m /\ \A i \in 1 .. m : columns[i] \in 0 .. keys - 1
  BY DEF OnStage
<1>2. notes = [i \in 1 .. m |-> [column |-> columns[i], from |-> 0, to |-> 0]]
  BY <1>1 DEF NotesAt
<1>3. Fit(notes, m, keys)
  BY <1>1, <1>2 DEF Fit, OnStage
<1>4. {notes[i].column : i \in DOMAIN notes} = shown
  BY <1>2
<1>5. ColumnsOf(PatternOf(notes)) = shown
  BY <1>2 DEF ColumnsOf, PatternOf
<1>6. IsFiniteSet(1 .. m) /\ Cardinality(1 .. m) = m
  BY FS_Interval
<1>7. Cardinality(shown) <= m
  <2> DEFINE f == [i \in 1 .. m |-> columns[i]]
  <2>1. f \in Surjection(1 .. m, shown)
    BY DEF Surjection
  <2> HIDE DEF f, shown
  <2> QED BY <1>6, <2>1, FS_Surjection
<1>8. Seen(notes, DOMAIN notes) = [columns |-> shown, single |-> (m = 1)]
  <2>1. DOMAIN notes = 1 .. m
    BY <1>2
  <2> QED BY <1>4, <1>6, <2>1 DEF Seen
<1>9. m = 1 => \E c \in Usable(keys) : shown = {c}
  <2> SUFFICES ASSUME m = 1 PROVE columns[1] \in Usable(keys) /\ shown = {columns[1]}
    OBVIOUS
  <2>1. columns[1] \in Usable(keys)
    BY <1>1 DEF OnStage, Usable, RandomStart
  <2> QED BY <2>1
<1>10. shown \subseteq 0 .. keys - 1
  BY <1>1
<1>11. keys = 8 => Cardinality(shown) <= 6
  <2> SUFFICES ASSUME keys = 8 PROVE Cardinality(shown) <= 6
    OBVIOUS
  <2>1. m <= 6
    BY DEF OnStage
  <2>2. IsFiniteSet(0 .. 7) /\ keys - 1 = 7
    <3>1. 0 \in Int /\ 7 \in Int
      OBVIOUS
    <3>2. IsFiniteSet(0 .. 7)
      BY <3>1, FS_Interval
    <3> QED BY <3>2
  <2>3. Cardinality(shown) \in Nat
    BY <1>10, <2>2, FS_Subset, FS_CardinalityType
  <2> HIDE DEF shown
  <2> QED BY <1>7, <2>1, <2>3
<1> HIDE DEF shown
<1>12. SeenOnStage(Seen(notes, DOMAIN notes), keys)
  <2> DEFINE seen == Seen(notes, DOMAIN notes)
  <2>1. seen.columns = shown /\ seen.single = (m = 1)
    BY <1>8
  <2> HIDE DEF seen, notes
  <2>2. SeenOnStage(seen, keys)
    BY <1>9, <1>10, <1>11, <2>1 DEF SeenOnStage
  <2> QED BY <2>2 DEF seen
<1> HIDE DEF notes
<1> QED BY <1>3, <1>5, <1>12 DEF notes, shown

(***************************************************************************)
(* The conversion of circles                                               *)
(***************************************************************************)
Stairs == {"STAIR", "REVERSE_STAIR"}

(* A map is converted to between one and ten columns.                      *)
LEMMA ColumnsOfMap ==
  ASSUME NEW map \in Scenarios
  PROVE  TargetColumns(map) \in Keys
<1>1. map.keys \in 0 .. 10 /\ map.cs \in Int /\ map.od \in Int
  BY ScenariosAssumption
<1>2. RoundTiesEven(map.od, 10) \in Int
  <2>1. \A q \in Int : q \div 20 \in Int
    OBVIOUS
  <2>2. (2 * map.od + 10) \div (2 * 10) \in Int
    BY <1>1, <2>1
  <2> QED BY <2>2 DEF RoundTiesEven
<1>3. Greatest(Least(RoundTiesEven(map.od, 10) + 1, 7), 4) \in 4 .. 7
  BY <1>2 DEF Greatest, Least
<1> DEFINE clamped == Greatest(Least(RoundTiesEven(map.od, 10) + 1, 7), 4)
<1>4. TargetColumns(map) \in {map.keys, clamped, 4, 5, 6, 7} /\ (TargetColumns(map) = map.keys => map.keys # 0 \/ map.keys \in {clamped, 4, 5, 6, 7})
  BY DEF TargetColumns, NoKeys
<1> HIDE DEF clamped
<1> QED BY <1>1, <1>3, <1>4 DEF Keys, clamped

(* And its difficulty is an integer, whichever lookup gives it.            *)
LEMMA DifficultyOfMap ==
  ASSUME NEW map \in Scenarios
  PROVE  ConversionDifficulty(map.hp, map.ar, map.hitObjects, map.drain) \in Int
<1>1. map.hp \in Int /\ map.ar \in Int /\ map.hitObjects \in Nat /\ map.drain \in Nat
  BY ScenariosAssumption
<1> DEFINE seconds == IF map.drain = 0 THEN 10000 ELSE map.drain
           settings == ((map.hp + Least(Greatest(map.ar, 40), 70)) * 100) \div 15
           objects == (map.hitObjects * 900) \div seconds
<1>2. settings \in Int
  <2>1. \A q \in Int : q \div 15 \in Int
    OBVIOUS
  <2>2. (map.hp + Least(Greatest(map.ar, 40), 70)) * 100 \in Int
    BY <1>1 DEF Least, Greatest
  <2> QED BY <2>1, <2>2
<1>3. objects \in Int
  <2>1. seconds \in Nat \ {0} /\ map.hitObjects * 900 \in Nat
    BY <1>1
  <2> HIDE DEF seconds
  <2> QED BY <2>1
<1>4. ConversionDifficulty(map.hp, map.ar, map.hitObjects, map.drain)
        = Least(((settings + objects) * 500) \div (38 * 115), 1200)
  BY DEF ConversionDifficulty
<1> HIDE DEF settings, objects
<1>5. ((settings + objects) * 500) \div (38 * 115) \in Int
  <2>1. \A q \in Int : q \div 4370 \in Int
    OBVIOUS
  <2> QED BY <1>2, <1>3, <2>1
<1> QED BY <1>4, <1>5 DEF Least

(* What the types of a circle may and must be.                             *)
LEMMA TypesOfCircle ==
  ASSUME NEW gap, NEW near, NEW dense, NEW kiai, NEW s \in Stairs, NEW sounds, NEW keys
  PROVE  /\ keys = 8 => "MIRROR" \notin ConvertType(gap, near, dense, kiai, s, sounds, keys)
         /\ gap \in Int /\ gap <= 125
              => KeepsApart(ConvertType(gap, near, dense, kiai, s, sounds, keys))
<1> DEFINE spacing == SpacingType(gap, near, dense, kiai, s)
           sound == SoundType(spacing, sounds, keys)
<1>1. "MIRROR" \notin spacing
  BY DEF SpacingType, Stairs
<1>2. gap \in Int /\ gap <= 125 => KeepsApart(spacing)
  <2> SUFFICES ASSUME gap \in Int, gap <= 125 PROVE KeepsApart(spacing)
    OBVIOUS
  <2>1. \/ gap <= 80 \/ gap \in 81 .. 95 \/ gap \in 96 .. 105 \/ gap \in 106 .. 125
    OBVIOUS
  <2>2. ~(gap \in 126 .. 135) /\ ~(gap \in 136 .. 150) /\ ~(gap > 150) /\ ~(gap > 125)
    OBVIOUS
  <2>3. \/ spacing = {"FORCE_NOT_STACK", "KEEP_SINGLE"}
        \/ spacing = {"FORCE_NOT_STACK", "KEEP_SINGLE", s}
        \/ spacing = {"FORCE_NOT_STACK", "LOW_PROBABILITY"}
        \/ spacing = {"FORCE_NOT_STACK"}
    BY <2>1, <2>2 DEF SpacingType
  <2> HIDE DEF spacing
  <2> QED BY <2>3 DEF KeepsApart, Stairs
<1> HIDE DEF spacing
<1>3. sound \in {{}, {"MIRROR"}, {"GATHERED"}} /\ (keys = 8 => sound # {"MIRROR"})
  BY DEF SoundType
<1>4. ConvertType(gap, near, dense, kiai, s, sounds, keys) = spacing \cup sound
  BY DEF ConvertType, spacing
<1> HIDE DEF sound
<1> QED BY <1>1, <1>2, <1>3, <1>4 DEF KeepsApart

(***************************************************************************)
(* The notes of sliders                                                    *)
(***************************************************************************)
IsSlider(g) ==
  /\ g.total \in 2 .. 10 /\ g.x \in Int /\ g.diff \in Int
  /\ g.spans \in Nat \ {0} /\ g.length \in Nat
  /\ g.segment = SegmentDuration(g.length, g.spans)
  /\ SeenOnStage(g.prev, g.total)

(* Notes that do not overlap, whose end fits on the stage.                 *)
Suits(notes, g) ==
  \E n \in Nat : Fit(notes, n, g.total) /\ SeenOnStage(Seen(notes, EndOfPattern(g, notes)), g.total)

(* The duration of a span is not negative.                                 *)
LEMMA SegmentIsNatural ==
  ASSUME NEW g, IsSlider(g)
  PROVE  g.segment \in Nat
<1>1. \A a \in Nat, b \in Nat \ {0} : a \div b \in Nat
  OBVIOUS
<1> QED BY <1>1 DEF IsSlider, SegmentDuration

(* Spans take time if one does.                                            *)
LEMMA TimesGrow ==
  ASSUME NEW segment \in Nat \ {0}, NEW i \in Nat, NEW j \in Nat, i < j
  PROVE  /\ i * segment \in Nat /\ j * segment \in Nat /\ i * segment < j * segment
<1> DEFINE d == j - i
<1>1. d \in Nat /\ d >= 1 /\ j = i + d
  OBVIOUS
<1> HIDE DEF d
<1>2. j * segment = i * segment + d * segment
  BY <1>1
<1>3. d * segment >= 1
  <2>1. d * segment = segment + (d - 1) * segment
    BY <1>1
  <2>2. (d - 1) * segment \in Nat
    <3>1. d - 1 \in Nat
      BY <1>1
    <3> DEFINE e == d - 1
    <3> HIDE DEF e
    <3>2. e * segment \in Nat
      BY <3>1 DEF e
    <3> QED BY <3>2 DEF e
  <2> QED BY <2>1, <2>2
<1>4. i * segment \in Nat /\ d * segment \in Nat
  BY <1>1
<1> QED BY <1>2, <1>3, <1>4

(* What later objects see of notes that fit on the stage.                  *)
LEMMA EndIsSeen ==
  ASSUME NEW keys \in Keys, NEW n \in Nat, NEW notes, Fit(notes, n, keys), NEW at \in SUBSET (1 .. n),
         keys = 8 => Cardinality(at) <= 6,
         \A i \in at : at = {i} => notes[i].column \in Usable(keys)
  PROVE  SeenOnStage(Seen(notes, at), keys)
<1> DEFINE columns == {notes[i].column : i \in at}
<1>1. Seen(notes, at) = [columns |-> columns, single |-> (Cardinality(at) = 1)]
  BY DEF Seen
<1>2. IsFiniteSet(at) /\ Cardinality(at) \in Nat
  <2>1. IsFiniteSet(1 .. n)
    BY FS_Interval
  <2> QED BY <2>1, FS_Subset, FS_CardinalityType
<1>3. columns \subseteq 0 .. keys - 1
  <2>1. \A i \in 1 .. n : notes[i].column \in 0 .. keys - 1
    BY DEF Fit
  <2> QED BY <2>1
<1>4. keys = 8 => Cardinality(columns) <= 6
  <2> SUFFICES ASSUME keys = 8 PROVE Cardinality(columns) <= 6
    OBVIOUS
  <2> DEFINE f == [i \in at |-> notes[i].column]
  <2>1. f \in Surjection(at, columns)
    BY DEF Surjection
  <2> HIDE DEF f, columns
  <2>2. IsFiniteSet(columns) /\ Cardinality(columns) <= Cardinality(at)
    BY <1>2, <2>1, FS_Surjection
  <2>3. Cardinality(columns) \in Nat
    BY <2>2, FS_CardinalityType
  <2> QED BY <1>2, <2>2, <2>3
<1>5. Cardinality(at) = 1 => \E c \in Usable(keys) : columns = {c}
  <2> SUFFICES ASSUME Cardinality(at) = 1 PROVE \E c \in Usable(keys) : columns = {c}
    OBVIOUS
  <2>1. PICK i : at = {i}
    BY <1>2, FS_Singleton
  <2> QED BY <2>1
<1> DEFINE seen == Seen(notes, at)
<1>6. seen.columns = columns /\ seen.single = (Cardinality(at) = 1)
  BY <1>1
<1> HIDE DEF columns, seen
<1>7. SeenOnStage(seen, keys)
  BY <1>3, <1>4, <1>5, <1>6 DEF SeenOnStage
<1> QED BY <1>7 DEF seen

(* Notes that do not overlap suit if what is seen of their end fits on the *)
(* stage.                                                                  *)
LEMMA EndSuits ==
  ASSUME NEW g, IsSlider(g), NEW n \in Nat, NEW notes, Fit(notes, n, g.total),
         g.total = 8 => Cardinality(EndOfPattern(g, notes)) <= 6,
         \A i \in EndOfPattern(g, notes) :
           EndOfPattern(g, notes) = {i} => notes[i].column \in Usable(g.total)
  PROVE  Suits(notes, g)
<1>1. EndOfPattern(g, notes) \in SUBSET (1 .. n)
  BY DEF EndOfPattern, Fit
<1>2. g.total \in Keys
  BY DEF IsSlider, Keys
<1>3. SeenOnStage(Seen(notes, EndOfPattern(g, notes)), g.total)
  BY <1>1, <1>2, EndIsSeen
<1> QED BY <1>3 DEF Suits

(* Few notes, none of them on the special column.                          *)
LEMMA FewNotesSuit ==
  ASSUME NEW g, IsSlider(g), NEW n \in 0 .. 10, g.total = 8 => n <= 6, NEW notes,
         Fit(notes, n, g.total), \A i \in 1 .. n : notes[i].column \in Usable(g.total)
  PROVE  Suits(notes, g)
<1> DEFINE at == EndOfPattern(g, notes)
<1>1. at \subseteq 1 .. n
  BY DEF EndOfPattern, Fit
<1>2. IsFiniteSet(1 .. n) /\ Cardinality(1 .. n) = n
  <2>1. 1 \in Int /\ n \in Int /\ (1 > n => n = 0)
    OBVIOUS
  <2> QED BY <2>1, FS_Interval
<1> HIDE DEF at
<1>3. Cardinality(at) \in Nat /\ Cardinality(at) <= n
  BY <1>1, <1>2, FS_Subset, FS_CardinalityType
<1>4. (g.total = 8 => Cardinality(at) <= 6) /\ \A i \in at : notes[i].column \in Usable(g.total)
  BY <1>1, <1>3
<1> QED BY <1>4, EndSuits DEF at

(* Notes one after the other.                                              *)
InTurn(notes, columns, n, segment) ==
  notes = [k \in 1 .. n |-> Note(columns[k], (k - 1) * segment, (k - 1) * segment)]

(* Notes one after the other suit, in whichever columns they are.          *)
LEMMA NotesInTurnSuit ==
  ASSUME NEW g, IsSlider(g), NEW n \in Nat, n = 1 \/ g.segment # 0, NEW columns,
         columns \in [1 .. n -> Usable(g.total)], NEW notes, InTurn(notes, columns, n, g.segment)
  PROVE  Suits(notes, g)
<1> DEFINE segment == g.segment
           keys == g.total
           time(i) == (i - 1) * segment
<1>1. segment \in Nat
  BY SegmentIsNatural
<1>2. keys \in Keys /\ Usable(keys) \subseteq 0 .. keys - 1
  <2>1. keys \in Keys
    BY DEF IsSlider, Keys
  <2> HIDE DEF keys, segment, time
  <2> QED BY <2>1, UsableColumns
<1>3. ASSUME NEW i \in 1 .. n, NEW j \in 1 .. n, i # j PROVE time(i) < time(j) \/ time(j) < time(i)
  <2>1. segment \in Nat \ {0}
    BY <1>1, <1>3
  <2>2. i - 1 \in Nat /\ j - 1 \in Nat /\ (i - 1 < j - 1 \/ j - 1 < i - 1)
    BY <1>3
  <2> HIDE DEF segment
  <2> QED BY <2>1, <2>2, TimesGrow
<1>4. ASSUME NEW i \in 1 .. n PROVE time(i) \in Nat
  <2>1. i - 1 \in Nat
    OBVIOUS
  <2> DEFINE e == i - 1
  <2> HIDE DEF e, segment
  <2>2. e * segment \in Nat
    BY <1>1, <2>1 DEF e
  <2> QED BY <2>2 DEF e
<1>5. notes = [k \in 1 .. n |-> [column |-> columns[k], from |-> time(k), to |-> time(k)]]
  BY DEF InTurn, Note
<1> HIDE DEF time
<1>6. \A i \in 1 .. n : /\ notes[i] = [column |-> columns[i], from |-> time(i), to |-> time(i)]
                        /\ notes[i].column \in Usable(keys)
                        /\ notes[i].from = time(i) /\ notes[i].to = time(i)
  BY <1>5
<1>7. Fit(notes, n, keys)
  <2> HIDE DEF keys
  <2>1. \A i \in 1 .. n : /\ columns[i] \in 0 .. keys - 1 /\ time(i) \in Int
                          /\ time(i) <= time(i)
    BY <1>2, <1>4 DEF keys
  <2>2. notes \in [1 .. n -> [column : 0 .. keys - 1, from : Int, to : Int]]
    BY <1>5, <2>1
  <2>3. \A i, j \in 1 .. n : i # j => notes[i].to < notes[j].from \/ notes[j].to < notes[i].from
    BY <1>3, <1>6
  <2> QED BY <1>6, <2>1, <2>2, <2>3 DEF Fit
<1> DEFINE at == EndOfPattern(g, notes)
<1>8. \A i, j \in at : i = j
  <2>1. DOMAIN notes = 1 .. n /\ Len(notes) = n
    BY <1>5
  <2>2. SUFFICES ASSUME NEW i \in at, NEW j \in at, i # j PROVE FALSE
    OBVIOUS
  <2>3. i \in 1 .. n /\ j \in 1 .. n /\ n # 1
    BY <2>1, <2>2 DEF EndOfPattern
  <2>4. notes[i].to = g.length /\ notes[j].to = g.length
    BY <2>1, <2>3 DEF EndOfPattern
  <2>5. time(i) = time(j) /\ time(i) \in Nat
    BY <1>4, <1>6, <2>3, <2>4
  <2> QED BY <1>3, <2>2, <2>3, <2>5
<1>9. at \subseteq 1 .. n
  BY <1>5 DEF EndOfPattern
<1> HIDE DEF at
<1>10. Cardinality(at) \in {0, 1}
  <2>1. CASE at = {}
    BY <2>1, FS_EmptySet
  <2>2. CASE at # {}
    <3>1. PICK i : i \in at
      BY <2>2
    <3>2. at = {i}
      BY <1>8, <3>1
    <3> QED BY <3>2, FS_Singleton
  <2> QED BY <2>1, <2>2
<1>11. (g.total = 8 => Cardinality(at) <= 6) /\ \A i \in at : notes[i].column \in Usable(g.total)
  <2>1. Cardinality(at) <= 6
    BY <1>10
  <2>2. \A i \in at : notes[i].column \in Usable(g.total)
    BY <1>6, <1>9
  <2> QED BY <2>1, <2>2
<1> QED BY <1>7, <1>11, EndSuits DEF at, keys

(* Notes of a row of different columns.                                    *)
LEMMA RowsSuit ==
  ASSUME NEW g, IsSlider(g), NEW n \in 0 .. 10, g.total = 8 => n <= 6, NEW row,
         IsRow(row, n, g.total, {}), NEW to \in Nat, NEW from \in [1 .. n -> 0 .. to], NEW notes,
         notes = [i \in 1 .. n |-> Note(row[i], from[i], to)]
  PROVE  Suits(notes, g)
<1> DEFINE keys == g.total
<1>1. Usable(keys) \subseteq 0 .. keys - 1
  <2>1. g.total \in Keys
    BY DEF IsSlider, Keys
  <2> QED BY <2>1, UsableColumns
<1>2. /\ \A i \in 1 .. n : row[i] \in Usable(keys) /\ from[i] \in 0 .. to
      /\ \A i, j \in 1 .. n : i # j => row[i] # row[j]
  BY DEF IsRow
<1>3. notes = [i \in 1 .. n |-> [column |-> row[i], from |-> from[i], to |-> to]]
  BY DEF Note
<1> HIDE DEF keys
<1>4. ASSUME NEW i \in 1 .. n
      PROVE  notes[i].column = row[i] /\ notes[i].from = from[i] /\ notes[i].to = to
  <2>1. notes[i] = [column |-> row[i], from |-> from[i], to |-> to]
    BY <1>3
  <2> QED BY <2>1
<1>5. notes \in [1 .. n -> [column : 0 .. keys - 1, from : Int, to : Int]]
  <2>1. \A i \in 1 .. n : row[i] \in 0 .. keys - 1 /\ from[i] \in Int /\ to \in Int
    BY <1>1, <1>2
  <2> QED BY <1>3, <2>1
<1>6. ASSUME NEW i \in 1 .. n PROVE notes[i].from <= notes[i].to
  <2>1. from[i] \in 0 .. to
    BY <1>2
  <2> QED BY <1>4, <2>1
<1>7. ASSUME NEW i \in 1 .. n, NEW j \in 1 .. n, i # j PROVE notes[i].column # notes[j].column
  <2>1. row[i] # row[j]
    BY <1>2, <1>7
  <2> QED BY <1>4, <2>1
<1>8. Fit(notes, n, keys)
  BY <1>5, <1>6, <1>7 DEF Fit
<1>9. \A i \in 1 .. n : notes[i].column \in Usable(keys)
  BY <1>2, <1>4
<1> QED BY <1>8, <1>9, FewNotesSuit DEF keys

(* Holds at once suit, as many as there are columns for.                   *)
LEMMA HoldsSuit ==
  ASSUME NEW g, IsSlider(g), NEW count \in 1 .. 4, count <= Cardinality(Usable(g.total)),
         NEW notes \in RandomHoldNotes(g, count)
  PROVE  Suits(notes, g)
<1> DEFINE usable == Cardinality(Usable(g.total)) - Cardinality(g.prev.columns)
           apart == Greatest(Least(usable, count), 0)
           all == apart + Greatest(count - usable, 0)
<1>1. g.total \in Keys /\ SeenOnStage(g.prev, g.total)
  BY DEF IsSlider, Keys
<1>2. /\ IsFiniteSet(g.prev.columns) /\ Cardinality(g.prev.columns) \in Nat
      /\ Cardinality(g.prev.columns) <= Cardinality(Usable(g.total))
  BY <1>1, SeenIsFinite
<1>3. Cardinality(Usable(g.total)) \in Nat
  BY <1>1, UsableColumns DEF Keys
<1>4. usable \in Nat
  BY <1>2, <1>3
<1>5. apart + Cardinality(g.prev.columns) <= Cardinality(Usable(g.total)) /\ apart \in 0 .. count
      /\ all = count
  <2> HIDE DEF usable
  <2>1. apart = (IF usable <= count THEN usable ELSE count) /\ all = count
    BY <1>4 DEF Greatest, Least
  <2> HIDE DEF apart, all
  <2>2. apart \in 0 .. count /\ apart <= usable
    BY <1>4, <2>1
  <2> QED BY <1>2, <1>3, <2>1, <2>2 DEF usable
<1>6. PICK row \in HoldColumns(g, Usable(g.total), all, apart) : notes = Holding(row, g.length)
  BY DEF RandomHoldNotes
<1> HIDE DEF apart, all, usable
<1>7. IsRow(row, count, g.total, {})
  BY <1>1, <1>2, <1>5, <1>6, HoldsFindRoom
<1>8. DOMAIN row = 1 .. count
  BY <1>7 DEF IsRow
<1> DEFINE from == [i \in 1 .. count |-> 0]
<1>9. g.length \in Nat
  BY DEF IsSlider
<1>10. from \in [1 .. count -> 0 .. g.length]
  BY <1>9
<1>11. notes = [i \in 1 .. count |-> Note(row[i], from[i], g.length)]
  BY <1>6, <1>8 DEF Holding
<1>12. count \in 0 .. 10 /\ count <= 6
  OBVIOUS
<1> HIDE DEF from
<1> QED BY <1>7, <1>9, <1>10, <1>11, <1>12, RowsSuit

(* So do they in whatever number is drawn.                                 *)
LEMMA CountedHoldsSuit ==
  ASSUME NEW g, IsSlider(g), NEW p2 \in Nat, NEW p3 \in Nat, NEW p4 \in Nat,
         NEW notes \in RandomCountOfHolds(g, p2, p3, p4)
  PROVE  Suits(notes, g)
<1> DEFINE double == ~g.low /\ (g.sounds \cup g.head) \cap {"CLAP", "FINISH"} # {}
           q2 == CASE g.total = 2 -> 0
                   [] g.total = 3 -> Least(p2, 100)
                   [] g.total = 4 -> Least(p2, 300)
                   [] g.total = 5 -> Least(p2, 340)
                   [] OTHER     -> p2
           q3 == CASE g.total \in {2, 3} -> 0
                   [] g.total = 4 -> Least(p3, 40)
                   [] g.total = 5 -> Least(p3, 100)
                   [] OTHER     -> p3
           q4 == CASE g.total \in 2 .. 4 -> 0
                   [] g.total = 5 -> Least(p4, 30)
                   [] OTHER     -> p4
           r2 == IF double THEN 1000 ELSE q2
<1>1. g.total \in 2 .. 10
  BY DEF IsSlider
<1>2. q2 \in Int
  <2>1. Least(p2, 100) \in Int /\ Least(p2, 300) \in Int /\ Least(p2, 340) \in Int
    BY DEF Least
  <2> QED BY <2>1
<1>3. q3 \in Int /\ (g.total \in {2, 3} => q3 = 0)
  <2>1. Least(p3, 40) \in Int /\ Least(p3, 100) \in Int
    BY DEF Least
  <2>2. CASE g.total \in {2, 3}
    BY <2>2
  <2>3. CASE g.total \notin {2, 3}
    BY <2>1, <2>3
  <2> QED BY <2>2, <2>3
<1>4. q4 \in Int /\ (g.total \in 2 .. 4 => q4 = 0)
  <2>1. Least(p4, 30) \in Int
    BY DEF Least
  <2>2. CASE g.total \in 2 .. 4
    BY <2>2
  <2>3. CASE g.total \notin 2 .. 4
    BY <2>1, <2>3
  <2> QED BY <2>2, <2>3
<1>5. PICK count \in NoteCounts(r2, q3, q4, 0) : notes \in RandomHoldNotes(g, count)
  BY DEF RandomCountOfHolds
<1> HIDE DEF q2, q3, q4
<1>6. r2 \in Int
  BY <1>2
<1> HIDE DEF r2
<1>7. count \in 1 .. 4 /\ (q4 = 0 => count <= 3) /\ (q3 = 0 /\ q4 = 0 => count <= 2)
  <2>1. 0 \in Int
    OBVIOUS
  <2> QED BY <1>3, <1>4, <1>5, <1>6, <2>1, CountsAreBounded
<1>8. count <= Cardinality(Usable(g.total))
  <2>1. Cardinality(Usable(g.total)) = (IF g.total = 8 THEN 7 ELSE g.total)
    BY <1>1, UsableColumns DEF Keys
  <2>2. CASE g.total \in {2, 3}
    <3>1. q3 = 0 /\ q4 = 0
      BY <1>3, <1>4, <2>2
    <3> QED BY <1>7, <2>1, <2>2, <3>1
  <2>3. CASE g.total = 4
    <3>1. q4 = 0
      BY <1>4, <2>3
    <3> QED BY <1>7, <2>1, <2>3, <3>1
  <2>4. CASE g.total \in 5 .. 10
    BY <1>7, <2>1, <2>4
  <2> QED BY <1>1, <2>2, <2>3, <2>4
<1> QED BY <1>5, <1>7, <1>8, HoldsSuit

(* A column of its own for each note, not the one before.                  *)
LEMMA FirstColumnFits ==
  ASSUME NEW g, IsSlider(g), NEW apart, NEW column \in FirstColumns(g, apart)
  PROVE  column \in Usable(g.total)
<1>1. g.total \in Keys /\ SeenOnStage(g.prev, g.total) /\ g.x \in Int
  BY DEF IsSlider, Keys
<1>2. GetColumn(g.x, g.total) \in Usable(g.total)
  BY <1>1, ColumnIsUsable
<1>3. CASE apart /\ Cardinality(g.prev.columns) < g.total
  <2>1. ~(Usable(g.total) \subseteq g.prev.columns)
    <3>1. SUFFICES ASSUME Usable(g.total) \subseteq g.prev.columns PROVE FALSE
      OBVIOUS
    <3>2. /\ IsFiniteSet(g.prev.columns) /\ Cardinality(g.prev.columns) \in Nat
          /\ g.total = 8 => Cardinality(g.prev.columns) <= 6
      BY <1>1, SeenIsFinite
    <3>3. Cardinality(Usable(g.total)) <= Cardinality(g.prev.columns)
      BY <3>1, <3>2, FS_Subset
    <3>4. Cardinality(Usable(g.total)) = (IF g.total = 8 THEN 7 ELSE g.total)
      BY <1>1, UsableColumns
    <3> QED BY <1>1, <1>3, <3>2, <3>3, <3>4 DEF Keys
  <2>2. column \in FindAvailable(GetColumn(g.x, g.total), Usable(g.total), g.prev.columns)
    BY <1>3 DEF FirstColumns, FindFree
  <2> QED BY <1>2, <2>1, <2>2, FindsFreeColumn
<1>4. CASE ~(apart /\ Cardinality(g.prev.columns) < g.total)
  BY <1>2, <1>4 DEF FirstColumns
<1> QED BY <1>3, <1>4

(* Notes of which no two in turn share a column suit.                      *)
LEMMA SliderNotesSuit ==
  ASSUME NEW g, IsSlider(g), NEW apart, NEW count \in Nat, count = 1 \/ g.segment # 0,
         NEW notes \in RandomSliderNotes(g, apart, count)
  PROVE  Suits(notes, g)
<1>1. g.total \in Keys /\ g.total >= 2
  BY DEF IsSlider, Keys
<1> DEFINE Follows(row, k) ==
             row[k] \in IF k = 1 THEN FirstColumns(g, apart)
                        ELSE FindFree(g, row[k - 1], {row[k - 1]})
<1>2. PICK row \in [1 .. count -> Usable(g.total) \cup {NoColumn}] :
        /\ \A k \in 1 .. count : Follows(row, k)
        /\ notes = [k \in 1 .. count |-> Note(row[k], (k - 1) * g.segment, (k - 1) * g.segment)]
  BY DEF RandomSliderNotes
<1>3. ASSUME NEW k \in 1 .. count PROVE row[k] \in Usable(g.total)
  <2>1. CASE k = 1
    <3>1. row[k] \in FirstColumns(g, apart)
      BY <1>2, <2>1
    <3> QED BY <3>1, FirstColumnFits
  <2>2. CASE k # 1
    <3>1. row[k] \in FindAvailable(row[k - 1], Usable(g.total), {row[k - 1]})
      BY <1>2, <2>2 DEF FindFree
    <3>2. ~(Usable(g.total) \subseteq {row[k - 1]})
      <4>1. g.total - 1 \in Usable(g.total) /\ g.total - 2 \in Usable(g.total)
        BY <1>1 DEF Usable, RandomStart, Keys
      <4>2. g.total - 1 # g.total - 2
        BY <1>1 DEF Keys
      <4> QED BY <4>1, <4>2
    <3> DEFINE before == row[k - 1]
    <3>3. before \in {row[k - 1]}
      OBVIOUS
    <3> HIDE DEF before
    <3> QED BY <3>1, <3>2, <3>3, FindsFreeColumn
  <2> QED BY <2>1, <2>2
<1> HIDE DEF Follows
<1>4. row \in [1 .. count -> Usable(g.total)]
  BY <1>2, <1>3
<1>5. InTurn(notes, row, count, g.segment)
  BY <1>2 DEF InTurn
<1> QED BY <1>4, <1>5, NotesInTurnSuit

(***************************************************************************)
(* Stairs                                                                  *)
(***************************************************************************)

(* Where a stair is and whether it goes up.                                *)
StairSteps(keys) == [column : Usable(keys), up : BOOLEAN]

(* Its next step.                                                          *)
Climb(step, keys) ==
  LET rising == IF step.up THEN step.column < keys - 1 ELSE step.column <= RandomStart(keys)
  IN  [column |-> IF rising THEN step.column + 1 ELSE step.column - 1, up |-> rising]

(* The form of the recursive function of generate_stair.                   *)
IsStair(f, m, start, keys) ==
  f = [k \in 0 .. m |-> IF k = 0 THEN start ELSE Climb(f[k - 1], keys)]

(* A step of a stair is on the stage after one on the stage.               *)
LEMMA StairClimbs ==
  ASSUME NEW keys \in 2 .. 10, NEW step \in StairSteps(keys)
  PROVE  Climb(step, keys) \in StairSteps(keys)
<1> DEFINE c == step.column
           rising == IF step.up THEN c < keys - 1 ELSE c <= RandomStart(keys)
<1>1. c \in Usable(keys) /\ step.up \in BOOLEAN
  BY DEF StairSteps
<1>2. rising \in BOOLEAN
  <2>1. (c < keys - 1) \in BOOLEAN /\ (c <= RandomStart(keys)) \in BOOLEAN
    OBVIOUS
  <2>2. CASE step.up
    BY <2>1, <2>2
  <2>3. CASE ~step.up
    BY <2>1, <2>3
  <2> QED BY <2>2, <2>3
<1>3. (rising => c + 1 \in Usable(keys)) /\ (~rising => c - 1 \in Usable(keys))
  <2> HIDE DEF c
  <2>1. c \in Int /\ RandomStart(keys) \in 0 .. 1 /\ RandomStart(keys) <= c /\ c <= keys - 1
        /\ RandomStart(keys) < keys - 1
    BY <1>1 DEF Usable, RandomStart
  <2> QED BY <1>1, <2>1 DEF Usable
<1>4. Climb(step, keys) = [column |-> IF rising THEN c + 1 ELSE c - 1, up |-> rising]
  BY DEF Climb
<1> HIDE DEF c, rising
<1> QED BY <1>2, <1>3, <1>4 DEF StairSteps

(* There is a stair of every length: what its recursive function is        *)
(* defined by.                                                             *)
LEMMA StairExists ==
  ASSUME NEW keys \in 2 .. 10, NEW m \in Nat, NEW start \in StairSteps(keys)
  PROVE  \E f : IsStair(f, m, start, keys)
<1> DEFINE T == StairSteps(keys)
           step == [k \in 1 .. m |-> [d \in T |-> Climb(d, keys)]]
<1>1. step \in [1 .. m -> [T -> T]]
  BY StairClimbs
<1>2. \A k \in 1 .. m, d \in T : step[k][d] = Climb(d, keys)
  OBVIOUS
<1> HIDE DEF T, step
<1>3. PICK h : Iterates(h, m, T, start, step)
  BY <1>1, RecursionExists DEF T
<1>4. h \in [0 .. m -> T] /\ h[0] = start /\ \A k \in 1 .. m : h[k] = Climb(h[k - 1], keys)
  <2>1. \A k \in 1 .. m : k - 1 \in 0 .. m
    OBVIOUS
  <2> QED BY <1>2, <1>3, <2>1 DEF Iterates
<1>5. IsStair(h, m, start, keys)
  BY <1>4 DEF IsStair
<1> QED BY <1>5

(* And all of it is on the stage.                                          *)
LEMMA StairsStay ==
  ASSUME NEW keys \in 2 .. 10, NEW m \in Nat, NEW start \in StairSteps(keys), NEW f,
         IsStair(f, m, start, keys)
  PROVE  \A k \in 0 .. m : f[k] \in StairSteps(keys)
<1> DEFINE S == {k \in 0 .. m : f[k] \in StairSteps(keys)}
<1>1. f[0] = start /\ \A k \in 1 .. m : f[k] = Climb(f[k - 1], keys)
  BY DEF IsStair
<1>2. 0 \in S /\ \A k \in 1 .. m : k - 1 \in S => k \in S
  BY <1>1, StairClimbs
<1> HIDE DEF S
<1>3. \A k \in 0 .. m : k \in S
  BY <1>2, IntervalIsReached
<1> QED BY <1>3 DEF S

(* The notes of a stair suit.                                              *)
LEMMA StairSuits ==
  ASSUME NEW g, IsSlider(g), g.segment # 0, NEW up \in BOOLEAN
  PROVE  Suits(Stair(g, up), g)
<1> DEFINE start == [column |-> GetColumn(g.x, g.total), up |-> up]
           f == CHOOSE h : IsStair(h, g.spans, start, g.total)
           n == g.spans + 1
           columns == [i \in 1 .. n |-> f[i - 1].column]
<1>1. g.total \in Keys /\ g.total \in 2 .. 10 /\ g.x \in Int /\ g.spans \in Nat
  BY DEF IsSlider, Keys
<1>2. start \in StairSteps(g.total)
  BY <1>1, ColumnIsUsable DEF StairSteps
<1>3. Stair(g, up) = [i \in 1 .. n |-> Note(f[i - 1].column, (i - 1) * g.segment, (i - 1) * g.segment)]
  BY DEF Stair, IsStair, Climb
<1> HIDE DEF start, f
<1>4. \A k \in 0 .. g.spans : f[k] \in StairSteps(g.total)
  <2>1. IsStair(f, g.spans, start, g.total)
    BY <1>1, <1>2, StairExists DEF f
  <2> QED BY <1>1, <1>2, <2>1, StairsStay
<1>5. columns \in [1 .. n -> Usable(g.total)]
  <2>1. ASSUME NEW i \in 1 .. n PROVE f[i - 1].column \in Usable(g.total)
    <3>1. i - 1 \in 0 .. g.spans
      BY <1>1
    <3> QED BY <1>4, <3>1 DEF StairSteps
  <2> QED BY <2>1
<1>6. InTurn(Stair(g, up), columns, n, g.segment)
  BY <1>3 DEF InTurn
<1>7. n \in Nat
  BY <1>1
<1> HIDE DEF n, columns
<1> QED BY <1>5, <1>6, <1>7, NotesInTurnSuit

(***************************************************************************)
(* Two notes at a time                                                     *)
(***************************************************************************)
LEMMA SecondColumnDiffers ==
  ASSUME NEW keys \in 3 .. 10, NEW c \in Usable(keys), NEW interval \in 1 .. keys - 1 - Legacy(keys)
  PROVE  SecondColumn(keys, c, interval) \in 0 .. keys - 1 /\ SecondColumn(keys, c, interval) # c
<1>1. RandomStart(keys) = (IF keys = 8 THEN 1 ELSE 0) /\ Legacy(keys) = (IF keys \in 4 .. 8 THEN 1 ELSE 0)
  BY DEF RandomStart, Legacy
<1>2. c \in Int /\ c >= RandomStart(keys) /\ c <= keys - 1
  BY <1>1 DEF Usable
<1>3. interval \in Int /\ interval >= 1 /\ interval <= keys - 1 - Legacy(keys)
  BY <1>1
<1>4. CASE keys = 8
  <2>1. SecondColumn(keys, c, interval) = 1 + (IF c + interval >= 7 THEN c + interval - 8 ELSE c + interval)
    BY <1>1, <1>2, <1>3, <1>4 DEF SecondColumn
  <2>2. c >= 1 /\ interval <= 6
    BY <1>1, <1>2, <1>3, <1>4
  <2> QED BY <1>2, <1>3, <1>4, <2>1, <2>2
<1>5. CASE keys # 8
  <2> DEFINE legacy == Legacy(keys)
  <2>1. RandomStart(keys) = 0 /\ legacy \in {0, 1} /\ interval <= keys - 1 - legacy
    BY <1>1, <1>3, <1>5
  <2>2. SecondColumn(keys, c, interval)
          = IF c + interval >= keys THEN c + interval - keys + legacy ELSE c + interval
    <3>1. CASE c + interval >= keys
      BY <1>2, <1>3, <2>1, <3>1 DEF SecondColumn
    <3>2. CASE ~(c + interval >= keys)
      BY <1>2, <1>3, <2>1, <3>2 DEF SecondColumn
    <3> QED BY <3>1, <3>2
  <2>3. c >= 0
    BY <1>2, <2>1
  <2> HIDE DEF legacy
  <2> QED BY <1>2, <1>3, <2>1, <2>2, <2>3
<1> QED BY <1>4, <1>5

(* Pairs of notes on different columns, the k-th of them at this time.     *)
InPairs(notes, spans, segment, keys) ==
  /\ notes = [i \in 1 .. 2 * spans + 2 |-> notes[i]]
  /\ \A i \in 1 .. 2 * spans + 2 :
       \E c \in 0 .. keys - 1 :
         notes[i] = Note(c, ((i - 1) \div 2) * segment, ((i - 1) \div 2) * segment)
  /\ \A k \in 0 .. spans : notes[2 * k + 1].column # notes[2 * k + 2].column

(* Which of the pairs the i-th note belongs to, and whether it is the      *)
(* first or the second of them.                                            *)
LEMMA Halved ==
  ASSUME NEW spans \in Nat, NEW i \in 1 .. 2 * spans + 2
  PROVE  LET k == (i - 1) \div 2
         IN  /\ k \in 0 .. spans
             /\ i = 2 * k + 1 \/ i = 2 * k + 2
             /\ i % 2 = 1 => i \div 2 = k /\ i = 2 * k + 1
             /\ i % 2 # 1 => i \div 2 - 1 = k /\ i = 2 * k + 2
OBVIOUS

(* Pairs of notes suit.                                                    *)
LEMMA PairsSuit ==
  ASSUME NEW g, IsSlider(g), g.segment # 0, NEW notes, InPairs(notes, g.spans, g.segment, g.total)
  PROVE  Suits(notes, g)
<1> DEFINE segment == g.segment
           keys == g.total
           spans == g.spans
           n == 2 * spans + 2
           row(i) == (i - 1) \div 2
           time(k) == k * segment
<1>1. segment \in Nat \ {0} /\ spans \in Nat /\ n \in Nat /\ n > 1
  BY SegmentIsNatural DEF IsSlider
<1>2. \A i \in 1 .. n : row(i) \in 0 .. spans /\ (i = 2 * row(i) + 1 \/ i = 2 * row(i) + 2)
  <2>1. \A i \in 1 .. 2 * spans + 2 : LET k == (i - 1) \div 2
                                      IN  k \in 0 .. spans /\ (i = 2 * k + 1 \/ i = 2 * k + 2)
    BY <1>1, Halved
  <2> QED BY <2>1
<1>3. \A k \in 0 .. spans : time(k) \in Nat
  <2> HIDE DEF segment, spans
  <2> QED BY <1>1
<1>4. \A k, l \in 0 .. spans : k # l => time(k) # time(l)
  <2> SUFFICES ASSUME NEW k \in 0 .. spans, NEW l \in 0 .. spans, k # l PROVE time(k) # time(l)
    OBVIOUS
  <2> HIDE DEF segment, spans
  <2>1. k \in Nat /\ l \in Nat /\ (k < l \/ l < k)
    BY <1>1
  <2> QED BY <1>1, <2>1, TimesGrow
<1>5. DOMAIN notes = 1 .. n /\ Len(notes) = n
  BY <1>1 DEF InPairs
<1>6. ASSUME NEW i \in 1 .. n
      PROVE  /\ notes[i] \in [column : 0 .. keys - 1, from : Int, to : Int]
             /\ notes[i].from = time(row(i)) /\ notes[i].to = time(row(i))
  <2>1. PICK c \in 0 .. keys - 1 : notes[i] = Note(c, time(row(i)), time(row(i)))
    BY DEF InPairs
  <2>2. time(row(i)) \in Int
    BY <1>2, <1>3
  <2> HIDE DEF time, row
  <2> QED BY <2>1, <2>2 DEF Note
<1>7. \A k \in 0 .. spans : notes[2 * k + 1].column # notes[2 * k + 2].column
  BY DEF InPairs
<1> HIDE DEF row, time, n, keys, segment, spans
<1>8. Fit(notes, n, keys)
  <2>1. notes \in [1 .. n -> [column : 0 .. keys - 1, from : Int, to : Int]]
    <3>1. notes = [i \in 1 .. n |-> notes[i]]
      BY DEF InPairs, n, spans
    <3> QED BY <1>6, <3>1
  <2>2. \A i \in 1 .. n : notes[i].from <= notes[i].to
    BY <1>2, <1>3, <1>6
  <2>3. ASSUME NEW i \in 1 .. n, NEW j \in 1 .. n, i # j, notes[i].column = notes[j].column
        PROVE  notes[i].to < notes[j].from \/ notes[j].to < notes[i].from
    <3>1. row(i) # row(j)
      <4> SUFFICES ASSUME row(i) = row(j) PROVE FALSE
        OBVIOUS
      <4> DEFINE k == row(i)
      <4>1. k \in 0 .. spans /\ (i = 2 * k + 1 \/ i = 2 * k + 2) /\ (j = 2 * k + 1 \/ j = 2 * k + 2)
        BY <1>2
      <4> QED BY <1>7, <2>3, <4>1
    <3>2. row(i) \in 0 .. spans /\ row(j) \in 0 .. spans
      BY <1>2
    <3>3. time(row(i)) # time(row(j)) /\ time(row(i)) \in Nat /\ time(row(j)) \in Nat
      BY <1>3, <1>4, <3>1, <3>2
    <3> QED BY <1>6, <3>3
  <2> QED BY <2>1, <2>2, <2>3 DEF Fit
<1> DEFINE at == EndOfPattern(g, notes)
<1>9. \A i : i \in at <=> i \in 1 .. n /\ time(row(i)) = g.length
  BY <1>1, <1>5, <1>6 DEF EndOfPattern
<1> HIDE DEF at
<1>10. ASSUME NEW i \in at
       PROVE  at = {2 * row(i) + 1, 2 * row(i) + 2} /\ 2 * row(i) + 1 # 2 * row(i) + 2
  <2> DEFINE k == row(i)
  <2>1. k \in 0 .. spans /\ time(k) = g.length
    BY <1>2, <1>9
  <2>2. ASSUME NEW j \in at PROVE j = 2 * k + 1 \/ j = 2 * k + 2
    <3>1. row(j) \in 0 .. spans /\ time(row(j)) = g.length /\ (j = 2 * row(j) + 1 \/ j = 2 * row(j) + 2)
      BY <1>2, <1>9
    <3>2. row(j) = k
      BY <1>4, <2>1, <3>1
    <3> QED BY <3>1, <3>2
  <2> HIDE DEF k
  <2>3. 2 * k + 1 \in 1 .. n /\ 2 * k + 2 \in 1 .. n
    BY <1>1, <2>1 DEF n
  <2>4. row(2 * k + 1) = k /\ row(2 * k + 2) = k
    BY <1>1, <2>1 DEF row
  <2>5. 2 * k + 1 \in at /\ 2 * k + 2 \in at
    BY <1>9, <2>1, <2>3, <2>4
  <2>6. 2 * k + 1 # 2 * k + 2
    BY <1>1, <2>1
  <2> QED BY <2>2, <2>5, <2>6 DEF k
<1>11. Cardinality(at) <= 6
  <2>1. CASE at = {}
    BY <2>1, FS_EmptySet
  <2>2. CASE at # {}
    <3>1. PICK a, b : at = {a} \cup {b}
      <4>1. PICK i : i \in at
        BY <2>2
      <4> DEFINE x == 2 * row(i) + 1
                 y == 2 * row(i) + 2
      <4>2. at = {x, y}
        BY <1>10, <4>1
      <4> HIDE DEF x, y
      <4>3. {x, y} = {x} \cup {y}
        OBVIOUS
      <4> QED BY <4>2, <4>3
    <3>2. IsFiniteSet({a}) /\ Cardinality({a}) = 1
      BY FS_Singleton
    <3>3. Cardinality({a} \cup {b}) = IF b \in {a} THEN Cardinality({a}) ELSE Cardinality({a}) + 1
      BY <3>2, FS_AddElement
    <3>4. Cardinality(at) \in {1, 2}
      BY <3>1, <3>2, <3>3
    <3> QED BY <3>4
  <2> QED BY <2>1, <2>2
<1>12. \A i \in at : at # {i}
  BY <1>10
<1> QED BY <1>1, <1>8, <1>11, <1>12, EndSuits DEF at, keys

(* The second column of a pair is another one than the first, wherever it  *)
(* wraps around.                                                           *)
LEMMA MultipleNotesSuit ==
  ASSUME NEW g, IsSlider(g), g.segment # 0, NEW notes \in RandomMultipleNotes(g)
  PROVE  Suits(notes, g)
<1> DEFINE keys == g.total
           rows == {row \in [0 .. g.spans -> Usable(keys)] : row[0] = GetColumn(g.x, keys)}
           Single(row, k) == Note(row[k], k * g.segment, k * g.segment)
           Second(row, k, interval) ==
             [Single(row, k) EXCEPT !.column = SecondColumn(keys, row[k], interval)]
           Both(row, i, interval) ==
             IF i % 2 = 1 THEN Single(row, i \div 2) ELSE Second(row, i \div 2 - 1, interval)
<1>1. keys \in 2 .. 10 /\ g.spans \in Nat
  BY DEF IsSlider
<1>2. CASE keys > 2
  <2>1. PICK row \in rows, interval \in 1 .. keys - 1 - Legacy(keys) :
          notes = [i \in 1 .. 2 * g.spans + 2 |-> Both(row, i, interval)]
    BY <1>2 DEF RandomMultipleNotes
  <2>2. row \in [0 .. g.spans -> Usable(keys)]
    OBVIOUS
  <2>3. keys \in 3 .. 10 /\ Usable(keys) \subseteq 0 .. keys - 1
    BY <1>1, <1>2, UsableColumns DEF Keys
  <2>4. \A k \in 0 .. g.spans : /\ row[k] \in Usable(keys) /\ row[k] \in 0 .. keys - 1
                                /\ SecondColumn(keys, row[k], interval) \in 0 .. keys - 1
                                /\ SecondColumn(keys, row[k], interval) # row[k]
    BY <2>2, <2>3, SecondColumnDiffers
  <2>5. \A k : Second(row, k, interval)
                 = Note(SecondColumn(keys, row[k], interval), k * g.segment, k * g.segment)
    BY DEF Note
  <2> HIDE DEF rows, Second, Single, keys
  <2>6. ASSUME NEW i \in 1 .. 2 * g.spans + 2
        PROVE  \E c \in 0 .. keys - 1 :
                 notes[i] = Note(c, ((i - 1) \div 2) * g.segment, ((i - 1) \div 2) * g.segment)
    <3> DEFINE k == (i - 1) \div 2
    <3>1. k \in 0 .. g.spans /\ (i % 2 = 1 => i \div 2 = k) /\ (i % 2 # 1 => i \div 2 - 1 = k)
      BY <1>1, Halved
    <3> HIDE DEF k
    <3>2. notes[i] = IF i % 2 = 1 THEN Single(row, k) ELSE Second(row, k, interval)
      BY <2>1, <3>1
    <3>3. \E c \in 0 .. keys - 1 : notes[i] = Note(c, k * g.segment, k * g.segment)
      BY <2>4, <2>5, <3>1, <3>2 DEF Single
    <3> QED BY <3>3 DEF k
  <2>7. ASSUME NEW k \in 0 .. g.spans PROVE notes[2 * k + 1].column # notes[2 * k + 2].column
    <3>1. /\ 2 * k + 1 \in 1 .. 2 * g.spans + 2 /\ 2 * k + 2 \in 1 .. 2 * g.spans + 2
          /\ (2 * k + 1) % 2 = 1 /\ (2 * k + 1) \div 2 = k
          /\ (2 * k + 2) % 2 = 0 /\ (2 * k + 2) \div 2 - 1 = k
      BY <1>1
    <3>2. notes[2 * k + 1] = Single(row, k) /\ notes[2 * k + 2] = Second(row, k, interval)
      BY <2>1, <3>1
    <3>3. Single(row, k).column = row[k]
          /\ Second(row, k, interval).column = SecondColumn(keys, row[k], interval)
      BY <2>5 DEF Single, Note
    <3> QED BY <2>4, <3>2, <3>3
  <2>8. notes = [i \in 1 .. 2 * g.spans + 2 |-> notes[i]]
    BY <2>1
  <2>9. InPairs(notes, g.spans, g.segment, g.total)
    BY <2>6, <2>7, <2>8 DEF InPairs, keys
  <2> QED BY <2>9, PairsSuit
<1>3. CASE ~(keys > 2)
  <2>1. PICK row \in rows : notes = [i \in 1 .. g.spans + 1 |-> Single(row, i - 1)]
    BY <1>3 DEF RandomMultipleNotes
  <2> DEFINE columns == [i \in 1 .. g.spans + 1 |-> row[i - 1]]
  <2>2. columns \in [1 .. g.spans + 1 -> Usable(keys)]
    <3>1. ASSUME NEW i \in 1 .. g.spans + 1 PROVE row[i - 1] \in Usable(keys)
      <4>1. i - 1 \in 0 .. g.spans
        BY <1>1
      <4> QED BY <4>1
    <3> QED BY <3>1
  <2>3. InTurn(notes, columns, g.spans + 1, g.segment)
    BY <2>1 DEF InTurn
  <2>4. g.spans + 1 \in Nat
    BY <1>1
  <2> QED BY <2>2, <2>3, <2>4, NotesInTurnSuit
<1> QED BY <1>2, <1>3

(* Holds that begin one after the other suit if there are fewer spans than *)
(* columns.                                                                *)
LEMMA TiledHoldsSuit ==
  ASSUME NEW g, IsSlider(g), g.spans < Cardinality(Usable(g.total)) - 1,
         NEW notes \in TiledHoldNotes(g)
  PROVE  Suits(notes, g)
<1> DEFINE n == Least(g.spans, g.total)
           to == g.segment * g.spans
           from == [i \in 1 .. n |-> (i - 1) * g.segment]
<1>1. g.total \in Keys /\ g.spans \in Nat \ {0} /\ g.x \in Int /\ SeenOnStage(g.prev, g.total)
  BY DEF IsSlider, Keys
<1>2. Cardinality(Usable(g.total)) = (IF g.total = 8 THEN 7 ELSE g.total)
  BY <1>1, UsableColumns
<1>3. n = g.spans
  BY <1>1, <1>2 DEF Least, Keys
<1>4. n \in 0 .. 10 /\ (g.total = 8 => n <= 6) /\ n <= Cardinality(Usable(g.total)) /\ n \in Nat
  BY <1>1, <1>2, <1>3 DEF Keys
<1>5. g.segment \in Nat
  BY SegmentIsNatural
<1>6. to \in Nat
  BY <1>1, <1>5
<1>7. from \in [1 .. n -> 0 .. to]
  <2>1. ASSUME NEW i \in 1 .. n PROVE (i - 1) * g.segment \in 0 .. to
    <3> DEFINE segment == g.segment
               spans == g.spans
               e == i - 1
               rest == spans - e
    <3>1. e \in Nat /\ rest \in Nat /\ spans = e + rest
      BY <1>1, <1>3
    <3>2. segment \in Nat /\ spans \in Nat
      BY <1>1, <1>5
    <3> HIDE DEF segment, spans, e, rest
    <3>3. e * segment \in Nat /\ rest * segment \in Nat
      BY <3>1, <3>2
    <3>4. segment * spans = e * segment + rest * segment
      BY <3>1, <3>2
    <3>5. e * segment \in 0 .. segment * spans
      BY <3>3, <3>4
    <3> QED BY <3>5 DEF segment, spans, e
  <2> QED BY <2>1
<1>8. PICK row \in HoldColumns(g, {GetColumn(g.x, g.total)}, n, 0) :
        notes = [i \in 1 .. n |-> Note(row[i], (i - 1) * g.segment, to)]
  BY DEF TiledHoldNotes
<1>9. {GetColumn(g.x, g.total)} \in SUBSET Usable(g.total)
  BY <1>1, ColumnIsUsable
<1>10. IsFiniteSet(g.prev.columns)
  BY <1>1, SeenIsFinite
<1> HIDE DEF n, to
<1>11. IsRow(row, n, g.total, {})
  <2>1. 0 \in 0 .. n
    BY <1>4
  <2> QED BY <1>1, <1>4, <1>8, <1>9, <1>10, <2>1, HoldsFindRoom
<1>12. notes = [i \in 1 .. n |-> Note(row[i], from[i], to)]
  BY <1>8
<1> HIDE DEF from
<1> QED BY <1>4, <1>6, <1>7, <1>11, <1>12, RowsSuit

(***************************************************************************)
(* A hold, and notes beside it                                             *)
(***************************************************************************)

(* Notes of the first k rows beside the hold, at most two in each.         *)
AreBeside(notes, n, g, hold, k) ==
  /\ notes \in [1 .. n -> [column : Usable(g.total) \ {hold}, from : Nat, to : Nat]]
  /\ \A i \in 1 .. n :
       /\ notes[i].from = notes[i].to
       /\ \E r \in Nat : r < k /\ notes[i].to = r * g.segment
  /\ \A i, j \in 1 .. n : i # j => notes[i].column # notes[j].column \/ notes[i].to # notes[j].to
  /\ \A time \in Nat : \E a, b \in Int : \A i \in 1 .. n : notes[i].to = time => i \in {a, b}

(* All that the first k rounds may return: notes and the column the next   *)
(* search begins with.                                                     *)
Besides(g, hold, k) ==
  {beside \in [notes : Seq([column : Usable(g.total) \ {hold}, from : Nat, to : Nat]),
               next : Usable(g.total)] :
     AreBeside(beside.notes, Len(beside.notes), g, hold, k)}

(* The columns of a row.                                                   *)
IsBesideRow(row, m, keys, hold) ==
  /\ row \in [1 .. m -> Usable(keys) \ {hold}]
  /\ \A i, j \in 1 .. m : i # j => row[i] # row[j]

(* A row beside the hold overlaps neither with it nor with the rows        *)
(* before.                                                                 *)
LEMMA RowIsAdded ==
  ASSUME NEW g, IsSlider(g), g.segment # 0, NEW hold, NEW k \in Nat, NEW n \in Nat, NEW notes,
         AreBeside(notes, n, g, hold, k), NEW m \in 0 .. 2, NEW row,
         IsBesideRow(row, m, g.total, hold)
  PROVE  /\ AreBeside(notes \o NotesAt(row, k * g.segment), n + m, g, hold, k + 1)
         /\ Len(notes \o NotesAt(row, k * g.segment)) = n + m
         /\ notes \o NotesAt(row, k * g.segment)
              \in Seq([column : Usable(g.total) \ {hold}, from : Nat, to : Nat])
<1> DEFINE T == [column : Usable(g.total) \ {hold}, from : Nat, to : Nat]
           time == k * g.segment
           added == NotesAt(row, time)
           all == notes \o added
<1>1. g.segment \in Nat \ {0}
  BY SegmentIsNatural
<1>2. time \in Nat
  BY <1>1
<1>3. ASSUME NEW r \in Nat, r < k PROVE r * g.segment # time
  BY <1>1, <1>2, <1>3, TimesGrow
<1> HIDE DEF time
<1>4. added = [i \in 1 .. m |-> [column |-> row[i], from |-> time, to |-> time]]
  BY DEF NotesAt, IsBesideRow
<1>5. added \in [1 .. m -> T]
  <2>1. \A i \in 1 .. m : row[i] \in Usable(g.total) \ {hold}
    BY DEF IsBesideRow
  <2> QED BY <1>2, <1>4, <2>1
<1>6. \A i \in 1 .. m : added[i].column = row[i] /\ added[i].from = time /\ added[i].to = time
  BY <1>4
<1>7. \A i, j \in 1 .. m : i # j => added[i].column # added[j].column
  BY <1>6 DEF IsBesideRow
<1>8. notes \in [1 .. n -> T]
  BY DEF AreBeside
<1>9. \A i \in 1 .. n : notes[i].from = notes[i].to /\ notes[i].to \in Nat /\ notes[i].to # time
                        /\ \E r \in Nat : r < k /\ notes[i].to = r * g.segment
  BY <1>3, <1>8 DEF AreBeside
<1>10. \A i, j \in 1 .. n : i # j => notes[i].column # notes[j].column \/ notes[i].to # notes[j].to
  BY DEF AreBeside
<1>11. \A u \in Nat : \E a, b \in Int : \A i \in 1 .. n : notes[i].to = u => i \in {a, b}
  BY DEF AreBeside
<1> HIDE DEF T, added
<1>12. /\ all \in Seq(T) /\ Len(all) = n + m /\ all \in [1 .. n + m -> T]
       /\ \A i \in 1 .. n : all[i] = notes[i]
       /\ \A i \in 1 .. m : all[n + i] = added[i]
  <2>1. notes \in Seq(T) /\ Len(notes) = n /\ added \in Seq(T) /\ Len(added) = m
    BY <1>5, <1>8
  <2>2. all \in Seq(T) /\ Len(all) = n + m
        /\ \A i \in 1 .. n + m : all[i] = IF i <= n THEN notes[i] ELSE added[i - n]
    BY <2>1, ConcatProperties
  <2> HIDE DEF all
  <2>3. all \in [1 .. n + m -> T]
    BY <2>2
  <2>4. \A i \in 1 .. n : i \in 1 .. n + m /\ i <= n
    OBVIOUS
  <2>5. \A i \in 1 .. m : n + i \in 1 .. n + m /\ ~(n + i <= n) /\ (n + i) - n = i
    OBVIOUS
  <2> QED BY <2>2, <2>3, <2>4, <2>5
<1> HIDE DEF all
<1>13. \A i \in 1 .. n + m : i \in 1 .. n \/ (i - n \in 1 .. m /\ i = n + (i - n))
  OBVIOUS
<1>14. ASSUME NEW i \in 1 .. n + m
       PROVE  all[i].from = all[i].to /\ \E r \in Nat : r < k + 1 /\ all[i].to = r * g.segment
  <2>1. CASE i \in 1 .. n
    <3>1. PICK r \in Nat : r < k /\ notes[i].to = r * g.segment
      BY <1>9, <2>1
    <3>2. r < k + 1
      BY <3>1
    <3> QED BY <1>9, <1>12, <2>1, <3>1, <3>2
  <2>2. CASE i - n \in 1 .. m /\ i = n + (i - n)
    <3>1. all[i] = added[i - n]
      BY <1>12, <2>2
    <3>2. all[i].from = time /\ all[i].to = time
      BY <1>6, <2>2, <3>1
    <3> QED BY <3>2 DEF time
  <2> QED BY <1>13, <2>1, <2>2
<1>15. ASSUME NEW i \in 1 .. n + m, NEW j \in 1 .. n + m, i # j
       PROVE  all[i].column # all[j].column \/ all[i].to # all[j].to
  <2>1. ASSUME NEW a \in 1 .. n, NEW b \in 1 .. m PROVE all[a].to # all[n + b].to
    BY <1>6, <1>9, <1>12
  <2>2. CASE i \in 1 .. n /\ j \in 1 .. n
    BY <1>10, <1>12, <1>15, <2>2
  <2>3. CASE i - n \in 1 .. m /\ i = n + (i - n) /\ j - n \in 1 .. m /\ j = n + (j - n)
    <3>1. i - n # j - n /\ all[i] = added[i - n] /\ all[j] = added[j - n]
      BY <1>12, <1>15, <2>3
    <3> QED BY <1>7, <2>3, <3>1
  <2>4. CASE i \in 1 .. n /\ j - n \in 1 .. m /\ j = n + (j - n)
    BY <2>1, <2>4
  <2>5. CASE j \in 1 .. n /\ i - n \in 1 .. m /\ i = n + (i - n)
    BY <2>1, <2>5
  <2> QED BY <1>13, <2>2, <2>3, <2>4, <2>5
<1>16. ASSUME NEW u \in Nat
       PROVE  \E a, b \in Int : \A i \in 1 .. n + m : all[i].to = u => i \in {a, b}
  <2>1. CASE u = time
    <3>1. \A i \in 1 .. n + m : all[i].to = u => i \in {n + 1, n + 2}
      <4> SUFFICES ASSUME NEW i \in 1 .. n + m, all[i].to = u PROVE i \in {n + 1, n + 2}
        OBVIOUS
      <4>1. i \notin 1 .. n
        BY <1>9, <1>12, <2>1
      <4> QED BY <1>13, <4>1
    <3>2. n + 1 \in Int /\ n + 2 \in Int
      OBVIOUS
    <3> QED BY <3>1, <3>2
  <2>2. CASE u # time
    <3>1. PICK a \in Int, b \in Int : \A i \in 1 .. n : notes[i].to = u => i \in {a, b}
      BY <1>11
    <3>2. ASSUME NEW i \in 1 .. n + m, all[i].to = u PROVE i \in {a, b}
      <4>1. i \in 1 .. n
        <5>1. ASSUME i - n \in 1 .. m, i = n + (i - n) PROVE FALSE
          <6>1. all[i] = added[i - n]
            BY <1>12, <5>1
          <6> QED BY <1>6, <2>2, <3>2, <5>1, <6>1
        <5> QED BY <1>13, <5>1
      <4> QED BY <1>12, <3>1, <3>2, <4>1
    <3> QED BY <3>2
  <2> QED BY <2>1, <2>2
<1>17. AreBeside(all, n + m, g, hold, k + 1)
  BY <1>12, <1>14, <1>15, <1>16 DEF AreBeside, T
<1> QED BY <1>12, <1>17 DEF all, T, added, time

(* The columns of one row.                                                 *)
BesideRow(g, hold, count, next) ==
  LET Beside(initial, row) == FindFree(g, initial, {hold} \cup row)
  IN  IF count = 0 THEN {<<>>}
      ELSE IF count = 1 THEN {<<a>> : a \in Beside(next, {})}
      ELSE UNION {{<<a, b>> : b \in Beside(a, {a})} : a \in Beside(next, {})}

(* What one round makes of all that the rounds before may return.          *)
BesideRound(g, hold, count, k, before) ==
  IF g.head \cap {"WHISTLE", "FINISH", "CLAP"} = {} /\ k * g.segment = 0 THEN before
  ELSE UNION {{[notes |-> beside.notes \o NotesAt(row, k * g.segment),
                next  |-> IF row = <<>> THEN beside.next ELSE Last(row)] :
                 row \in BesideRow(g, hold, count, beside.next)} : beside \in before}

(* Before the first of them.                                               *)
BesideStart(g) == {[notes |-> <<>>, next |-> next] : next \in Usable(g.total)}

(* The form of the recursive function of generate_hold_and_normal_notes.   *)
IsBeside(f, g, hold, count) ==
  f = [k \in 0 .. g.spans |->
         BesideRound(g, hold, count, k, IF k = 0 THEN BesideStart(g) ELSE f[k - 1])]

(* The columns of a row are different ones, and not that of the hold.      *)
LEMMA BesideRowFits ==
  ASSUME NEW g, IsSlider(g), NEW hold \in Usable(g.total), NEW count \in 0 .. 2,
         count <= g.total - 1, NEW next \in Usable(g.total),
         NEW row \in BesideRow(g, hold, count, next)
  PROVE  /\ \E m \in 0 .. 2 : IsBesideRow(row, m, g.total, hold)
         /\ row # <<>> => Last(row) \in Usable(g.total)
<1> DEFINE keys == g.total
<1>1. keys \in 2 .. 10
  BY DEF IsSlider
<1>2. ASSUME NEW initial \in Usable(keys), NEW used, NEW a \in FindFree(g, initial, {hold} \cup used),
             ~(Usable(keys) \subseteq {hold} \cup used)
      PROVE  a \in Usable(keys) /\ a # hold /\ a \notin used
  <2>1. a \in FindAvailable(initial, Usable(keys), {hold} \cup used)
    BY <1>2 DEF FindFree
  <2> QED BY <1>2, <2>1, FindsFreeColumn
<1>3. \A x : ~(Usable(keys) \subseteq {x})
  <2>1. keys - 1 \in Usable(keys) /\ keys - 2 \in Usable(keys) /\ keys - 1 # keys - 2
    BY <1>1 DEF Usable, RandomStart
  <2> QED BY <2>1
<1>4. keys >= 3 => \A x, y : ~(Usable(keys) \subseteq {x, y})
  <2> SUFFICES ASSUME keys >= 3 PROVE \A x, y : ~(Usable(keys) \subseteq {x, y})
    OBVIOUS
  <2>1. /\ keys - 1 \in Usable(keys) /\ keys - 2 \in Usable(keys) /\ keys - 3 \in Usable(keys)
        /\ keys - 1 # keys - 2 /\ keys - 1 # keys - 3 /\ keys - 2 # keys - 3
    BY <1>1 DEF Usable, RandomStart
  <2> QED BY <2>1
<1>5. \A a \in FindFree(g, next, {hold} \cup {}) : a \in Usable(keys) /\ a # hold
  <2>1. ~(Usable(keys) \subseteq {hold} \cup {})
    BY <1>3
  <2> QED BY <1>2, <2>1
<1>6. CASE count = 0
  <2>1. row = <<>>
    BY <1>6 DEF BesideRow
  <2>2. IsBesideRow(<<>>, 0, keys, hold)
    BY DEF IsBesideRow
  <2> QED BY <2>1, <2>2
<1>7. CASE count = 1
  <2>1. PICK a \in FindFree(g, next, {hold} \cup {}) : row = <<a>>
    BY <1>7 DEF BesideRow
  <2>2. a \in Usable(keys) /\ a # hold
    BY <1>5
  <2>3. IsBesideRow(<<a>>, 1, keys, hold)
    BY <2>2 DEF IsBesideRow
  <2>4. Last(<<a>>) = a
    BY DEF Last
  <2> QED BY <2>1, <2>2, <2>3, <2>4
<1>8. CASE count = 2
  <2>8. BesideRow(g, hold, count, next)
          = UNION {{<<a, b>> : b \in FindFree(g, a, {hold} \cup {a})} :
                     a \in FindFree(g, next, {hold} \cup {})}
    <3>1. count # 0 /\ count # 1
      BY <1>8
    <3> QED BY <3>1, Zenon DEF BesideRow
  <2>9. PICK a \in FindFree(g, next, {hold} \cup {}) :
          row \in {<<a, b>> : b \in FindFree(g, a, {hold} \cup {a})}
    BY <2>8
  <2>1. PICK b \in FindFree(g, a, {hold} \cup {a}) : row = <<a, b>>
    BY <2>9
  <2>2. a \in Usable(keys) /\ a # hold
    BY <1>5
  <2>3. ~(Usable(keys) \subseteq {hold} \cup {a})
    BY <1>1, <1>4, <1>8
  <2>4. b \in Usable(keys) /\ b # hold /\ b # a
    <3> DEFINE used == {a}
    <3>1. b \in FindFree(g, a, {hold} \cup used) /\ ~(Usable(keys) \subseteq {hold} \cup used)
      BY <2>3
    <3>2. a \in used
      OBVIOUS
    <3> HIDE DEF used
    <3>3. b \in Usable(keys) /\ b # hold /\ b \notin used
      BY <1>2, <2>2, <3>1
    <3> QED BY <3>2, <3>3
  <2>5. IsBesideRow(<<a, b>>, 2, keys, hold)
    BY <2>2, <2>4 DEF IsBesideRow
  <2>6. Last(<<a, b>>) = b
    BY DEF Last
  <2> QED BY <2>1, <2>4, <2>5, <2>6
<1> QED BY <1>6, <1>7, <1>8

(* One round adds one row, whichever column its search begins with.        *)
LEMMA RoundKeepsBeside ==
  ASSUME NEW g, IsSlider(g), g.segment # 0, NEW hold \in Usable(g.total), NEW count \in 0 .. 2,
         count <= g.total - 1, NEW k \in Nat, NEW before \in SUBSET Besides(g, hold, k)
  PROVE  BesideRound(g, hold, count, k, before) \in SUBSET Besides(g, hold, k + 1)
<1> DEFINE T == [column : Usable(g.total) \ {hold}, from : Nat, to : Nat]
<1>1. CASE g.head \cap {"WHISTLE", "FINISH", "CLAP"} = {} /\ k * g.segment = 0
  <2>1. Besides(g, hold, k) \subseteq Besides(g, hold, k + 1)
    <3> SUFFICES ASSUME NEW beside \in Besides(g, hold, k) PROVE beside \in Besides(g, hold, k + 1)
      OBVIOUS
    <3> DEFINE n == Len(beside.notes)
    <3>1. AreBeside(beside.notes, n, g, hold, k)
      BY DEF Besides
    <3>2. AreBeside(beside.notes, n, g, hold, k + 1)
      <4>1. \A r \in Nat : r < k => r < k + 1
        OBVIOUS
      <4> HIDE DEF n
      <4> QED BY <3>1, <4>1 DEF AreBeside
    <3> QED BY <3>2 DEF Besides
  <2> QED BY <1>1, <2>1 DEF BesideRound
<1>2. CASE ~(g.head \cap {"WHISTLE", "FINISH", "CLAP"} = {} /\ k * g.segment = 0)
  <2> DEFINE With(beside, row) ==
               [notes |-> beside.notes \o NotesAt(row, k * g.segment),
                next |-> IF row = <<>> THEN beside.next ELSE Last(row)]
  <2>9. BesideRound(g, hold, count, k, before)
          = UNION {{With(beside, row) : row \in BesideRow(g, hold, count, beside.next)} :
                     beside \in before}
    BY <1>2 DEF BesideRound
  <2> SUFFICES ASSUME NEW beside \in before, NEW row \in BesideRow(g, hold, count, beside.next)
               PROVE  With(beside, row) \in Besides(g, hold, k + 1)
    <3> HIDE DEF With
    <3> QED BY <2>9
  <2> DEFINE n == Len(beside.notes)
             added == beside.notes \o NotesAt(row, k * g.segment)
             next == IF row = <<>> THEN beside.next ELSE Last(row)
  <2>1. beside \in [notes : Seq(T), next : Usable(g.total)] /\ AreBeside(beside.notes, n, g, hold, k)
    BY DEF Besides
  <2>2. beside.next \in Usable(g.total) /\ n \in Nat
    BY <2>1
  <2>3. PICK m \in 0 .. 2 : IsBesideRow(row, m, g.total, hold)
    BY <2>2, BesideRowFits
  <2>4. next \in Usable(g.total)
    BY <2>2, BesideRowFits
  <2>5. /\ AreBeside(added, n + m, g, hold, k + 1)
        /\ Len(added) = n + m
        /\ added \in Seq(T)
    <3> DEFINE notes == beside.notes
    <3>1. AreBeside(notes, n, g, hold, k)
      BY <2>1
    <3> HIDE DEF notes, n
    <3>2. /\ AreBeside(notes \o NotesAt(row, k * g.segment), n + m, g, hold, k + 1)
          /\ Len(notes \o NotesAt(row, k * g.segment)) = n + m
          /\ notes \o NotesAt(row, k * g.segment) \in Seq(T)
      BY <2>2, <2>3, <3>1, RowIsAdded
    <3> QED BY <3>2 DEF notes
  <2> HIDE DEF added, next, n
  <2>6. AreBeside(added, Len(added), g, hold, k + 1)
    BY <2>5
  <2> DEFINE after == [notes |-> added, next |-> next]
  <2>7. after \in [notes : Seq(T), next : Usable(g.total)] /\ after.notes = added
    BY <2>4, <2>5
  <2> HIDE DEF after
  <2>8. after \in Besides(g, hold, k + 1)
    BY <2>6, <2>7 DEF Besides
  <2> QED BY <2>8 DEF after, added, next
<1> QED BY <1>1, <1>2

(* After all rounds there is a row at every time.                          *)
LEMMA BesideRowsFit ==
  ASSUME NEW g, IsSlider(g), g.segment # 0, NEW hold \in Usable(g.total), NEW count \in 0 .. 2,
         count <= g.total - 1, NEW notes \in BesideRows(g, hold, count)
  PROVE  \E n \in Nat : AreBeside(notes, n, g, hold, g.spans + 1)
<1> DEFINE m == g.spans
           S == [k \in 0 .. m |-> SUBSET Besides(g, hold, k + 1)]
           start == BesideRound(g, hold, count, 0, BesideStart(g))
           step == [k \in 1 .. m |-> [d \in SUBSET Besides(g, hold, k) |->
                                        BesideRound(g, hold, count, k, d)]]
           f == CHOOSE h : IsBeside(h, g, hold, count)
<1>1. m \in Nat
  BY DEF IsSlider
<1>2. start \in SUBSET Besides(g, hold, 0 + 1)
  <2>1. BesideStart(g) \in SUBSET Besides(g, hold, 0)
    <3> SUFFICES ASSUME NEW next \in Usable(g.total)
                 PROVE  [notes |-> <<>>, next |-> next] \in Besides(g, hold, 0)
      BY DEF BesideStart
    <3>1. AreBeside(<<>>, 0, g, hold, 0) /\ Len(<<>>) = 0
      BY DEF AreBeside
    <3> QED BY <3>1 DEF Besides
  <2>2. 0 \in Nat
    OBVIOUS
  <2> QED BY <2>1, <2>2, RoundKeepsBeside
<1>3. ASSUME NEW k \in 1 .. m, NEW d \in SUBSET Besides(g, hold, k)
      PROVE  BesideRound(g, hold, count, k, d) \in SUBSET Besides(g, hold, k + 1)
  <2>1. k \in Nat
    OBVIOUS
  <2> QED BY <2>1, RoundKeepsBeside
<1>4. \A k \in 1 .. m : \A d \in SUBSET Besides(g, hold, k) : step[k][d] = BesideRound(g, hold, count, k, d)
  OBVIOUS
<1>5. S[0] = SUBSET Besides(g, hold, 0 + 1)
      /\ \A k \in 1 .. m : S[k - 1] = SUBSET Besides(g, hold, k) /\ S[k] = SUBSET Besides(g, hold, k + 1)
  <2>1. 0 \in 0 .. m /\ \A k \in 1 .. m : k \in 0 .. m /\ k - 1 \in 0 .. m /\ (k - 1) + 1 = k
    BY <1>1
  <2>2. \A k \in 0 .. m : S[k] = SUBSET Besides(g, hold, k + 1)
    OBVIOUS
  <2> HIDE DEF S
  <2>3. \A k \in 1 .. m : S[k - 1] = SUBSET Besides(g, hold, k)
    <3> SUFFICES ASSUME NEW k \in 1 .. m PROVE S[k - 1] = SUBSET Besides(g, hold, k)
      OBVIOUS
    <3>1. S[k - 1] = SUBSET Besides(g, hold, (k - 1) + 1)
      BY <2>1, <2>2
    <3> QED BY <2>1, <3>1
  <2> QED BY <2>1, <2>2, <2>3
<1> HIDE DEF S, start, step, m
<1>6. Stays(S, m, start, step)
  BY <1>2, <1>3, <1>4, <1>5 DEF Stays
<1>7. PICK h : Loops(h, S, m, start, step)
  BY <1>1, <1>6, LoopExists
<1>8. IsBeside(h, g, hold, count)
  <2>1. h = [k \in 0 .. m |-> h[k]] /\ h[0] = start
        /\ \A k \in 1 .. m : h[k] = BesideRound(g, hold, count, k, h[k - 1])
    BY <1>4, <1>5, <1>7 DEF Loops
  <2>2. \A k \in 0 .. m : h[k] = BesideRound(g, hold, count, k, IF k = 0 THEN BesideStart(g) ELSE h[k - 1])
    <3>1. h[0] = BesideRound(g, hold, count, 0, BesideStart(g))
      BY <2>1 DEF start
    <3>2. \A k \in 0 .. m : k = 0 \/ (k \in 1 .. m /\ k # 0)
      BY <1>1
    <3> QED BY <2>1, <3>1, <3>2
  <2> QED BY <2>1, <2>2 DEF IsBeside, m
<1>9. IsBeside(f, g, hold, count)
  BY <1>8
<1>10. PICK beside \in f[g.spans] : notes = beside.notes
  BY DEF BesideRows, IsBeside, BesideRound, BesideRow, BesideStart
<1> HIDE DEF f
<1>11. f[0] = start /\ \A k \in 1 .. m : f[k] = BesideRound(g, hold, count, k, f[k - 1])
  <2>1. \A k \in 0 .. m : f[k] = BesideRound(g, hold, count, k, IF k = 0 THEN BesideStart(g) ELSE f[k - 1])
    BY <1>9 DEF IsBeside, m
  <2>2. 0 \in 0 .. m /\ \A k \in 1 .. m : k \in 0 .. m /\ k # 0
    BY <1>1
  <2> QED BY <2>1, <2>2 DEF start
<1>12. f[m] \in S[m]
  BY <1>1, <1>2, <1>3, <1>5, <1>11, LoopStays
<1>13. f[m] \in SUBSET Besides(g, hold, m + 1)
  <2>1. m \in 1 .. m
    BY DEF m, IsSlider
  <2> QED BY <1>5, <1>12, <2>1
<1>14. beside \in Besides(g, hold, m + 1)
  BY <1>10, <1>13 DEF m
<1>15. Len(beside.notes) \in Nat /\ AreBeside(beside.notes, Len(beside.notes), g, hold, m + 1)
  BY <1>14 DEF Besides
<1> QED BY <1>10, <1>15 DEF m

(* A hold and the rows beside it suit.                                     *)
LEMMA HoldAndBesideSuit ==
  ASSUME NEW g, IsSlider(g), NEW hold \in Usable(g.total), NEW n \in Nat, NEW k \in Nat, NEW notes,
         AreBeside(notes, n, g, hold, k)
  PROVE  Suits(<<Note(hold, 0, g.length)>> \o notes, g)
<1> DEFINE keys == g.total
           T == [column : 0 .. keys - 1, from : Nat, to : Nat]
           head == <<Note(hold, 0, g.length)>>
           all == head \o notes
           size == n + 1
<1>1. keys \in Keys /\ g.length \in Nat
  BY DEF IsSlider, Keys
<1>2. Usable(keys) \subseteq 0 .. keys - 1
  BY <1>1, UsableColumns
<1>3. \A i \in 1 .. n : /\ notes[i].column \in Usable(keys) /\ notes[i].column # hold
                        /\ notes[i].to \in Nat /\ notes[i].from = notes[i].to
  BY DEF AreBeside
<1>4. \A i, j \in 1 .. n : i # j => notes[i].column # notes[j].column \/ notes[i].to # notes[j].to
  BY DEF AreBeside
<1>5. PICK a \in Int, b \in Int : \A i \in 1 .. n : notes[i].to = g.length => i \in {a, b}
  BY <1>1 DEF AreBeside
<1>6. notes \in [1 .. n -> T]
  BY <1>2 DEF AreBeside
<1>7. head \in [1 .. 1 -> T] /\ head[1] = [column |-> hold, from |-> 0, to |-> g.length]
  BY <1>1, <1>2 DEF Note
<1> HIDE DEF head, T, keys
<1>8. /\ all \in [1 .. size -> T] /\ all[1] = head[1] /\ Len(all) = size
      /\ \A i \in 1 .. n : all[1 + i] = notes[i]
  <2>1. notes \in Seq(T) /\ Len(notes) = n /\ head \in Seq(T) /\ Len(head) = 1
    <3>1. \A m \in Nat : \A q \in [1 .. m -> T] : q \in Seq(T) /\ Len(q) = m
      OBVIOUS
    <3>2. 1 \in Nat
      OBVIOUS
    <3> QED BY <1>6, <1>7, <3>1, <3>2
  <2>2. all \in Seq(T) /\ Len(all) = 1 + n
        /\ \A i \in 1 .. 1 + n : all[i] = IF i <= 1 THEN head[i] ELSE notes[i - 1]
    <3>1. all \in Seq(T) /\ Len(all) = Len(head) + Len(notes)
          /\ \A i \in 1 .. Len(head) + Len(notes) :
               all[i] = IF i <= Len(head) THEN head[i] ELSE notes[i - Len(head)]
      BY <2>1, ConcatProperties
    <3> HIDE DEF all
    <3> QED BY <2>1, <3>1
  <2> HIDE DEF all
  <2>3. all \in [1 .. size -> T] /\ Len(all) = size
    BY <2>2
  <2>4. 1 \in 1 .. 1 + n /\ 1 <= 1
    OBVIOUS
  <2>5. \A i \in 1 .. n : 1 + i \in 1 .. 1 + n /\ ~(1 + i <= 1) /\ (1 + i) - 1 = i
    OBVIOUS
  <2> QED BY <2>2, <2>3, <2>4, <2>5
<1> HIDE DEF all
<1>9. \A i \in 1 .. size : i = 1 \/ (i - 1 \in 1 .. n /\ i = 1 + (i - 1))
  OBVIOUS
<1>10. all[1].column = hold /\ all[1].from = 0 /\ all[1].to = g.length
  BY <1>7, <1>8
<1>11. Fit(all, size, keys)
  <2>1. all \in [1 .. size -> [column : 0 .. keys - 1, from : Int, to : Int]]
    BY <1>8 DEF T
  <2>2. ASSUME NEW i \in 1 .. size PROVE all[i].from <= all[i].to
    <3>1. CASE i = 1
      BY <1>1, <1>10, <3>1
    <3>2. CASE i - 1 \in 1 .. n /\ i = 1 + (i - 1)
      <4>1. all[i] = notes[i - 1]
        BY <1>8, <3>2
      <4>2. notes[i - 1].from = notes[i - 1].to /\ notes[i - 1].to \in Nat
        BY <1>3, <3>2
      <4> QED BY <4>1, <4>2
    <3> QED BY <1>9, <3>1, <3>2
  <2>3. ASSUME NEW i \in 1 .. size, NEW j \in 1 .. size, i # j, all[i].column = all[j].column
        PROVE  all[i].to < all[j].from \/ all[j].to < all[i].from
    <3>1. ASSUME NEW l \in 1 .. n PROVE all[1 + l].column # hold
      BY <1>3, <1>8
    <3>2. i # 1
      <4> SUFFICES ASSUME i = 1 PROVE FALSE
        OBVIOUS
      <4>1. j - 1 \in 1 .. n /\ j = 1 + (j - 1)
        BY <1>9, <2>3
      <4> QED BY <1>10, <2>3, <3>1, <4>1
    <3>3. j # 1
      <4> SUFFICES ASSUME j = 1 PROVE FALSE
        OBVIOUS
      <4>1. i - 1 \in 1 .. n /\ i = 1 + (i - 1)
        BY <1>9, <2>3
      <4> QED BY <1>10, <2>3, <3>1, <4>1
    <3> DEFINE x == i - 1
               y == j - 1
    <3>4. x \in 1 .. n /\ y \in 1 .. n /\ x # y /\ i = 1 + x /\ j = 1 + y
      BY <1>9, <2>3, <3>2, <3>3
    <3> HIDE DEF x, y
    <3>5. all[i] = notes[x] /\ all[j] = notes[y]
      BY <1>8, <3>4
    <3>6. notes[x].to # notes[y].to
      BY <1>4, <2>3, <3>4, <3>5
    <3>7. notes[x].to \in Nat /\ notes[y].to \in Nat /\ notes[x].from = notes[x].to
          /\ notes[y].from = notes[y].to
      BY <1>3, <3>4
    <3> QED BY <3>5, <3>6, <3>7
  <2> QED BY <2>1, <2>2, <2>3 DEF Fit
<1> DEFINE at == EndOfPattern(g, all)
<1>12. at \subseteq 1 .. size /\ \A i \in at : size = 1 \/ all[i].to = g.length
  BY <1>8 DEF EndOfPattern
<1> HIDE DEF at
<1>13. at \subseteq ({1} \cup {1 + a}) \cup {1 + b}
  <2> SUFFICES ASSUME NEW i \in at, i # 1 PROVE i = 1 + a \/ i = 1 + b
    OBVIOUS
  <2>1. i - 1 \in 1 .. n /\ i = 1 + (i - 1) /\ size # 1
    BY <1>9, <1>12
  <2>2. all[i] = notes[i - 1] /\ all[i].to = g.length
    BY <1>8, <1>12, <2>1
  <2>3. i - 1 \in {a, b}
    BY <1>5, <2>1, <2>2
  <2> QED BY <2>1, <2>3
<1>14. Cardinality(at) <= 6
  <2> DEFINE one == {1}
             two == one \cup {1 + a}
             three == two \cup {1 + b}
  <2>1. IsFiniteSet(one) /\ Cardinality(one) = 1
    BY FS_Singleton
  <2> HIDE DEF one
  <2>2. IsFiniteSet(two) /\ Cardinality(two) \in {1, 2}
    BY <2>1, FS_AddElement
  <2> HIDE DEF two
  <2>3. IsFiniteSet(three) /\ Cardinality(three) \in {1, 2, 3}
    BY <2>2, FS_AddElement
  <2>4. at \in SUBSET three
    BY <1>13 DEF two, one
  <2> HIDE DEF three
  <2>5. Cardinality(at) \in Nat /\ Cardinality(at) <= Cardinality(three)
    BY <2>3, <2>4, FS_Subset, FS_CardinalityType
  <2> QED BY <2>3, <2>5
<1>15. ASSUME NEW i \in at PROVE all[i].column \in Usable(keys)
  <2>1. CASE i = 1
    BY <1>10, <2>1 DEF keys
  <2>2. CASE i # 1
    <3>1. i - 1 \in 1 .. n /\ i = 1 + (i - 1)
      BY <1>9, <1>12, <2>2
    <3>2. all[i] = notes[i - 1]
      BY <1>8, <3>1
    <3> QED BY <1>3, <3>1, <3>2
  <2> QED BY <2>1, <2>2
<1>16. size \in Nat
  OBVIOUS
<1> HIDE DEF size
<1>17. Suits(all, g)
  BY <1>11, <1>14, <1>15, <1>16, EndSuits DEF at, keys
<1> QED BY <1>17 DEF all, head

(* So do those that generate_hold_and_normal_notes returns.                *)
LEMMA HoldAndNormalSuit ==
  ASSUME NEW g, IsSlider(g), g.segment # 0, NEW notes \in HoldAndNormalNotes(g)
  PROVE  Suits(notes, g)
<1> DEFINE hold == GetColumn(g.x, g.total)
<1>1. g.total \in Keys /\ g.total >= 2 /\ g.x \in Int /\ g.diff \in Int
  BY DEF IsSlider, Keys
<1>2. hold \in Usable(g.total)
  BY <1>1, ColumnIsUsable
<1>3. PICK count \in BesideCounts(g) :
        \E beside \in BesideRows(g, hold, Least(count, g.total - 1)) :
          notes = <<Note(hold, 0, g.length)>> \o beside
  BY DEF HoldAndNormalNotes
<1>4. count \in 0 .. 2
  <2>1. \A p \in {630, 450, 240, 120, 0} : \A c \in NoteCounts(p, 0, 0, 0) : c \in 1 .. 2
    <3> SUFFICES ASSUME NEW p \in {630, 450, 240, 120, 0}, NEW c \in NoteCounts(p, 0, 0, 0)
                 PROVE  c \in 1 .. 2
      OBVIOUS
    <3>1. p \in Int /\ 0 \in Int
      OBVIOUS
    <3> QED BY <3>1, CountsAreBounded
  <2>2. g.diff > 650 \/ g.diff \in 401 .. 650 \/ g.diff \in 251 .. 400 \/ g.diff <= 250
    BY <1>1
  <2>3. \/ BesideCounts(g) = {0}
        \/ \E p \in {630, 450, 240, 120, 0} : BesideCounts(g) = NoteCounts(p, 0, 0, 0)
    <3> DEFINE d == g.diff
               fast == g.total < 6
               Drawn(p) == NoteCounts(p, 0, 0, 0)
               hard == Drawn(IF fast THEN 120 ELSE 450)
               fair == Drawn(IF fast THEN 0 ELSE 240)
    <3>1. BesideCounts(g) = CASE d > 650          -> Drawn(630)
                              [] d \in 401 .. 650 -> hard
                              [] d \in 251 .. 400 -> fair
                              [] d <= 250         -> {0}
      BY DEF BesideCounts
    <3>2. (hard = Drawn(120) \/ hard = Drawn(450)) /\ (fair = Drawn(0) \/ fair = Drawn(240))
      OBVIOUS
    <3>3. d \in Int
      BY <1>1
    <3> HIDE DEF d, fast, Drawn, hard, fair
    <3>4. CASE d > 650
      <4>1. ~(d \in 401 .. 650) /\ ~(d \in 251 .. 400) /\ ~(d <= 250)
        BY <3>3, <3>4
      <4>2. BesideCounts(g) = Drawn(630)
        BY <3>1, <3>4, <4>1
      <4> QED BY <4>2 DEF Drawn
    <3>5. CASE d \in 401 .. 650
      <4>1. ~(d > 650) /\ ~(d \in 251 .. 400) /\ ~(d <= 250)
        BY <3>3, <3>5
      <4>2. BesideCounts(g) = hard
        BY <3>1, <3>5, <4>1
      <4> QED BY <3>2, <4>2 DEF Drawn
    <3>6. CASE d \in 251 .. 400
      <4>1. ~(d > 650) /\ ~(d \in 401 .. 650) /\ ~(d <= 250)
        BY <3>3, <3>6
      <4>2. BesideCounts(g) = fair
        BY <3>1, <3>6, <4>1
      <4> QED BY <3>2, <4>2 DEF Drawn
    <3>7. CASE d <= 250
      <4>1. ~(d \in 401 .. 650) /\ ~(d \in 251 .. 400) /\ ~(d > 650)
        BY <3>3, <3>7
      <4>2. BesideCounts(g) = {0}
        BY <3>1, <3>7, <4>1
      <4> QED BY <4>2
    <3>8. d > 650 \/ d \in 401 .. 650 \/ d \in 251 .. 400 \/ d <= 250
      BY <3>3
    <3> QED BY <3>4, <3>5, <3>6, <3>7, <3>8
  <2> QED BY <1>3, <2>1, <2>3
<1> DEFINE c == Least(count, g.total - 1)
<1>5. c \in 0 .. 2 /\ c <= g.total - 1
  BY <1>1, <1>4 DEF Least, Keys
<1> HIDE DEF c, hold
<1>6. PICK beside \in BesideRows(g, hold, c) : notes = <<Note(hold, 0, g.length)>> \o beside
  BY <1>3 DEF c
<1>7. PICK n \in Nat : AreBeside(beside, n, g, hold, g.spans + 1)
  BY <1>2, <1>5, <1>6, BesideRowsFit
<1>8. g.spans + 1 \in Nat
  BY DEF IsSlider
<1> QED BY <1>2, <1>6, <1>7, <1>8, HoldAndBesideSuit

(***************************************************************************)
(* All patterns of sliders                                                 *)
(***************************************************************************)
LEMMA RepeatingSliderSuits ==
  ASSUME NEW g, IsSlider(g), NEW notes \in RepeatingSlider(g)
  PROVE  Suits(notes, g)
<1>1. g.segment \in Nat /\ g.spans \in Nat /\ g.total \in 2 .. 10 /\ g.diff \in Int /\ g.length \in Nat
  BY SegmentIsNatural DEF IsSlider
<1>2. \/ notes \in RandomHoldNotes(g, 1)
      \/ g.segment > 90 /\ notes \in RandomSliderNotes(g, TRUE, g.spans + 1)
      \/ g.segment > 120 /\ notes \in {Stair(g, up) : up \in BOOLEAN}
      \/ g.segment > 160 /\ notes \in RandomMultipleNotes(g)
      \/ notes \in RandomCountOfHolds(g, 230, 0, 0)
      \/ g.spans < Cardinality(Usable(g.total)) - 1 /\ notes \in TiledHoldNotes(g)
      \/ g.segment > 160 /\ notes \in HoldAndNormalNotes(g)
  <2> DEFINE hold == RandomHoldNotes(g, 1)
             turn == RandomSliderNotes(g, TRUE, g.spans + 1)
             stairs == {Stair(g, up) : up \in BOOLEAN}
             multiple == RandomMultipleNotes(g)
             counted == RandomCountOfHolds(g, 230, 0, 0)
             few == g.spans < Cardinality(Usable(g.total)) - 1
             tiled == TiledHoldNotes(g)
             beside == HoldAndNormalNotes(g)
             segment == g.segment
  <2>1. notes \in CASE segment <= 90 -> hold
                     [] segment \in 91 .. 120 -> turn
                     [] segment \in 121 .. 160 -> stairs
                     [] segment \in 161 .. 200 /\ g.diff > 300 -> multiple
                     [] OTHER -> IF g.length >= 4000 THEN counted
                                 ELSE IF segment > 400 /\ few THEN tiled ELSE beside
    BY DEF RepeatingSlider
  <2>2. segment \in Nat
    BY <1>1
  <2> HIDE DEF hold, turn, stairs, multiple, counted, few, tiled, beside, segment
  <2>3. \/ segment <= 90 \/ segment \in 91 .. 120 \/ segment \in 121 .. 160
        \/ segment \in 161 .. 200 \/ segment > 200
    BY <2>2
  <2>4. \/ notes \in hold
        \/ segment > 90 /\ notes \in turn
        \/ segment > 120 /\ notes \in stairs
        \/ segment > 160 /\ notes \in multiple
        \/ notes \in counted
        \/ few /\ notes \in tiled
        \/ segment > 160 /\ notes \in beside
    BY <2>1, <2>2, <2>3
  <2> QED BY <2>4 DEF hold, turn, stairs, multiple, counted, few, tiled, beside, segment
<1>3. CASE notes \in RandomHoldNotes(g, 1)
  <2>1. 1 \in 1 .. 4 /\ 1 <= Cardinality(Usable(g.total))
    <3>1. Cardinality(Usable(g.total)) = (IF g.total = 8 THEN 7 ELSE g.total)
      BY <1>1, UsableColumns DEF Keys
    <3> QED BY <1>1, <3>1
  <2> QED BY <1>3, <2>1, HoldsSuit
<1>4. CASE g.segment > 90 /\ notes \in RandomSliderNotes(g, TRUE, g.spans + 1)
  <2>1. g.spans + 1 \in Nat /\ g.segment # 0
    BY <1>1, <1>4
  <2> QED BY <1>4, <2>1, SliderNotesSuit
<1>5. CASE g.segment > 120 /\ notes \in {Stair(g, up) : up \in BOOLEAN}
  <2>1. g.segment # 0
    BY <1>1, <1>5
  <2> QED BY <1>5, <2>1, StairSuits
<1>6. CASE g.segment > 160 /\ notes \in RandomMultipleNotes(g)
  <2>1. g.segment # 0
    BY <1>1, <1>6
  <2> QED BY <1>6, <2>1, MultipleNotesSuit
<1>7. CASE notes \in RandomCountOfHolds(g, 230, 0, 0)
  <2>1. 230 \in Nat /\ 0 \in Nat
    OBVIOUS
  <2> QED BY <1>7, <2>1, CountedHoldsSuit
<1>8. CASE g.spans < Cardinality(Usable(g.total)) - 1 /\ notes \in TiledHoldNotes(g)
  BY <1>8, TiledHoldsSuit
<1>9. CASE g.segment > 160 /\ notes \in HoldAndNormalNotes(g)
  <2>1. g.segment # 0
    BY <1>1, <1>9
  <2> QED BY <1>9, <2>1, HoldAndNormalSuit
<1> QED BY <1>2, <1>3, <1>4, <1>5, <1>6, <1>7, <1>8, <1>9

(* Sliders of every shape suit, on more than one column.                   *)
LEMMA PlainSliderSuits ==
  ASSUME NEW g, IsSlider(g), NEW notes \in PlainSlider(g)
  PROVE  Suits(notes, g)
<1> DEFINE apart == Cardinality(g.prev.columns) < g.total
           count == IF g.segment >= 80 THEN 2 ELSE 1
           Counted(p2, p3, p4) == RandomCountOfHolds(g, p2, p3, p4)
<1>1. g.segment \in Nat /\ g.diff \in Int
  BY SegmentIsNatural DEF IsSlider
<1>2. count \in Nat /\ (count = 1 \/ g.segment # 0)
  BY <1>1
<1>3. ASSUME NEW p2 \in Nat, NEW p3 \in Nat, NEW p4 \in Nat, notes \in Counted(p2, p3, p4)
      PROVE  Suits(notes, g)
  BY <1>3, CountedHoldsSuit
<1>4. \/ notes \in RandomSliderNotes(g, apart, count)
      \/ notes \in Counted(780, 300, 0) \/ notes \in Counted(850, 360, 30)
      \/ notes \in Counted(430, 80, 0) \/ notes \in Counted(560, 180, 0)
      \/ notes \in Counted(300, 0, 0) \/ notes \in Counted(370, 80, 0)
      \/ notes \in Counted(170, 0, 0) \/ notes \in Counted(270, 0, 0)
  BY <1>1 DEF PlainSlider
<1> HIDE DEF apart, count, Counted
<1>5. CASE notes \in RandomSliderNotes(g, apart, count)
  BY <1>2, <1>5, SliderNotesSuit
<1> QED BY <1>3, <1>4, <1>5

(* The pattern of a slider fits on the stage, and so does what later       *)
(* objects see of it.                                                      *)
LEMMA SlidersSuit ==
  ASSUME NEW g, g.total \in Keys, g.x \in Int, g.diff \in Int, g.spans \in Nat \ {0},
         g.length \in Nat, g.segment = SegmentDuration(g.length, g.spans),
         SeenOnStage(g.prev, g.total), NEW notes \in SliderPatterns(g)
  PROVE  /\ PatternFits(PatternOf(notes), g.total)
         /\ SeenOnStage(Seen(notes, EndOfPattern(g, notes)), g.total)
<1>1. CASE g.total = 1
  <2>1. notes = <<Note(0, 0, g.length)>>
    BY <1>1 DEF SliderPatterns
  <2>2. notes = [i \in 1 .. 1 |-> Note(0, 0, g.length)] /\ Len(notes) = 1
    BY <2>1
  <2>3. \A i \in 1 .. 1 : i = 1
    OBVIOUS
  <2>4. notes \in [1 .. 1 -> [column : 0 .. g.total - 1, from : Int, to : Int]]
        /\ notes[1].from <= notes[1].to /\ notes[1].column = 0
    BY <1>1, <2>2 DEF Note
  <2>5. Fit(notes, 1, g.total)
    BY <2>3, <2>4 DEF Fit
  <2>6. EndOfPattern(g, notes) \in SUBSET (1 .. 1) /\ 1 \in Nat /\ 0 \in Usable(g.total)
        /\ g.total # 8
    BY <1>1, <2>2 DEF EndOfPattern, Usable, RandomStart
  <2>7. SeenOnStage(Seen(notes, EndOfPattern(g, notes)), g.total)
    BY <2>3, <2>4, <2>5, <2>6, EndIsSeen
  <2> QED BY <2>5, <2>6, <2>7, FitNotesMakePatterns
<1>2. CASE g.total # 1
  <2>1. IsSlider(g)
    BY <1>2 DEF IsSlider, Keys
  <2>2. Suits(notes, g)
    BY <1>2, <2>1, RepeatingSliderSuits, PlainSliderSuits DEF SliderPatterns
  <2> QED BY <2>2, FitNotesMakePatterns DEF Suits
<1> QED BY <1>1, <1>2

(* So does the note of a spinner or hold note.                             *)
LEMMA EndTimesFit ==
  ASSUME NEW g, g.total \in Keys, SeenOnStage(g.prev, g.total), NEW notes \in EndTimePatterns(g)
  PROVE  PatternFits(PatternOf(notes), g.total)
<1> DEFINE special == g.total = 8 /\ "FINISH" \in g.sounds /\ g.length < 1000
           occupied == IF Cardinality(g.prev.columns) = g.total THEN {} ELSE g.prev.columns
           columns == IF special THEN {0}
                      ELSE UNION {FindFree(g, column, occupied) : column \in Usable(g.total)}
           end1 == IF g.length >= 100 THEN g.length ELSE 0
<1>1. PICK column \in columns : notes = <<Note(column, 0, end1)>>
  BY DEF EndTimePatterns
<1>2. column \in 0 .. g.total - 1
  <2>1. CASE special
    BY <2>1 DEF Keys
  <2>2. CASE ~special
    <3>1. PICK initial \in Usable(g.total) : column \in FindAvailable(initial, Usable(g.total), occupied)
      <4>1. column \in UNION {FindFree(g, c, occupied) : c \in Usable(g.total)}
        BY <1>1, <2>2
      <4> HIDE DEF occupied
      <4> QED BY <4>1 DEF FindFree
    <3>2. ~(Usable(g.total) \subseteq occupied)
      <4>1. Cardinality(Usable(g.total)) = (IF g.total = 8 THEN 7 ELSE g.total)
            /\ Usable(g.total) # {}
        <5>1. Cardinality(Usable(g.total)) = (IF g.total = 8 THEN 7 ELSE g.total)
          BY UsableColumns
        <5>2. g.total - 1 \in Usable(g.total)
          BY DEF Usable, RandomStart, Keys
        <5> QED BY <5>1, <5>2
      <4>2. CASE Cardinality(g.prev.columns) = g.total
        BY <4>1, <4>2
      <4>3. CASE Cardinality(g.prev.columns) # g.total
        <5> SUFFICES ASSUME Usable(g.total) \subseteq g.prev.columns PROVE FALSE
          BY <4>3
        <5>1. /\ IsFiniteSet(g.prev.columns) /\ Cardinality(g.prev.columns) \in Nat
              /\ Cardinality(g.prev.columns) <= Cardinality(Usable(g.total))
              /\ g.total = 8 => Cardinality(g.prev.columns) <= 6
          BY SeenIsFinite
        <5>2. Cardinality(Usable(g.total)) <= Cardinality(g.prev.columns)
          BY <5>1, FS_Subset
        <5> QED BY <4>1, <4>3, <5>1, <5>2 DEF Keys
      <4> QED BY <4>2, <4>3
    <3> HIDE DEF occupied
    <3>3. column \in Usable(g.total)
      BY <3>1, <3>2, FindsFreeColumn
    <3> QED BY <3>3, UsableColumns
  <2> QED BY <2>1, <2>2
<1> HIDE DEF columns, end1
<1>3. PatternOf(notes) = [notes |-> {Note(column, 0, end1)}, size |-> 1]
  <2>1. notes = [i \in 1 .. 1 |-> Note(column, 0, end1)] /\ Len(notes) = 1
    BY <1>1
  <2>2. {notes[i] : i \in DOMAIN notes} = {Note(column, 0, end1)}
    BY <2>1
  <2> QED BY <2>1, <2>2 DEF PatternOf
<1>4. Note(column, 0, end1).column = column
  BY DEF Note
<1>5. Cardinality({Note(column, 0, end1)}) = 1
  BY FS_Singleton
<1> QED BY <1>2, <1>3, <1>4, <1>5 DEF PatternFits

(***************************************************************************)
(* Every note fits on the stage                                            *)
(***************************************************************************)

(* What a slider is while its times are pushed.                            *)
IsBegun(s) ==
  /\ {"at", "spans", "length", "x"} \subseteq DOMAIN s
  /\ s.spans \in Nat \ {0} /\ s.length \in Nat /\ s.x \in Int

(* The inductive invariant of the conversion: what later objects see of    *)
(* the pattern before them is on the stage and leaves room beside it, a    *)
(* slider that is begun has a natural length and at least one span, and    *)
(* the pattern placed last fits.                                           *)
StageInv ==
  /\ scenario \in Scenarios /\ taken \in Nat
  /\ SeenOnStage(prev, total)
  /\ stair \in Stairs
  /\ slider # NoSlider => IsBegun(slider)
  /\ PatternFits(placed.pattern, total)

(* EveryNoteFitsTheStage, of the pattern placed last.                      *)
LEMMA FitsIsFitting == EveryNoteFitsTheStage <=> PatternFits(placed.pattern, total)
BY DEF EveryNoteFitsTheStage, PatternFits

(* Nothing is placed at first.                                             *)
LEMMA StageStarts == ConvertInit => StageInv
<1> SUFFICES ASSUME ConvertInit PROVE StageInv
  OBVIOUS
<1>1. scenario \in Scenarios /\ taken = 0 /\ prev = EmptyPattern /\ stair = "STAIR"
      /\ slider = NoSlider /\ placed = Nothing
  BY DEF ConvertInit
<1>2. SeenOnStage(EmptyPattern, total)
  <2>1. Cardinality({}) = 0
    BY FS_EmptySet
  <2>2. EmptyPattern.columns = {} /\ ~EmptyPattern.single
    BY DEF EmptyPattern
  <2> QED BY <2>1, <2>2 DEF SeenOnStage
<1>3. PatternFits(Nothing.pattern, total)
  <2>1. Nothing.pattern = PatternOf(<<>>)
    BY DEF Nothing
  <2>2. PatternOf(<<>>).notes = {} /\ PatternOf(<<>>).size = 0
    <3>1. DOMAIN <<>> = {} /\ Len(<<>>) = 0
      OBVIOUS
    <3> QED BY <3>1 DEF PatternOf
  <2>3. Cardinality({}) = 0
    BY FS_EmptySet
  <2> QED BY <2>1, <2>2, <2>3 DEF PatternFits
<1> QED BY <1>1, <1>2, <1>3 DEF StageInv, Stairs

(* What a choice of the map may be.                                        *)
LEMMA ChoicesAreTyped ==
  ASSUME StageInv, taken < Len(scenario.choices), NEW choice,
         choice = scenario.choices[taken + 1]
  PROVE  choice.gaps \subseteq Int /\ choice.xs \subseteq Int /\ choice.sliders \subseteq (Nat \ {0}) \X Nat
<1> DEFINE choices == scenario.choices
<1>1. choices \in Seq(ToSet(choices))
      /\ \A c \in ToSet(choices) :
           c.gaps \cup c.xs \subseteq Int /\ c.sliders \subseteq (Nat \ {0}) \X Nat
  BY ScenariosAssumption DEF StageInv
<1>2. taken \in Nat
  BY DEF StageInv
<1> HIDE DEF choices
<1>3. choices[taken + 1] \in ToSet(choices)
  <2>1. Len(choices) \in Nat /\ \A i \in 1 .. Len(choices) : choices[i] \in ToSet(choices)
    BY <1>1
  <2>2. taken + 1 \in 1 .. Len(choices)
    BY <1>2, <2>1 DEF choices
  <2> QED BY <2>1, <2>2
<1> QED BY <1>1, <1>3 DEF choices

(* The columns and the difficulty of the map being converted.              *)
LEMMA StageOfMap ==
  ASSUME StageInv
  PROVE  total \in Keys /\ difficulty \in Int
BY ColumnsOfMap, DifficultyOfMap DEF StageInv, total, difficulty

(* A circle fits, and keeps apart from the last pattern if it follows at   *)
(* once.                                                                   *)
LEMMA CircleStays ==
  ASSUME StageInv, NEW gap \in Int, NEW near, NEW sounds, NEW x \in Int, NEW kiai,
         Circle(gap, near, sounds, x, kiai)
  PROVE  /\ StageInv'
         /\ placed'.gap <= 125 /\ total > 1
              => ColumnsOf(placed'.pattern) \cap prev.columns \cap Usable(total) = {}
<1> DEFINE start == prevTime + gap
           convert == ConvertType(gap, near, Dense', kiai, stair, sounds, total)
           g == [total |-> total, x |-> x, sounds |-> sounds, diff |-> difficulty,
                 prev |-> prev, convert |-> convert]
<1>1. total \in Keys /\ difficulty \in Int
  BY StageOfMap
<1>2. PICK columns \in CirclePatterns(g) :
        /\ placed' = [kind |-> "circle", start |-> start, gap |-> gap,
                      pattern |-> PatternOf(NotesAt(columns, 0))]
        /\ prev' = Seen(NotesAt(columns, 0), DOMAIN NotesAt(columns, 0))
        /\ stair' = StairAfter(g, ToSet(columns), stair)
  BY DEF Circle
<1>3. scenario' = scenario /\ taken' = taken + 1 /\ slider' = slider
  BY DEF Circle, Take
<1>4. /\ total = 8 => "MIRROR" \notin convert
      /\ gap <= 125 => KeepsApart(convert)
  BY TypesOfCircle DEF StageInv
<1> HIDE DEF convert
<1>5. /\ g.total = total /\ g.x = x /\ g.diff = difficulty /\ g.prev = prev /\ g.convert = convert
  OBVIOUS
<1> HIDE DEF g
<1>6. PICK m \in Nat :
        /\ OnStage(columns, m, total)
        /\ total > 1 /\ KeepsApart(convert) => Avoids(columns, m, total, prev.columns)
  <2>1. g.total \in Keys /\ g.x \in Int /\ g.diff \in Int /\ SeenOnStage(g.prev, g.total)
        /\ (g.total = 8 => "MIRROR" \notin g.convert)
    BY <1>1, <1>4, <1>5 DEF StageInv
  <2>2. \E m \in Nat :
           /\ OnStage(columns, m, g.total)
           /\ g.total > 1 /\ KeepsApart(g.convert) => Avoids(columns, m, g.total, g.prev.columns)
    BY <2>1, CirclesFit
  <2> QED BY <1>5, <2>2
<1> DEFINE notes == NotesAt(columns, 0)
<1>7. /\ Fit(notes, m, total)
      /\ SeenOnStage(Seen(notes, DOMAIN notes), total)
      /\ ColumnsOf(PatternOf(notes)) = {columns[i] : i \in 1 .. m}
  BY <1>1, <1>6, ColumnsMakeNotes
<1>8. PatternFits(PatternOf(notes), total)
  BY <1>7, FitNotesMakePatterns
<1> HIDE DEF notes, start
<1>9. placed'.pattern = PatternOf(notes) /\ placed'.gap = gap
  BY <1>2 DEF notes
<1>10. total' = total
  BY <1>3 DEF total
<1>11. SeenOnStage(prev, total)'
  BY <1>2, <1>7, <1>10 DEF notes
<1>12. stair' \in Stairs
  BY <1>2 DEF StairAfter, Stairs, StageInv
<1>13. StageInv'
  <2>1. scenario' \in Scenarios /\ taken' \in Nat /\ (slider' # NoSlider => IsBegun(slider'))
    BY <1>3 DEF StageInv
  <2>2. PatternFits(placed'.pattern, total')
    BY <1>8, <1>9, <1>10
  <2> QED BY <1>11, <1>12, <2>1, <2>2 DEF StageInv
<1>14. ASSUME placed'.gap <= 125, total > 1
       PROVE  ColumnsOf(placed'.pattern) \cap prev.columns \cap Usable(total) = {}
  <2>1. Avoids(columns, m, total, prev.columns)
    BY <1>4, <1>6, <1>9, <1>14
  <2>2. ColumnsOf(placed'.pattern) = {columns[i] : i \in 1 .. m}
    BY <1>7, <1>9
  <2> QED BY <2>1, <2>2 DEF Avoids
<1> QED BY <1>13, <1>14

(* The head of a slider places nothing yet.                                *)
LEMMA SliderHeadStays ==
  ASSUME StageInv, NEW gap, NEW path \in (Nat \ {0}) \X Nat, NEW sounds, NEW head, NEW x \in Int,
         NEW kiai, SliderHead(gap, path, sounds, head, x, kiai)
  PROVE  StageInv' /\ placed' = placed
<1>1. scenario' = scenario /\ taken' = taken + 1 /\ prev' = prev /\ stair' = stair /\ placed' = placed
  BY DEF SliderHead, Take
<1>2. slider' = [start |-> prevTime + gap, gap |-> gap, at |-> 0, spans |-> path[1],
                 length |-> path[2], sounds |-> sounds, head |-> head, x |-> x, kiai |-> kiai]
  BY DEF SliderHead
<1>3. IsBegun(slider')
  <2>1. path[1] \in Nat \ {0} /\ path[2] \in Nat
    OBVIOUS
  <2>2. slider'.spans = path[1] /\ slider'.length = path[2] /\ slider'.x = x
    BY <1>2
  <2>3. {"at", "spans", "length", "x"} \subseteq DOMAIN slider'
    BY <1>2
  <2> QED BY <2>1, <2>2, <2>3 DEF IsBegun
<1> QED BY <1>1, <1>3 DEF StageInv, total

(* Nor does pushing its times.                                             *)
LEMMA SliderTimeStays ==
  ASSUME StageInv, SliderTime
  PROVE  StageInv' /\ placed' = placed
<1>1. scenario' = scenario /\ taken' = taken /\ prev' = prev /\ stair' = stair /\ placed' = placed
  BY DEF SliderTime
<1>2. IsBegun(slider) /\ slider' = [slider EXCEPT !.at = @ + 1]
  BY DEF SliderTime, StageInv
<1>3. IsBegun(slider')
  <2>1. DOMAIN slider' = DOMAIN slider
    BY <1>2
  <2>2. slider'.spans = slider.spans /\ slider'.length = slider.length /\ slider'.x = slider.x
    BY <1>2 DEF IsBegun
  <2> QED BY <1>2, <2>1, <2>2 DEF IsBegun
<1> QED BY <1>1, <1>3 DEF StageInv, total

(* The notes of a slider fit, and what is seen of their end does.          *)
LEMMA SliderNotesStay ==
  ASSUME StageInv, SliderNotes
  PROVE  StageInv' /\ placed'.kind = "slider"
<1> DEFINE g == [total |-> total, x |-> slider.x, sounds |-> slider.sounds, head |-> slider.head,
                 diff |-> difficulty, prev |-> prev, low |-> ~slider.kiai, spans |-> slider.spans,
                 segment |-> SegmentDuration(slider.length, slider.spans), length |-> slider.length]
<1>1. total \in Keys /\ difficulty \in Int /\ SeenOnStage(prev, total) /\ IsBegun(slider)
  BY StageOfMap DEF StageInv, SliderNotes
<1>2. PICK notes \in SliderPatterns(g) :
        /\ placed' = [kind |-> "slider", start |-> slider.start, gap |-> slider.gap,
                      pattern |-> PatternOf(notes)]
        /\ prev' = Seen(notes, EndOfPattern(g, notes))
  BY DEF SliderNotes
<1>3. scenario' = scenario /\ taken' = taken /\ stair' = stair /\ slider' = NoSlider
  BY DEF SliderNotes
<1>4. /\ g.total = total /\ g.x = slider.x /\ g.diff = difficulty /\ g.prev = prev
      /\ g.spans = slider.spans /\ g.length = slider.length
      /\ g.segment = SegmentDuration(slider.length, slider.spans)
  OBVIOUS
<1> HIDE DEF g
<1>5. /\ PatternFits(PatternOf(notes), total)
      /\ SeenOnStage(Seen(notes, EndOfPattern(g, notes)), total)
  <2>1. /\ g.total \in Keys /\ g.x \in Int /\ g.diff \in Int /\ g.spans \in Nat \ {0}
        /\ g.length \in Nat /\ g.segment = SegmentDuration(g.length, g.spans)
        /\ SeenOnStage(g.prev, g.total)
    BY <1>1, <1>4 DEF IsBegun
  <2>2. /\ PatternFits(PatternOf(notes), g.total)
        /\ SeenOnStage(Seen(notes, EndOfPattern(g, notes)), g.total)
    BY <2>1, SlidersSuit
  <2> QED BY <1>4, <2>2
<1>6. placed'.pattern = PatternOf(notes) /\ placed'.kind = "slider"
  BY <1>2
<1>7. total' = total
  BY <1>3 DEF total
<1>8. SeenOnStage(prev, total)'
  BY <1>2, <1>5, <1>7
<1>9. PatternFits(placed'.pattern, total')
  BY <1>5, <1>6, <1>7
<1> QED BY <1>3, <1>6, <1>8, <1>9 DEF StageInv

(* A spinner or a hold fits, and what was seen before it stays.            *)
LEMMA EndTimeObjectStays ==
  ASSUME StageInv, NEW gap, NEW duration, NEW sounds, EndTimeObject(gap, duration, sounds)
  PROVE  StageInv' /\ placed'.kind = "end time"
<1> DEFINE g == [total |-> total, sounds |-> sounds, prev |-> prev, length |-> duration]
           start == prevTime + gap
<1>1. total \in Keys /\ SeenOnStage(prev, total)
  BY StageOfMap DEF StageInv
<1>2. PICK notes \in EndTimePatterns(g) :
        placed' = [kind |-> "end time", start |-> start, gap |-> gap, pattern |-> PatternOf(notes)]
  BY DEF EndTimeObject
<1>3. scenario' = scenario /\ taken' = taken + 1 /\ prev' = prev /\ stair' = stair /\ slider' = slider
  BY DEF EndTimeObject, Take
<1>4. g.total = total /\ g.prev = prev
  OBVIOUS
<1> HIDE DEF g, start
<1>5. PatternFits(PatternOf(notes), total)
  <2>1. g.total \in Keys /\ SeenOnStage(g.prev, g.total)
    BY <1>1, <1>4
  <2>2. PatternFits(PatternOf(notes), g.total)
    BY <2>1, EndTimesFit
  <2> QED BY <1>4, <2>2
<1>6. placed'.pattern = PatternOf(notes) /\ placed'.kind = "end time"
  BY <1>2
<1>7. total' = total
  BY <1>3 DEF total
<1>8. PatternFits(placed'.pattern, total')
  BY <1>5, <1>6, <1>7
<1>9. SeenOnStage(prev, total)'
  BY <1>1, <1>3, <1>7
<1>10. slider' # NoSlider => IsBegun(slider')
  BY <1>3 DEF StageInv
<1>11. scenario' \in Scenarios /\ taken' \in Nat /\ stair' \in Stairs
  BY <1>3 DEF StageInv
<1>12. StageInv'
  BY <1>8, <1>9, <1>10, <1>11 DEF StageInv
<1> QED BY <1>6, <1>12

(* What FastNotesDoNotStack says of a step.                                *)
DoesNotStack ==
  placed'.kind = "circle" /\ placed'.gap <= 125 /\ total > 1 /\ placed' # placed
    => ColumnsOf(placed'.pattern) \cap prev.columns \cap Usable(total) = {}

(* Every step keeps this, those of the other jobs because they convert     *)
(* nothing.                                                                *)
LEMMA StageStays ==
  ASSUME StageInv, [Next]_vars
  PROVE  StageInv' /\ DoesNotStack
<1>1. ASSUME UNCHANGED convertVars PROVE StageInv' /\ DoesNotStack
  <2>1. /\ scenario' = scenario /\ taken' = taken /\ prev' = prev /\ stair' = stair
        /\ slider' = slider /\ placed' = placed
    BY <1>1 DEF convertVars
  <2> QED BY <2>1 DEF StageInv, DoesNotStack, total
<1>2. CASE ConvertToMania
  <2>1. ConvertNext
    BY <1>2 DEF ConvertToMania
  <2>2. CASE taken < Len(scenario.choices) /\ NextObject
    <3> DEFINE choice == scenario.choices[taken + 1]
    <3>1. choice.gaps \subseteq Int /\ choice.xs \subseteq Int
          /\ choice.sliders \subseteq (Nat \ {0}) \X Nat
      BY <2>2, ChoicesAreTyped
    <3>2. PICK gap \in choice.gaps, sounds \in choice.sounds :
            \/ \E near \in choice.nears, x \in choice.xs, kiai \in choice.kiais :
                 Circle(gap, near, sounds, x, kiai)
            \/ \E path \in choice.sliders, head \in choice.heads, x \in choice.xs,
                  kiai \in choice.kiais : SliderHead(gap, path, sounds, head, x, kiai)
            \/ \E duration \in choice.ends : EndTimeObject(gap, duration, sounds)
      BY <2>2 DEF NextObject
    <3> HIDE DEF choice
    <3>3. gap \in Int
      BY <3>1
    <3>4. CASE \E near \in choice.nears, x \in choice.xs, kiai \in choice.kiais :
                 Circle(gap, near, sounds, x, kiai)
      <4>1. PICK near \in choice.nears, x \in choice.xs, kiai \in choice.kiais :
              Circle(gap, near, sounds, x, kiai)
        BY <3>4
      <4>2. x \in Int
        BY <3>1
      <4> QED BY <3>3, <4>1, <4>2, CircleStays DEF DoesNotStack
    <3>5. CASE \E path \in choice.sliders, head \in choice.heads, x \in choice.xs,
                  kiai \in choice.kiais : SliderHead(gap, path, sounds, head, x, kiai)
      <4>1. PICK path \in choice.sliders, head \in choice.heads, x \in choice.xs,
              kiai \in choice.kiais : SliderHead(gap, path, sounds, head, x, kiai)
        BY <3>5
      <4>2. x \in Int /\ path \in (Nat \ {0}) \X Nat
        BY <3>1
      <4> QED BY <4>1, <4>2, SliderHeadStays DEF DoesNotStack
    <3>6. CASE \E duration \in choice.ends : EndTimeObject(gap, duration, sounds)
      BY <3>6, EndTimeObjectStays DEF DoesNotStack
    <3> QED BY <3>2, <3>4, <3>5, <3>6
  <2>3. CASE SliderTime
    BY <2>3, SliderTimeStays DEF DoesNotStack
  <2>4. CASE SliderNotes
    BY <2>4, SliderNotesStay DEF DoesNotStack
  <2> QED BY <2>1, <2>2, <2>3, <2>4 DEF ConvertNext
<1>3. CASE \/ SortKeys \/ CheckSuspicion \/ ApplyManiaMods \/ PlaceOsuObjects \/ ConvertToTaikoMap
           \/ GroupTaikoObjects \/ PlaceCatchObjects \/ CollectStrains
  <2>1. UNCHANGED convertVars
    BY <1>3 DEF SortKeys, CheckSuspicion, ApplyManiaMods, PlaceOsuObjects, ConvertToTaikoMap,
                GroupTaikoObjects, PlaceCatchObjects, CollectStrains, Prepare
  <2> QED BY <1>1, <2>1
<1>4. CASE UNCHANGED vars
  <2>1. UNCHANGED convertVars
    BY <1>4 DEF vars
  <2> QED BY <1>1, <2>1
<1> QED BY <1>2, <1>3, <1>4 DEF Next

(* Whatever map is converted to osu!mania and whatever the generator of    *)
(* random numbers returns: its search for a free column finds one, every   *)
(* note is on the stage, and the notes of an object do not overlap.        *)
THEOREM NotesFitTheStage == Spec => []EveryNoteFitsTheStage
<1>1. Init => StageInv
  BY StageStarts DEF Init
<1>2. StageInv /\ [Next]_vars => StageInv'
  BY StageStays
<1>3. StageInv => EveryNoteFitsTheStage
  BY FitsIsFitting DEF StageInv
<1> QED BY <1>1, <1>2, <1>3, PTL DEF Spec

(* Nor does a circle that follows at once share a column with the pattern  *)
(* before it, on a stage of more than one.                                 *)
THEOREM FastNotesKeepApart == Spec => FastNotesDoNotStack
<1>1. Init => StageInv
  BY StageStarts DEF Init
<1>2. StageInv /\ [Next]_vars => StageInv'
  BY StageStays
<1>3. StageInv /\ [Next]_vars
        => [/\ placed'.kind = "circle" /\ placed'.gap <= 125 /\ total > 1
            /\ placed' # placed
            => ColumnsOf(placed'.pattern) \cap prev.columns \cap Usable(total) = {}]_convertVars
  BY StageStays DEF DoesNotStack
<1> QED BY <1>1, <1>2, <1>3, PTL DEF Spec, FastNotesDoNotStack
=============================================================================
