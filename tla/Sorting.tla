------------------------------- MODULE Sorting -------------------------------
(***************************************************************************)
(* The sorts of src/util/sort: those that keep the order C# gives to       *)
(* elements that compare equal (mod.rs, csharp.rs and osu_legacy.rs), and  *)
(* the sorter that puts several lists into the order of one (tandem.rs).   *)
(* Elements are records that compare by their time. Indices count from 1.  *)
(*                                                                         *)
(* The size below which csharp inserts and the depth from which either one *)
(* heaps are parameters: the code's 16, 2 * ilog2(len) and 32 need lists   *)
(* that are longer than what can be checked. A loop is a recursive         *)
(* function of the number of its rounds, one that ended stays as it is.    *)
(***************************************************************************)
EXTENDS Arithmetic, SequencesExt, FiniteSetsExt

Before(a, b) == a.time < b.time

SwapAt(keys, i, j) == [keys EXCEPT ![i] = keys[j], ![j] = keys[i]]
SwapIfGreater(keys, i, j) == IF Before(keys[j], keys[i]) THEN SwapAt(keys, i, j) ELSE keys

(***************************************************************************)
(* The heap sort of both, of the n elements from lo on                     *)
(***************************************************************************)
LaterChild(keys, i, n, lo) ==
  IF 2 * i < n /\ Before(keys[lo + 2 * i - 1], keys[lo + 2 * i]) THEN 2 * i + 1 ELSE 2 * i

Sink(d, n, lo) ==
  LET child == LaterChild(d.keys, d.i, n, lo)
  IN  IF d.i <= n \div 2 /\ Before(d.keys[lo + d.i - 1], d.keys[lo + child - 1])
      THEN [keys |-> SwapAt(d.keys, lo + d.i - 1, lo + child - 1), i |-> child]
      ELSE d

DownHeap(keys, i, n, lo) ==
  LET sunk[k \in 0 .. n] ==
        IF k = 0 THEN [keys |-> keys, i |-> i] ELSE Sink(sunk[k - 1], n, lo)
  IN  sunk[n].keys

Heaped(keys, n, lo) ==
  LET heaped[k \in 0 .. n \div 2] ==
        IF k = 0 THEN keys ELSE DownHeap(heaped[k - 1], n \div 2 - k + 1, n, lo)
  IN  heaped[n \div 2]

Drained(keys, n, lo) ==
  LET drained[k \in 0 .. n - 1] ==
        IF k = 0 THEN keys
        ELSE DownHeap(SwapAt(drained[k - 1], lo, lo + n - k), 1, n - k, lo)
  IN  drained[n - 1]

HeapSort(keys, lo, hi) ==
  LET n == hi - lo + 1
  IN  Drained(Heaped(keys, n, lo), n, lo)

(* What a recursive sort can be called with: a part of a list of the       *)
(* elements of keys.                                                       *)
Parts(keys) ==
  [keys : [DOMAIN keys -> ToSet(keys)], lo : 1 .. Len(keys) + 1, hi : 0 .. Len(keys)]
Part(keys, lo, hi) == [keys |-> keys, lo |-> lo, hi |-> hi]

(***************************************************************************)
(* csharp.rs                                                               *)
(***************************************************************************)

(* insertion_sort: element i + 1 goes behind the last one it is not before.*)
Insert(keys, lo, i) ==
  LET kept == {k \in lo .. i : ~Before(keys[i + 1], keys[k])}
      at   == IF kept = {} THEN lo ELSE Max(kept) + 1
  IN  [k \in DOMAIN keys |-> IF k = at THEN keys[i + 1]
                             ELSE IF k \in at + 1 .. i + 1 THEN keys[k - 1]
                             ELSE keys[k]]

InsertionSort(keys, lo, hi) ==
  LET inserted[k \in 0 .. hi - lo] ==
        IF k = 0 THEN keys ELSE Insert(inserted[k - 1], lo, lo + k - 1)
  IN  inserted[hi - lo]

(* while left < right: both ends move towards each other at least once.    *)
Meet(d, pivot) ==
  LET l == Min({k \in d.left + 1 .. pivot : ~Before(d.keys[k], d.keys[pivot])})
      r == Max({k \in 1 .. d.right - 1 : ~Before(d.keys[pivot], d.keys[k])})
  IN  IF d.left >= d.right THEN d
      ELSE [keys |-> IF l < r THEN SwapAt(d.keys, l, r) ELSE d.keys, left |-> l, right |-> r]

Partition(keys, lo, pivot) ==
  LET met[k \in 0 .. pivot - lo] ==
        IF k = 0 THEN [keys |-> keys, left |-> lo, right |-> pivot] ELSE Meet(met[k - 1], pivot)
  IN  met[pivot - lo]

PickPivotAndPartition(keys, lo, hi) ==
  LET mid  == lo + (hi - lo) \div 2
      ends == SwapIfGreater(SwapIfGreater(SwapIfGreater(keys, lo, mid), lo, hi), mid, hi)
      done == Partition(SwapAt(ends, mid, hi - 1), lo, hi - 1)
  IN  [keys |-> SwapAt(done.keys, done.left, hi - 1), at |-> done.left]

(* The sort of three that compares its ends last.                          *)
SortThreeMixed(keys, lo, hi) ==
  SwapIfGreater(SwapIfGreater(SwapIfGreater(keys, lo, hi - 1), hi - 1, hi), lo, hi)

SortThree(keys, lo, hi) ==
  SwapIfGreater(SwapIfGreater(SwapIfGreater(keys, lo, hi - 1), lo, hi), hi - 1, hi)

(* intro_sort of a slice; `deeper` is what it does with one depth less.    *)
IntroSort(s, depth, threshold, deeper) ==
  LET size  == s.hi - s.lo + 1
      split == PickPivotAndPartition(s.keys, s.lo, s.hi)
      above == deeper[Part(split.keys, split.at + 1, s.hi)]
  IN  CASE size <= 1 -> s.keys
        [] size = 2 -> SwapIfGreater(s.keys, s.lo, s.hi)
        [] size = 3 -> SortThree(s.keys, s.lo, s.hi)
        [] size \in 4 .. threshold -> InsertionSort(s.keys, s.lo, s.hi)
        [] size > Greatest(3, threshold) /\ depth = 0 -> HeapSort(s.keys, s.lo, s.hi)
        [] OTHER -> deeper[Part(above, s.lo, split.at - 1)]

CSharpSort(keys, depth, threshold) ==
  LET sorted[d \in 0 .. depth] ==
        [s \in Parts(keys) |-> IntroSort(s, d, threshold, sorted[d - 1])]
  IN  sorted[depth][Part(keys, 1, Len(keys))]

(***************************************************************************)
(* osu_legacy.rs: it compares with whatever is in the middle, also after   *)
(* that was swapped.                                                       *)
(***************************************************************************)
Approach(d, middle) ==
  LET l == Min({k \in d.i .. Len(d.keys) : ~Before(d.keys[k], d.keys[middle])})
      r == Max({k \in 1 .. d.j : ~Before(d.keys[middle], d.keys[k])})
  IN  IF d.i > d.j THEN d
      ELSE IF l > r THEN [d EXCEPT !.i = l, !.j = r]
      ELSE [keys |-> IF l < r THEN SwapAt(d.keys, l, r) ELSE d.keys,
            i |-> l + 1, j |-> Greatest(r - 1, 1)]

Approached(keys, left, right, middle) ==
  LET met[k \in 0 .. right - left + 1] ==
        IF k = 0 THEN [keys |-> keys, i |-> left, j |-> right] ELSE Approach(met[k - 1], middle)
  IN  met[right - left + 1]

(* depth_limited_quick_sort of a slice.                                    *)
DepthLimitedQuickSort(s, depth, deeper) ==
  LET middle == s.lo + (s.hi - s.lo) \div 2
      ends == SwapIfGreater(SwapIfGreater(SwapIfGreater(s.keys, s.lo, middle), s.lo, s.hi),
                            middle, s.hi)
      met == Approached(ends, s.lo, s.hi, middle)
      lower(keys)  == deeper[Part(keys, s.lo, met.j)]
      higher(keys) == deeper[Part(keys, met.i, s.hi)]
  IN  IF s.lo >= s.hi THEN s.keys
      ELSE IF depth = 0 THEN HeapSort(s.keys, s.lo, s.hi)
      ELSE IF SaturatingSub(met.j, s.lo) <= s.hi - met.i THEN higher(lower(met.keys))
      ELSE lower(higher(met.keys))

LegacySort(keys, depth) ==
  LET sorted[d \in 0 .. depth] ==
        [s \in Parts(keys) |-> DepthLimitedQuickSort(s, d, sorted[d - 1])]
  IN  sorted[depth][Part(keys, 1, Len(keys))]

(***************************************************************************)
(* What a sort promises                                                    *)
(***************************************************************************)
InOrder(keys) == \A i \in 1 .. Len(keys) - 1 : ~Before(keys[i + 1], keys[i])

SameElements(s, t) ==
  /\ Len(s) = Len(t)
  /\ \A e \in ToSet(s) \cup ToSet(t) :
       Cardinality({i \in DOMAIN s : s[i] = e}) = Cardinality({i \in DOMAIN t : t[i] = e})

(***************************************************************************)
(* tandem.rs. It holds the permutation; sort() follows its cycles and      *)
(* marks the entries it is done with in their top bit, and a second sort() *)
(* has to remove the marks first. Keys are numbers; a slice is a sequence, *)
(* but its indices are 0-based here, as in the source.                     *)
(***************************************************************************)

(* The highest bit of a usize, scaled down: no list is as long as that.    *)
TopBit == 32768
IdxIsMarked(idx) == idx >= TopBit
ToggleMarkIdx(idx) == IF IdxIsMarked(idx) THEN idx - TopBit ELSE idx + TopBit

(* new_stable: the position each place of the sorted list is filled from.  *)
Precedes(keys, i, j) == keys[i] < keys[j] \/ (keys[i] = keys[j] /\ i < j)
Rank(keys, i) == Cardinality({j \in 1 .. Len(keys) : Precedes(keys, j, i)})

NewStable(keys) ==
  [ indices      |-> [k \in 0 .. Len(keys) - 1 |->
                        (CHOOSE i \in 1 .. Len(keys) : Rank(keys, i) = k) - 1],
    should_reset |-> FALSE ]

Swap(slice, i, j) == [slice EXCEPT ![i + 1] = slice[j + 1], ![j + 1] = slice[i + 1]]

(* One step along the cycle through i: `while j_idx != i`.                 *)
FollowOnce(d, i) ==
  IF d.jIdx = i THEN d
  ELSE [ indices |-> [d.indices EXCEPT ![d.j] = ToggleMarkIdx(d.jIdx)],
         slice   |-> Swap(d.slice, d.j, d.jIdx),
         j       |-> d.jIdx,
         jIdx    |-> d.indices[d.jIdx] ]

(* A cycle is no longer than the list.                                     *)
FollowCycle(c, i) ==
  LET following[k \in 0 .. Len(c.slice)] ==
        IF k = 0
        THEN [indices |-> c.indices, slice |-> c.slice, j |-> i, jIdx |-> c.indices[i]]
        ELSE FollowOnce(following[k - 1], i)
      last == following[Len(c.slice)]
  IN  [ indices |-> [last.indices EXCEPT ![last.j] = ToggleMarkIdx(last.jIdx)],
        slice   |-> last.slice ]

Visit(c, i) == IF IdxIsMarked(c.indices[i]) THEN c ELSE FollowCycle(c, i)

VisitAll(indices, slice) ==
  LET visited[i \in 0 .. Len(slice)] ==
        IF i = 0 THEN [indices |-> indices, slice |-> slice] ELSE Visit(visited[i - 1], i - 1)
  IN  visited[Len(slice)]

Sorted(done) == [slice |-> done.slice, sorter |-> [indices |-> done.indices, should_reset |-> TRUE]]

ResetMarks(sorter) ==
  IF sorter.should_reset
  THEN [i \in DOMAIN sorter.indices |-> ToggleMarkIdx(sorter.indices[i])]
  ELSE sorter.indices

SortKeepsMarks(sorter, slice) == Sorted(VisitAll(sorter.indices, slice))

(* sort(): the sorted list, and the sorter for the next one.               *)
Sort(sorter, slice) == Sorted(VisitAll(ResetMarks(sorter), slice))
=============================================================================
