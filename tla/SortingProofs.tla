---------------------------- MODULE SortingProofs ----------------------------
(***************************************************************************)
(* What the sorts of Sorting do to lists of every length. Those that keep  *)
(* the order of C# return the elements they are given in order, whatever   *)
(* pivots they pick and at whatever depth they heap, or, for the legacy    *)
(* one, keep a list in order that is in order. The sorter of tandem.rs     *)
(* holds a permutation that puts the keys into order and keeps equal ones  *)
(* as they were; sort() moves every element to its place, whatever cycles  *)
(* the permutation has; and a second list, sorted after the marks of the   *)
(* first are removed, is moved in the same way.                            *)
(***************************************************************************)
EXTENDS Sorting, Induction, FiniteSetTheorems

(***************************************************************************)
(* Loops, and the ends of sets of indices                                  *)
(***************************************************************************)
(* A loop of m rounds that is in S[k] after k of them.                     *)
Stays(S, m, start, step) ==
  /\ start \in S[0]
  /\ \A k \in 1 .. m : \A d \in S[k - 1] : step[k][d] \in S[k]

Loops(f, S, m, start, step) ==
  /\ f = [k \in 0 .. m |-> f[k]] /\ f[0] = start
  /\ \A k \in 1 .. m : f[k - 1] \in S[k - 1] /\ f[k] = step[k][f[k - 1]]

(* There is one, whatever its rounds do outside of these sets.             *)
LEMMA LoopExists ==
  ASSUME NEW m \in Nat, NEW S, NEW start, NEW step, Stays(S, m, start, step)
  PROVE  \E f : Loops(f, S, m, start, step)
<1> DEFINE T == UNION {S[k] : k \in 0 .. m}
           total == [k \in 1 .. m |-> [d \in T |-> IF d \in S[k - 1] THEN step[k][d] ELSE start]]
<1>1. \A k \in 0 .. m : S[k] \subseteq T
  OBVIOUS
<1>2. start \in T
  BY <1>1 DEF Stays
<1>3. ASSUME NEW k \in 1 .. m, NEW d \in S[k - 1] PROVE step[k][d] \in S[k] /\ step[k][d] \in T
  BY <1>1, <1>3 DEF Stays
<1> HIDE DEF T
<1>4. total \in [1 .. m -> [T -> T]]
  BY <1>2, <1>3
<1>5. \A k \in 1 .. m : \A d \in S[k - 1] : total[k][d] = step[k][d]
  <2>1. \A k \in 1 .. m : k - 1 \in 0 .. m
    OBVIOUS
  <2> QED BY <1>1, <2>1
<1> HIDE DEF total
<1>6. PICK f : Iterates(f, m, T, start, total)
  BY <1>2, <1>4, RecursionExists
<1>7. f \in [0 .. m -> T] /\ f[0] = start /\ \A k \in 1 .. m : f[k] = total[k][f[k - 1]]
  BY <1>6 DEF Iterates
<1> DEFINE In == {k \in 0 .. m : f[k] \in S[k]}
<1>8. 0 \in In /\ \A k \in 1 .. m : k - 1 \in In => k \in In
  BY <1>3, <1>5, <1>7 DEF Stays
<1> HIDE DEF In
<1>9. \A k \in 0 .. m : k \in In
  BY <1>8, IntervalIsReached
<1>10. \A k \in 0 .. m : f[k] \in S[k]
  BY <1>9 DEF In
<1>11. \A k \in 1 .. m : k - 1 \in 0 .. m
  OBVIOUS
<1>12. \A k \in 1 .. m : f[k - 1] \in S[k - 1] /\ f[k] = step[k][f[k - 1]]
  BY <1>5, <1>7, <1>10, <1>11
<1>13. f = [k \in 0 .. m |-> f[k]]
  BY <1>7
<1> QED BY <1>7, <1>12, <1>13 DEF Loops

(* And every other is in them as well.                                     *)
LEMMA LoopStays ==
  ASSUME NEW m \in Nat, NEW S, NEW f, f[0] \in S[0],
         \A k \in 1 .. m : f[k - 1] \in S[k - 1] => f[k] \in S[k]
  PROVE  f[m] \in S[m]
<1> DEFINE In == {k \in 0 .. m : f[k] \in S[k]}
<1>1. 0 \in In /\ \A k \in 1 .. m : k - 1 \in In => k \in In
  OBVIOUS
<1> HIDE DEF In
<1>2. \A k \in 0 .. m : k \in In
  BY <1>1, IntervalIsReached
<1>3. m \in In
  BY <1>2
<1> QED BY <1>3 DEF In

(* The greatest and the least of a set of indices are the ones they are    *)
(* called.                                                                 *)
LEMMA GreatestIsMax ==
  ASSUME NEW S \in SUBSET Nat, NEW m \in S, \A i \in S : i <= m
  PROVE  Max(S) = m
<1> DEFINE P(x) == x \in S /\ \A y \in S : x >= y
<1>1. \A x \in S : x \in Nat
  OBVIOUS
<1>2. P(m)
  BY <1>1
<1>3. ASSUME NEW x, P(x) PROVE x = m
  <2>1. x \in Nat /\ m \in Nat /\ x <= m /\ m <= x
    BY <1>1, <1>3
  <2> QED BY <2>1
<1>4. Max(S) = CHOOSE x : P(x)
  BY DEF Max
<1> HIDE DEF P
<1> QED BY <1>2, <1>3, <1>4

LEMMA LeastIsMin ==
  ASSUME NEW S \in SUBSET Nat, NEW m \in S, \A i \in S : m <= i
  PROVE  Min(S) = m
<1> DEFINE P(x) == x \in S /\ \A y \in S : x <= y
<1>1. \A x \in S : x \in Nat
  OBVIOUS
<1>2. P(m)
  BY <1>1
<1>3. ASSUME NEW x, P(x) PROVE x = m
  <2>1. x \in Nat /\ m \in Nat /\ x <= m /\ m <= x
    BY <1>1, <1>3
  <2> QED BY <2>1
<1>4. Min(S) = CHOOSE x : P(x)
  BY DEF Min
<1> HIDE DEF P
<1> QED BY <1>2, <1>3, <1>4

LEMMA BoundsAreReached ==
  ASSUME NEW n \in Nat, NEW S \in SUBSET (1 .. n), S # {}
  PROVE  /\ Max(S) \in S /\ \A i \in S : i <= Max(S)
         /\ Min(S) \in S /\ \A i \in S : Min(S) <= i
<1>1. PICK m \in S : \A i \in S : m <= i
  BY SmallestExists
<1>2. Min(S) = m
  BY <1>1, LeastIsMin
<1> DEFINE C == {n - i : i \in S}
<1>3. C \in SUBSET Nat /\ C # {}
  OBVIOUS
<1>4. PICK c \in C : \A x \in C : c <= x
  <2> HIDE DEF C
  <2> QED BY <1>3, SmallestExists
<1>5. PICK k \in S : c = n - k
  OBVIOUS
<1>6. ASSUME NEW i \in S PROVE i <= k
  <2>1. n - i \in C /\ i \in Nat /\ k \in Nat
    OBVIOUS
  <2>2. n - k <= n - i
    BY <1>4, <1>5, <2>1
  <2> QED BY <2>1, <2>2
<1>7. Max(S) = k
  <2>1. S \in SUBSET Nat
    OBVIOUS
  <2> QED BY <1>6, <2>1, GreatestIsMax
<1> QED BY <1>1, <1>2, <1>6, <1>7

(***************************************************************************)
(* Lists in another order                                                  *)
(***************************************************************************)
(* A list of n elements of R, which have a time.                           *)
IsTimed(s, n, R) == n \in Nat /\ s \in [1 .. n -> R] /\ (\A e \in R : e.time \in Int)

(* t holds the elements of s in another order, from lo to hi at most.      *)
IsMove(p, q, s, t, lo, hi, n) ==
  /\ p \in [1 .. n -> 1 .. n] /\ q \in [1 .. n -> 1 .. n]
  /\ \A k \in 1 .. n : /\ q[p[k]] = k /\ p[q[k]] = k
                       /\ k \notin lo .. hi => p[k] = k
                       /\ t[k] = s[p[k]]

Moves(s, t, lo, hi, n) == \E p, q : IsMove(p, q, s, t, lo, hi, n)

Ordered(s, lo, hi) == \A i, j \in lo .. hi : i < j => s[i].time <= s[j].time

LEMMA ElementsHaveTimes ==
  ASSUME NEW n, NEW R, NEW s, IsTimed(s, n, R)
  PROVE  n \in Nat /\ \A k \in 1 .. n : s[k] \in R /\ s[k].time \in Int
BY DEF IsTimed

LEMMA NothingMoves ==
  ASSUME NEW n, NEW R, NEW s, IsTimed(s, n, R), NEW lo, NEW hi
  PROVE  Moves(s, s, lo, hi, n)
<1> DEFINE p == [k \in 1 .. n |-> k]
<1>1. p \in [1 .. n -> 1 .. n] /\ \A k \in 1 .. n : p[k] = k
  OBVIOUS
<1> HIDE DEF p
<1>2. IsMove(p, p, s, s, lo, hi, n)
  BY <1>1 DEF IsMove
<1> QED BY <1>2 DEF Moves

LEMMA MovesCompose ==
  ASSUME NEW n, NEW s, NEW t, NEW u, NEW lo, NEW hi, NEW a, NEW b, NEW c, NEW d,
         lo .. hi \subseteq c .. d, a .. b \subseteq c .. d,
         Moves(s, t, lo, hi, n), Moves(t, u, a, b, n)
  PROVE  Moves(s, u, c, d, n)
<1>1. PICK p, q : IsMove(p, q, s, t, lo, hi, n)
  BY DEF Moves
<1>2. PICK v, w : IsMove(v, w, t, u, a, b, n)
  BY DEF Moves
<1> DEFINE x == [k \in 1 .. n |-> p[v[k]]]
           y == [k \in 1 .. n |-> w[q[k]]]
<1>3. /\ \A k \in 1 .. n : /\ p[k] \in 1 .. n /\ q[k] \in 1 .. n
                           /\ v[k] \in 1 .. n /\ w[k] \in 1 .. n
  BY <1>1, <1>2 DEF IsMove
<1>4. x \in [1 .. n -> 1 .. n] /\ y \in [1 .. n -> 1 .. n]
      /\ \A k \in 1 .. n : x[k] = p[v[k]] /\ y[k] = w[q[k]]
  BY <1>3
<1> HIDE DEF x, y
<1>5. ASSUME NEW k \in 1 .. n
      PROVE  /\ y[x[k]] = k /\ x[y[k]] = k
             /\ k \notin c .. d => x[k] = k
             /\ u[k] = s[x[k]]
  <2>1. y[x[k]] = k
    BY <1>1, <1>2, <1>3, <1>4 DEF IsMove
  <2>2. x[y[k]] = k
    BY <1>1, <1>2, <1>3, <1>4 DEF IsMove
  <2>3. k \notin c .. d => x[k] = k
    <3>1. k \notin c .. d => k \notin lo .. hi /\ k \notin a .. b
      OBVIOUS
    <3>2. /\ k \notin lo .. hi => p[k] = k
          /\ k \notin a .. b => v[k] = k
      BY <1>1, <1>2 DEF IsMove
    <3> QED BY <1>4, <3>1, <3>2
  <2>4. u[k] = s[x[k]]
    <3>1. u[k] = t[v[k]]
      BY <1>2 DEF IsMove
    <3>2. v[k] \in 1 .. n
      BY <1>3
    <3>3. t[v[k]] = s[p[v[k]]]
      BY <1>1, <3>2 DEF IsMove
    <3> QED BY <1>4, <3>1, <3>3
  <2> QED BY <2>1, <2>2, <2>3, <2>4
<1>6. IsMove(x, y, s, u, c, d, n)
  BY <1>4, <1>5 DEF IsMove
<1> QED BY <1>6 DEF Moves

LEMMA MovesWithin ==
  ASSUME NEW n, NEW s, NEW t, NEW lo, NEW hi, NEW c, NEW d, lo .. hi \subseteq c .. d,
         Moves(s, t, lo, hi, n)
  PROVE  Moves(s, t, c, d, n)
<1>1. PICK p, q : IsMove(p, q, s, t, lo, hi, n)
  BY DEF Moves
<1>2. IsMove(p, q, s, t, c, d, n)
  BY <1>1 DEF IsMove
<1> QED BY <1>2 DEF Moves

(* What moved came from there, the rest stayed.                            *)
MovesOnly(s, t, lo, hi, n) ==
  /\ \A k \in 1 .. n : k \notin lo .. hi => t[k] = s[k]
  /\ \A k \in 1 .. n : k \in lo .. hi => \E j \in 1 .. n : j \in lo .. hi /\ t[k] = s[j]

LEMMA MovedElements ==
  ASSUME NEW n, NEW s, NEW t, NEW lo, NEW hi, Moves(s, t, lo, hi, n)
  PROVE  MovesOnly(s, t, lo, hi, n)
<1>1. PICK p, q : IsMove(p, q, s, t, lo, hi, n)
  BY DEF Moves
<1>2. ASSUME NEW k \in 1 .. n, k \in lo .. hi PROVE p[k] \in lo .. hi /\ p[k] \in 1 .. n
  <2>1. p[k] \in 1 .. n /\ q[p[k]] = k
    BY <1>1 DEF IsMove
  <2>2. ASSUME p[k] \notin lo .. hi PROVE FALSE
    <3>1. p[p[k]] = p[k]
      BY <1>1, <2>1, <2>2 DEF IsMove
    <3>2. q[p[p[k]]] = p[k]
      BY <1>1, <2>1 DEF IsMove
    <3> QED BY <1>2, <2>1, <2>2, <3>1, <3>2
  <2> QED BY <2>1, <2>2
<1>3. \A k \in 1 .. n : t[k] = s[p[k]] /\ (k \notin lo .. hi => p[k] = k)
  BY <1>1 DEF IsMove
<1> QED BY <1>2, <1>3 DEF MovesOnly

LEMMA MovedList ==
  ASSUME NEW n, NEW R, NEW s, NEW t, NEW lo, NEW hi, IsTimed(s, n, R),
         Moves(s, t, lo, hi, n), NEW S, t \in [1 .. n -> S]
  PROVE  IsTimed(t, n, R)
<1>1. \A k \in 1 .. n : t[k] \in R
  <2>1. \A k \in 1 .. n : s[k] \in R
    BY DEF IsTimed
  <2>2. MovesOnly(s, t, lo, hi, n)
    BY MovedElements
  <2> QED BY <2>1, <2>2 DEF MovesOnly
<1> QED BY <1>1 DEF IsTimed

LEMMA SwapMoves ==
  ASSUME NEW n, NEW R, NEW s, IsTimed(s, n, R), NEW i \in 1 .. n, NEW j \in 1 .. n,
         NEW lo, NEW hi, i \in lo .. hi, j \in lo .. hi
  PROVE  /\ IsTimed(SwapAt(s, i, j), n, R)
         /\ Moves(s, SwapAt(s, i, j), lo, hi, n)
         /\ \A k \in 1 .. n :
              SwapAt(s, i, j)[k] = IF k = j THEN s[i] ELSE IF k = i THEN s[j] ELSE s[k]
<1> DEFINE p == [k \in 1 .. n |-> IF k = j THEN i ELSE IF k = i THEN j ELSE k]
           t == SwapAt(s, i, j)
<1>1. p \in [1 .. n -> 1 .. n]
      /\ \A k \in 1 .. n : p[k] = IF k = j THEN i ELSE IF k = i THEN j ELSE k
  OBVIOUS
<1>2. s \in [1 .. n -> R] /\ s[i] \in R /\ s[j] \in R
  BY DEF IsTimed
<1>3. t \in [1 .. n -> R]
  BY <1>2 DEF SwapAt
<1>4. \A k \in 1 .. n : t[k] = IF k = j THEN s[i] ELSE IF k = i THEN s[j] ELSE s[k]
  BY <1>2 DEF SwapAt
<1> HIDE DEF p, t
<1>5. \A k \in 1 .. n : p[p[k]] = k /\ (k \notin lo .. hi => p[k] = k) /\ t[k] = s[p[k]]
  BY <1>1, <1>4
<1>6. IsMove(p, p, s, t, lo, hi, n)
  BY <1>1, <1>5 DEF IsMove
<1>7. Moves(s, t, lo, hi, n)
  BY <1>6 DEF Moves
<1>8. IsTimed(t, n, R)
  BY <1>3 DEF IsTimed
<1> QED BY <1>4, <1>7, <1>8 DEF t

LEMMA MovesSameElements ==
  ASSUME NEW n, NEW R, NEW s, NEW t, NEW lo, NEW hi, IsTimed(s, n, R), IsTimed(t, n, R),
         Moves(s, t, lo, hi, n)
  PROVE  SameElements(t, s)
<1>1. PICK p, q : IsMove(p, q, s, t, lo, hi, n)
  BY DEF Moves
<1>2. n \in Nat /\ DOMAIN s = 1 .. n /\ DOMAIN t = 1 .. n /\ Len(s) = n /\ Len(t) = n
  BY DEF IsTimed
<1>3. ASSUME NEW e
      PROVE  Cardinality({i \in DOMAIN t : t[i] = e}) = Cardinality({i \in DOMAIN s : s[i] = e})
  <2> DEFINE A == {i \in DOMAIN t : t[i] = e}
             B == {i \in DOMAIN s : s[i] = e}
             f == [i \in A |-> p[i]]
  <2>1. A \subseteq 1 .. n /\ B \subseteq 1 .. n /\ IsFiniteSet(A) /\ IsFiniteSet(B)
    <3>1. A \subseteq 1 .. n /\ B \subseteq 1 .. n
      BY <1>2
    <3>2. IsFiniteSet(1 .. n)
      BY <1>2, FS_Interval
    <3> HIDE DEF A, B
    <3> QED BY <3>1, <3>2, FS_Subset
  <2>2. \A i \in A : p[i] \in B
    BY <1>1, <1>2 DEF IsMove
  <2>3. \A i, j \in A : p[i] = p[j] => i = j
    <3>1. \A i \in 1 .. n : q[p[i]] = i
      BY <1>1 DEF IsMove
    <3> HIDE DEF A
    <3> QED BY <2>1, <3>1
  <2>4. \A k \in B : q[k] \in A /\ p[q[k]] = k
    BY <1>1, <1>2 DEF IsMove
  <2>5. f \in [A -> B] /\ \A i \in A : f[i] = p[i]
    BY <2>2
  <2> HIDE DEF A, B, f
  <2>6. f \in Bijection(A, B)
    <3>1. \A k \in B : \E i \in A : f[i] = k
      BY <2>4, <2>5
    <3>2. \A i, j \in A : f[i] = f[j] => i = j
      BY <2>3, <2>5
    <3> QED BY <2>5, <3>1, <3>2 DEF Bijection, Injection, Surjection, IsInjective
  <2>7. ExistsBijection(A, B)
    BY <2>6 DEF ExistsBijection
  <2> QED BY <2>1, <2>7, FS_Bijection DEF A, B
<1> QED BY <1>2, <1>3 DEF SameElements

(***************************************************************************)
(* Heaps                                                                   *)
(***************************************************************************)
(* The times of the m elements from lo on.                                 *)
Times(s, lo, m) == [k \in 1 .. m |-> s[lo + k - 1].time]

(* No parent from `from` on is before a child of its.                      *)
Keeps(T, m, p) == \A c \in 1 .. m : c \in {2 * p, 2 * p + 1} => T[c] <= T[p]
IsHeap(T, m, from) == \A p \in 1 .. m : p >= from => Keeps(T, m, p)

(* The same but for i, which its parent's other child and its own children *)
(* may not notice.                                                         *)
IsHeapBut(T, m, from, i) ==
  /\ \A p \in 1 .. m : p >= from /\ p # i => Keeps(T, m, p)
  /\ \A p, c \in 1 .. m :
       p >= from /\ i \in {2 * p, 2 * p + 1} /\ c \in {2 * i, 2 * i + 1} => T[c] <= T[p]

LEMMA SiftKeeps ==
  ASSUME NEW m \in Nat, NEW T \in [1 .. m -> Int], NEW a \in 1 .. m, NEW i \in a .. m,
         IsHeapBut(T, m, a, i), NEW c \in 1 .. m, c \in {2 * i, 2 * i + 1},
         \A e \in 1 .. m : e \in {2 * i, 2 * i + 1} => T[e] <= T[c],
         T[i] <= T[c], NEW U \in [1 .. m -> Int],
         \A k \in 1 .. m : U[k] = IF k = c THEN T[i] ELSE IF k = i THEN T[c] ELSE T[k]
  PROVE  IsHeapBut(U, m, a, c)
<1>1. i \in 1 .. m /\ c > i /\ \A k \in 1 .. m : T[k] \in Int
  OBVIOUS
<1>2. ASSUME NEW p \in 1 .. m, p >= a, p # c, NEW e \in 1 .. m, e \in {2 * p, 2 * p + 1}
      PROVE  U[e] <= U[p]
  <2>1. CASE p = i
    <3>1. U[p] = T[c] /\ e # i
      BY <1>1, <1>2, <2>1
    <3>2. U[e] = IF e = c THEN T[i] ELSE T[e]
      BY <3>1
    <3>3. T[e] <= T[c]
      BY <1>2, <2>1
    <3> QED BY <3>1, <3>2, <3>3
  <2>2. CASE p # i /\ e = i
    <3>1. U[e] = T[c] /\ U[p] = T[p]
      BY <1>1, <1>2, <2>2
    <3>2. T[c] <= T[p]
      BY <1>2, <2>2 DEF IsHeapBut
    <3> QED BY <3>1, <3>2
  <2>3. CASE p # i /\ e # i
    <3>1. e # c
      BY <1>2, <2>3
    <3>2. U[e] = T[e] /\ U[p] = T[p]
      BY <1>2, <2>3, <3>1
    <3>3. T[e] <= T[p]
      BY <1>2, <2>3 DEF IsHeapBut, Keeps
    <3> QED BY <3>2, <3>3
  <2> QED BY <2>1, <2>2, <2>3
<1>3. ASSUME NEW p \in 1 .. m, NEW e \in 1 .. m, p >= a, c \in {2 * p, 2 * p + 1},
             e \in {2 * c, 2 * c + 1}
      PROVE  U[e] <= U[p]
  <2>1. p = i
    BY <1>1, <1>3
  <2>2. U[p] = T[c] /\ e # c /\ e # i
    BY <1>1, <1>3, <2>1
  <2>3. U[e] = T[e]
    BY <2>2
  <2>4. T[e] <= T[c]
    BY <1>1, <1>3 DEF IsHeapBut, Keeps
  <2> QED BY <2>2, <2>3, <2>4
<1> QED BY <1>2, <1>3 DEF IsHeapBut, Keeps

LEMMA SiftEnds ==
  ASSUME NEW m \in Nat, NEW T, NEW a \in 1 .. m, NEW i \in a .. m, IsHeapBut(T, m, a, i),
         Keeps(T, m, i)
  PROVE  IsHeap(T, m, a)
BY DEF IsHeapBut, IsHeap

LEMMA SiftStarts ==
  ASSUME NEW m \in Nat, NEW T, NEW a \in 1 .. m, IsHeap(T, m, a + 1)
  PROVE  IsHeapBut(T, m, a, a)
<1>1. \A p \in 1 .. m : p >= a /\ p # a => Keeps(T, m, p)
  BY DEF IsHeap
<1>2. \A p \in 1 .. m : p >= a => ~(a \in {2 * p, 2 * p + 1})
  OBVIOUS
<1> QED BY <1>1, <1>2 DEF IsHeapBut

(* The root of a heap is the greatest.                                     *)
LEMMA RootIsGreatest ==
  ASSUME NEW m \in Nat, NEW T \in [1 .. m -> Int], IsHeap(T, m, 1), NEW k \in 1 .. m
  PROVE  T[k] <= T[1]
<1> DEFINE S == {j \in 1 .. m : ~(T[j] <= T[1])}
<1> SUFFICES ASSUME S # {} PROVE FALSE
  OBVIOUS
<1>1. S \in SUBSET Nat
  OBVIOUS
<1>2. PICK j \in S : \A y \in S : j <= y
  <2> HIDE DEF S
  <2> QED BY <1>1, SmallestExists
<1>3. j \in 1 .. m /\ ~(T[j] <= T[1]) /\ j # 1 /\ T[1] \in Int /\ T[j] \in Int
  OBVIOUS
<1>4. PICK p \in 1 .. m : j \in {2 * p, 2 * p + 1}
  <2>1. j \div 2 \in 1 .. m /\ j \in {2 * (j \div 2), 2 * (j \div 2) + 1}
    BY <1>3
  <2> QED BY <2>1
<1>5. T[j] <= T[p] /\ p < j /\ T[p] \in Int
  BY <1>3, <1>4 DEF IsHeap, Keeps
<1>6. T[p] <= T[1]
  BY <1>2, <1>4, <1>5
<1> QED BY <1>3, <1>5, <1>6

(***************************************************************************)
(* A round of down_heap                                                    *)
(***************************************************************************)

(* After k rounds from a on, either it ended or it is at least k further.  *)
Sinking(d, s, a, m, lo, n, R, k) ==
  /\ IsTimed(d.keys, n, R) /\ Moves(s, d.keys, lo, lo + m - 1, n)
  /\ d.i \in a .. m
  /\ IsHeapBut(Times(d.keys, lo, m), m, a, d.i)
  /\ IsHeap(Times(d.keys, lo, m), m, a) \/ d.i >= a + k

AreTimes(T, s, lo, m) == T \in [1 .. m -> Int] /\ \A k \in 1 .. m : T[k] = s[lo + k - 1].time

LEMMA TimesOfList ==
  ASSUME NEW n, NEW R, NEW s, IsTimed(s, n, R), NEW lo \in Nat \ {0}, NEW m \in Nat, lo + m - 1 <= n
  PROVE  AreTimes(Times(s, lo, m), s, lo, m)
<1>1. n \in Nat /\ \A k \in 1 .. n : s[k].time \in Int
  BY ElementsHaveTimes
<1>2. \A k \in 1 .. m : lo + k - 1 \in 1 .. n
  BY <1>1
<1> QED BY <1>1, <1>2 DEF Times, AreTimes

LEMMA LaterChildIsGreatest ==
  ASSUME NEW n, NEW R, NEW s, IsTimed(s, n, R), NEW lo \in Nat \ {0}, NEW m \in Nat, lo + m - 1 <= n,
         NEW i \in 1 .. m, i <= m \div 2
  PROVE  /\ LaterChild(s, i, m, lo) \in 1 .. m
         /\ LaterChild(s, i, m, lo) \in {2 * i, 2 * i + 1}
         /\ \A e \in 1 .. m : e \in {2 * i, 2 * i + 1} =>
              Times(s, lo, m)[e] <= Times(s, lo, m)[LaterChild(s, i, m, lo)]
<1>1. n \in Nat /\ 2 * i \in 1 .. m
  BY DEF IsTimed
<1> DEFINE T == Times(s, lo, m)
<1>2. T \in [1 .. m -> Int] /\ \A k \in 1 .. m : T[k] = s[lo + k - 1].time
  <2>1. AreTimes(T, s, lo, m)
    BY TimesOfList
  <2> QED BY <2>1 DEF AreTimes
<1>3. LaterChild(s, i, m, lo) =
        IF 2 * i < m /\ T[2 * i] < T[2 * i + 1] THEN 2 * i + 1 ELSE 2 * i
  <2>1. CASE 2 * i < m
    <3>1. 2 * i + 1 \in 1 .. m /\ lo + (2 * i + 1) - 1 = lo + 2 * i
      BY <2>1
    <3>2. T[2 * i] = s[lo + 2 * i - 1].time /\ T[2 * i + 1] = s[lo + 2 * i].time
      BY <1>1, <1>2, <3>1
    <3> QED BY <3>2 DEF LaterChild, Before
  <2>2. CASE ~(2 * i < m)
    BY <2>2 DEF LaterChild
  <2> QED BY <2>1, <2>2
<1> HIDE DEF T
<1>4. LaterChild(s, i, m, lo) \in 1 .. m /\ LaterChild(s, i, m, lo) \in {2 * i, 2 * i + 1}
  BY <1>1, <1>3
<1>5. ASSUME NEW e \in 1 .. m, e \in {2 * i, 2 * i + 1}
      PROVE  T[e] <= T[LaterChild(s, i, m, lo)]
  <2>1. \A k \in 1 .. m : T[k] \in Int
    BY <1>2
  <2>2. CASE 2 * i < m /\ T[2 * i] < T[2 * i + 1]
    BY <1>1, <1>3, <1>5, <2>1, <2>2
  <2>3. CASE 2 * i < m /\ ~(T[2 * i] < T[2 * i + 1])
    <3>1. 2 * i + 1 \in 1 .. m
      BY <2>3
    <3> QED BY <1>1, <1>3, <1>5, <2>1, <2>3, <3>1
  <2>4. CASE ~(2 * i < m)
    BY <1>1, <1>3, <1>5, <2>1, <2>4
  <2> QED BY <2>2, <2>3, <2>4
<1> QED BY <1>4, <1>5 DEF T

LEMMA SinkSinks ==
  ASSUME NEW n, NEW R, NEW s, NEW lo \in Nat \ {0}, NEW m \in Nat, lo + m - 1 <= n,
         NEW a \in 1 .. m, NEW k \in Nat, NEW d, Sinking(d, s, a, m, lo, n, R, k)
  PROVE  Sinking(Sink(d, m, lo), s, a, m, lo, n, R, k + 1)
<1> DEFINE i == d.i
           t == d.keys
           T == Times(t, lo, m)
           c == LaterChild(t, i, m, lo)
           u == SwapAt(t, lo + i - 1, lo + c - 1)
           U == Times(u, lo, m)
<1>1. /\ IsTimed(t, n, R) /\ Moves(s, t, lo, lo + m - 1, n)
      /\ i \in a .. m /\ IsHeapBut(T, m, a, i)
      /\ IsHeap(T, m, a) \/ i >= a + k
  BY DEF Sinking
<1>2. n \in Nat /\ i \in 1 .. m
  BY <1>1 DEF IsTimed
<1>3. T \in [1 .. m -> Int] /\ \A j \in 1 .. m : T[j] = t[lo + j - 1].time
  <2>1. AreTimes(T, t, lo, m)
    BY <1>1, TimesOfList
  <2> QED BY <2>1 DEF AreTimes
<1>4. lo + i - 1 \in 1 .. n /\ lo + i - 1 \in lo .. lo + m - 1
  BY <1>2
<1>5. CASE ~(i <= m \div 2)
  <2>1. Sink(d, m, lo) = d
    BY <1>5 DEF Sink
  <2>2. Keeps(T, m, i)
    BY <1>2, <1>5 DEF Keeps
  <2>3. IsHeap(T, m, a)
    BY <1>1, <2>2, SiftEnds
  <2> QED BY <1>1, <2>1, <2>3 DEF Sinking
<1>6. CASE i <= m \div 2
  <2>1. /\ c \in 1 .. m /\ c \in {2 * i, 2 * i + 1}
        /\ \A e \in 1 .. m : e \in {2 * i, 2 * i + 1} => T[e] <= T[c]
    BY <1>1, <1>2, <1>6, LaterChildIsGreatest
  <2>2. lo + c - 1 \in 1 .. n /\ lo + c - 1 \in lo .. lo + m - 1
    BY <1>2, <2>1
  <2>3. Before(t[lo + i - 1], t[lo + c - 1]) <=> T[i] < T[c]
    BY <1>2, <1>3, <2>1 DEF Before
  <2>4. Sink(d, m, lo) = IF T[i] < T[c] THEN [keys |-> u, i |-> c] ELSE d
    BY <1>6, <2>3 DEF Sink
  <2>5. T[i] \in Int /\ T[c] \in Int
    BY <1>2, <1>3, <2>1
  <2>6. CASE ~(T[i] < T[c])
    <3>1. \A e \in 1 .. m : T[e] \in Int
      BY <1>3
    <3> HIDE DEF T, c, i
    <3>2. Keeps(T, m, i)
      BY <2>1, <2>5, <2>6, <3>1 DEF Keeps
    <3>3. IsHeap(T, m, a)
      BY <1>1, <3>2, SiftEnds
    <3> QED BY <1>1, <2>4, <2>6, <3>3 DEF Sinking, T, i
  <2>7. CASE T[i] < T[c]
    <3>1. /\ IsTimed(u, n, R) /\ Moves(t, u, lo, lo + m - 1, n)
          /\ \A j \in 1 .. n :
               u[j] = IF j = lo + c - 1 THEN t[lo + i - 1] ELSE IF j = lo + i - 1 THEN t[lo + c - 1] ELSE t[j]
      BY <1>1, <1>4, <2>2, SwapMoves
    <3>2. Moves(s, u, lo, lo + m - 1, n)
      BY <1>1, <3>1, MovesCompose
    <3>3. U \in [1 .. m -> Int] /\ \A j \in 1 .. m : U[j] = u[lo + j - 1].time
      BY <3>1, TimesOfList DEF AreTimes
    <3> HIDE DEF T, U, c, i, t, u
    <3>4. ASSUME NEW j \in 1 .. m PROVE U[j] = IF j = c THEN T[i] ELSE IF j = i THEN T[c] ELSE T[j]
      <4>1. lo + j - 1 \in 1 .. n
        BY <1>2
      <4>2. /\ lo + j - 1 = lo + c - 1 <=> j = c
            /\ lo + j - 1 = lo + i - 1 <=> j = i
        BY <1>2, <2>1
      <4> QED BY <1>2, <1>3, <2>1, <3>1, <3>3, <4>1, <4>2
    <3>5. T[i] <= T[c]
      BY <2>5, <2>7
    <3>6. IsHeapBut(U, m, a, c)
      BY <1>1, <1>3, <2>1, <3>3, <3>4, <3>5, SiftKeeps
    <3>7. ~IsHeap(T, m, a)
      <4>1. ~Keeps(T, m, i)
        BY <2>1, <2>5, <2>7 DEF Keeps
      <4> QED BY <1>1, <1>2, <4>1 DEF IsHeap
    <3>8. c \in a .. m /\ c >= a + (k + 1)
      BY <1>1, <1>2, <2>1, <3>7
    <3>9. Sink(d, m, lo).keys = u /\ Sink(d, m, lo).i = c
      BY <2>4, <2>7
    <3> QED BY <3>1, <3>2, <3>6, <3>8, <3>9 DEF Sinking, U
  <2> QED BY <2>6, <2>7
<1> QED BY <1>5, <1>6

(* The form of the recursive function of down_heap.                        *)
IsSinking(f, m, start, lo) ==
  f = [k \in 0 .. m |-> IF k = 0 THEN start ELSE Sink(f[k - 1], m, lo)]

LEMMA DownHeapKeeps ==
  ASSUME NEW n, NEW R, NEW s, IsTimed(s, n, R), NEW lo \in Nat \ {0}, NEW m \in Nat, lo + m - 1 <= n,
         NEW a \in 1 .. m, IsHeap(Times(s, lo, m), m, a + 1)
  PROVE  /\ IsTimed(DownHeap(s, a, m, lo), n, R)
         /\ Moves(s, DownHeap(s, a, m, lo), lo, lo + m - 1, n)
         /\ IsHeap(Times(DownHeap(s, a, m, lo), lo, m), m, a)
<1> DEFINE start == [keys |-> s, i |-> a]
           States == [keys : [1 .. n -> R], i : 1 .. m]
           In(d, k) == Sinking(d, s, a, m, lo, n, R, k)
           S == [k \in 0 .. m |-> {d \in States : In(d, k)}]
           step == [k \in 1 .. m |-> [d \in States |-> Sink(d, m, lo)]]
           f == CHOOSE f : IsSinking(f, m, start, lo)
<1>1. start \in States /\ In(start, 0)
  <2>1. IsHeapBut(Times(s, lo, m), m, a, a)
    BY SiftStarts
  <2>2. Moves(s, s, lo, lo + m - 1, n)
    BY NothingMoves
  <2> QED BY <2>1, <2>2 DEF Sinking, IsTimed
<1>2. ASSUME NEW d \in States, NEW k \in Nat, In(d, k)
      PROVE  Sink(d, m, lo) \in States /\ In(Sink(d, m, lo), k + 1)
  <2>1. In(Sink(d, m, lo), k + 1)
    BY <1>2, SinkSinks
  <2>2. Sink(d, m, lo).keys \in [1 .. n -> R] /\ Sink(d, m, lo).i \in 1 .. m
    BY <2>1 DEF Sinking, IsTimed
  <2>3. Sink(d, m, lo) = d \/ \E x, y : Sink(d, m, lo) = [keys |-> x, i |-> y]
    BY DEF Sink
  <2>4. Sink(d, m, lo) \in States
    BY <2>2, <2>3
  <2> QED BY <2>1, <2>4
<1> HIDE DEF In, States, start
<1>3. \A k \in 0 .. m : \A d : d \in S[k] <=> d \in States /\ In(d, k)
  OBVIOUS
<1>4. \A k \in 1 .. m : \A d \in States : step[k][d] = Sink(d, m, lo)
  OBVIOUS
<1> HIDE DEF S, step
<1>5. ASSUME NEW k \in 1 .. m, NEW d \in S[k - 1] PROVE Sink(d, m, lo) \in S[k] /\ d \in States
  <2>1. k - 1 \in 0 .. m /\ k - 1 \in Nat /\ (k - 1) + 1 = k /\ k \in 0 .. m
    OBVIOUS
  <2>2. d \in States /\ In(d, k - 1)
    BY <1>3, <2>1
  <2>3. Sink(d, m, lo) \in States /\ In(Sink(d, m, lo), (k - 1) + 1)
    BY <1>2, <2>1, <2>2
  <2> QED BY <1>3, <2>1, <2>2, <2>3
<1>6. start \in S[0]
  BY <1>1, <1>3
<1>7. Stays(S, m, start, step)
  BY <1>4, <1>5, <1>6 DEF Stays
<1>8. PICK h : Loops(h, S, m, start, step)
  BY <1>7, LoopExists
<1>9. IsSinking(h, m, start, lo)
  <2>1. h = [k \in 0 .. m |-> h[k]] /\ h[0] = start
        /\ \A k \in 1 .. m : h[k] = Sink(h[k - 1], m, lo)
    BY <1>4, <1>5, <1>8 DEF Loops
  <2>2. \A k \in 0 .. m : h[k] = IF k = 0 THEN start ELSE Sink(h[k - 1], m, lo)
    BY <2>1
  <2> QED BY <2>1, <2>2 DEF IsSinking
<1>10. IsSinking(f, m, start, lo)
  BY <1>9
<1>11. DownHeap(s, a, m, lo) = f[m].keys
  BY DEF DownHeap, IsSinking, start
<1> HIDE DEF f
<1>12. f[0] = start /\ \A k \in 1 .. m : f[k] = Sink(f[k - 1], m, lo)
  BY <1>10 DEF IsSinking
<1>13. f[m] \in S[m]
  BY <1>5, <1>6, <1>12, LoopStays
<1>14. In(f[m], m)
  BY <1>3, <1>13
<1>15. IsHeap(Times(f[m].keys, lo, m), m, a)
  BY <1>14 DEF In, Sinking
<1> QED BY <1>11, <1>14, <1>15 DEF In, Sinking

(***************************************************************************)
(* The heap is built                                                       *)
(***************************************************************************)
Heaping(t, s, lo, m, n, R, k) ==
  IsTimed(t, n, R) /\ Moves(s, t, lo, lo + m - 1, n) /\ IsHeap(Times(t, lo, m), m, m \div 2 - k + 1)

IsHeaping(f, s, m, lo) ==
  f = [k \in 0 .. m \div 2 |-> IF k = 0 THEN s ELSE DownHeap(f[k - 1], m \div 2 - k + 1, m, lo)]

LEMMA HeapedKeeps ==
  ASSUME NEW n, NEW R, NEW s, IsTimed(s, n, R), NEW lo \in Nat \ {0}, NEW m \in Nat, lo + m - 1 <= n
  PROVE  /\ IsTimed(Heaped(s, m, lo), n, R)
         /\ Moves(s, Heaped(s, m, lo), lo, lo + m - 1, n)
         /\ IsHeap(Times(Heaped(s, m, lo), lo, m), m, 1)
<1> DEFINE half == m \div 2
           Lists == [1 .. n -> R]
           In(d, k) == Heaping(d, s, lo, m, n, R, k)
           S == [k \in 0 .. half |-> {d \in Lists : In(d, k)}]
           step == [k \in 1 .. half |-> [d \in Lists |-> DownHeap(d, half - k + 1, m, lo)]]
           f == CHOOSE f : IsHeaping(f, s, m, lo)
<1>1. half \in Nat /\ half <= m /\ m < 2 * (half + 1)
  OBVIOUS
<1> HIDE DEF half
<1>2. s \in Lists /\ In(s, 0)
  <2>1. \A p \in 1 .. m : p >= half - 0 + 1 => Keeps(Times(s, lo, m), m, p)
    BY <1>1 DEF Keeps
  <2>2. Moves(s, s, lo, lo + m - 1, n)
    BY NothingMoves
  <2> QED BY <2>1, <2>2 DEF Heaping, IsHeap, IsTimed, half
<1>3. ASSUME NEW k \in 1 .. half, NEW d \in Lists, In(d, k - 1)
      PROVE  DownHeap(d, half - k + 1, m, lo) \in Lists /\ In(DownHeap(d, half - k + 1, m, lo), k)
  <2> DEFINE a == half - k + 1
             e == DownHeap(d, a, m, lo)
  <2>1. a \in 1 .. m /\ half - (k - 1) + 1 = a + 1
    BY <1>1
  <2>2. IsTimed(d, n, R) /\ Moves(s, d, lo, lo + m - 1, n) /\ IsHeap(Times(d, lo, m), m, a + 1)
    BY <1>3, <2>1 DEF Heaping, half
  <2> HIDE DEF a
  <2>3. /\ IsTimed(e, n, R) /\ Moves(d, e, lo, lo + m - 1, n)
        /\ IsHeap(Times(e, lo, m), m, a)
    BY <2>1, <2>2, DownHeapKeeps
  <2>4. Moves(s, e, lo, lo + m - 1, n)
    BY <2>2, <2>3, MovesCompose
  <2> QED BY <2>3, <2>4 DEF Heaping, IsTimed, a, half
<1> HIDE DEF In, Lists
<1>4. \A k \in 0 .. half : \A d : d \in S[k] <=> d \in Lists /\ In(d, k)
  OBVIOUS
<1>5. \A k \in 1 .. half : \A d \in Lists : step[k][d] = DownHeap(d, half - k + 1, m, lo)
  OBVIOUS
<1> HIDE DEF S, step
<1>6. ASSUME NEW k \in 1 .. half, NEW d \in S[k - 1]
      PROVE  DownHeap(d, half - k + 1, m, lo) \in S[k] /\ d \in Lists
  <2>1. k - 1 \in 0 .. half /\ k \in 0 .. half
    BY <1>1
  <2>2. d \in Lists /\ In(d, k - 1)
    BY <1>4, <2>1
  <2> QED BY <1>3, <1>4, <2>1, <2>2
<1>7. s \in S[0]
  BY <1>1, <1>2, <1>4
<1>8. Stays(S, half, s, step)
  BY <1>5, <1>6, <1>7 DEF Stays
<1>9. PICK h : Loops(h, S, half, s, step)
  BY <1>1, <1>8, LoopExists
<1>10. IsHeaping(h, s, m, lo)
  <2>1. h = [k \in 0 .. half |-> h[k]] /\ h[0] = s
        /\ \A k \in 1 .. half : h[k] = DownHeap(h[k - 1], half - k + 1, m, lo)
    BY <1>5, <1>6, <1>9 DEF Loops
  <2>2. ASSUME NEW k \in 0 .. half
        PROVE  h[k] = IF k = 0 THEN s ELSE DownHeap(h[k - 1], half - k + 1, m, lo)
    <3>1. k = 0 \/ k \in 1 .. half
      BY <1>1
    <3> QED BY <2>1, <3>1
  <2> QED BY <2>1, <2>2 DEF IsHeaping, half
<1>11. IsHeaping(f, s, m, lo)
  BY <1>10
<1>12. Heaped(s, m, lo) = f[half]
  BY DEF Heaped, IsHeaping, half
<1> HIDE DEF f
<1>13. f[0] = s /\ \A k \in 1 .. half : f[k] = DownHeap(f[k - 1], half - k + 1, m, lo)
  BY <1>1, <1>11 DEF IsHeaping, half
<1>14. f[half] \in S[half]
  <2>1. ASSUME NEW k \in 1 .. half, f[k - 1] \in S[k - 1] PROVE f[k] \in S[k]
    BY <1>6, <1>13, <2>1
  <2> QED BY <1>1, <1>7, <1>13, <2>1, LoopStays
<1>15. In(f[half], half) /\ half - half + 1 = 1
  BY <1>1, <1>4, <1>14
<1> QED BY <1>12, <1>15 DEF In, Heaping, half

(***************************************************************************)
(* And taken apart again                                                   *)
(***************************************************************************)

(* The last k times are in order and none of the others is after one of    *)
(* them; the others are a heap.                                            *)
TailIsOrdered(T, m, k) == \A i, j \in 1 .. m : i < j /\ j > m - k => T[i] <= T[j]

Draining(t, s, lo, m, n, R, k) ==
  /\ IsTimed(t, n, R) /\ Moves(s, t, lo, lo + m - 1, n)
  /\ IsHeap(Times(t, lo, m - k), m - k, 1)
  /\ TailIsOrdered(Times(t, lo, m), m, k)

IsDraining(f, s, m, lo) ==
  f = [k \in 0 .. m - 1 |->
         IF k = 0 THEN s ELSE DownHeap(SwapAt(f[k - 1], lo, lo + m - k), 1, m - k, lo)]

LEMMA DrainOnce ==
  ASSUME NEW n, NEW R, NEW s, NEW t, NEW lo \in Nat \ {0}, NEW m \in Nat, lo + m - 1 <= n,
         NEW k \in 1 .. m - 1, Draining(t, s, lo, m, n, R, k - 1)
  PROVE  Draining(DownHeap(SwapAt(t, lo, lo + m - k), 1, m - k, lo), s, lo, m, n, R, k)
<1> DEFINE h == m - k
           u == SwapAt(t, lo, lo + h)
           v == DownHeap(u, 1, h, lo)
           T == Times(t, lo, m)
           H == Times(t, lo, h + 1)
           V == Times(v, lo, m)
<1>1. h \in 1 .. m - 1 /\ m - (k - 1) = h + 1 /\ lo + m - k = lo + h
  OBVIOUS
<1>2. /\ IsTimed(t, n, R) /\ Moves(s, t, lo, lo + m - 1, n)
      /\ IsHeap(H, h + 1, 1)
      /\ TailIsOrdered(T, m, k - 1)
  BY <1>1 DEF Draining
<1>3. n \in Nat
  BY <1>2 DEF IsTimed
<1> HIDE DEF h
<1>4. /\ IsTimed(u, n, R) /\ Moves(t, u, lo, lo + m - 1, n)
      /\ \A j \in 1 .. n : u[j] = IF j = lo + h THEN t[lo] ELSE IF j = lo THEN t[lo + h] ELSE t[j]
  <2>1. lo \in 1 .. n /\ lo + h \in 1 .. n /\ lo \in lo .. lo + m - 1 /\ lo + h \in lo .. lo + m - 1
    BY <1>1, <1>3
  <2> QED BY <1>2, <2>1, SwapMoves
<1>5. AreTimes(T, t, lo, m) /\ AreTimes(H, t, lo, h + 1) /\ AreTimes(Times(u, lo, h), u, lo, h)
  <2>1. AreTimes(T, t, lo, m)
    BY <1>2, TimesOfList
  <2>2. h + 1 \in Nat /\ lo + (h + 1) - 1 <= n /\ h \in Nat /\ lo + h - 1 <= n
    BY <1>1, <1>3
  <2>3. AreTimes(H, t, lo, h + 1)
    BY <1>2, <2>2, TimesOfList
  <2>4. AreTimes(Times(u, lo, h), u, lo, h)
    BY <1>4, <2>2, TimesOfList
  <2> QED BY <2>1, <2>3, <2>4
<1> HIDE DEF u, T, H
<1>6. \A j \in 1 .. h + 1 : H[j] \in Int /\ H[j] <= H[1]
  <2>1. h + 1 \in Nat /\ H \in [1 .. h + 1 -> Int]
    BY <1>1, <1>5 DEF AreTimes
  <2> QED BY <1>2, <2>1, RootIsGreatest
<1>7. \A j \in 1 .. h + 1 : H[j] = t[lo + j - 1].time
  BY <1>5 DEF AreTimes
<1>8. IsHeap(Times(u, lo, h), h, 1 + 1)
  <2>1. \A j \in 1 .. h : Times(u, lo, h)[j] = u[lo + j - 1].time
    BY <1>5 DEF AreTimes
  <2>2. ASSUME NEW j \in 2 .. h PROVE Times(u, lo, h)[j] = H[j]
    <3>1. lo + j - 1 \in 1 .. n /\ lo + j - 1 # lo + h /\ lo + j - 1 # lo /\ j \in 1 .. h + 1 /\ j \in 1 .. h
      BY <1>1, <1>3
    <3> QED BY <1>4, <1>7, <2>1, <3>1
  <2>3. ASSUME NEW p \in 1 .. h, p >= 2, NEW c \in 1 .. h, c \in {2 * p, 2 * p + 1}
        PROVE  Times(u, lo, h)[c] <= Times(u, lo, h)[p]
    <3>1. c \in 2 .. h /\ p \in 2 .. h /\ p \in 1 .. h + 1 /\ c \in 1 .. h + 1
      BY <1>1, <2>3
    <3>2. H[c] <= H[p]
      BY <1>2, <2>3, <3>1 DEF IsHeap, Keeps
    <3> QED BY <2>2, <3>1, <3>2
  <2> QED BY <2>3 DEF IsHeap, Keeps
<1>9. /\ IsTimed(v, n, R) /\ Moves(u, v, lo, lo + h - 1, n)
      /\ IsHeap(Times(v, lo, h), h, 1)
  <2>1. h \in Nat /\ lo + h - 1 <= n /\ 1 \in 1 .. h
    BY <1>1, <1>3
  <2> QED BY <1>4, <1>8, <2>1, DownHeapKeeps
<1>10. Moves(s, v, lo, lo + m - 1, n)
  <2>1. lo .. lo + h - 1 \subseteq lo .. lo + m - 1
    BY <1>1
  <2>2. Moves(s, u, lo, lo + m - 1, n)
    BY <1>2, <1>4, MovesCompose
  <2> QED BY <1>9, <2>1, <2>2, MovesCompose
<1>11. AreTimes(V, v, lo, m)
  BY <1>9, TimesOfList
<1>12. MovesOnly(u, v, lo, lo + h - 1, n)
  BY <1>9, MovedElements
<1> HIDE DEF v, V
<1>13. \A j \in 1 .. m : T[j] = t[lo + j - 1].time /\ V[j] = v[lo + j - 1].time /\ lo + j - 1 \in 1 .. n
  BY <1>3, <1>5, <1>11 DEF AreTimes
<1>14. \A j \in 1 .. h + 1 : j \in 1 .. m /\ T[j] = H[j] /\ T[j] \in Int /\ T[j] <= T[1]
  <2>1. \A j \in 1 .. h + 1 : j \in 1 .. m
    BY <1>1
  <2>2. \A j \in 1 .. h + 1 : T[j] = H[j]
    BY <1>7, <1>13, <2>1
  <2>3. 1 \in 1 .. h + 1
    BY <1>1
  <2> QED BY <1>6, <2>1, <2>2, <2>3
<1>15. ASSUME NEW j \in 1 .. m, j > h + 1 PROVE V[j] = T[j]
  <2>1. lo + j - 1 \notin lo .. lo + h - 1 /\ lo + j - 1 # lo + h /\ lo + j - 1 # lo
    BY <1>1, <1>15
  <2> QED BY <1>4, <1>12, <1>13, <2>1 DEF MovesOnly
<1>16. V[h + 1] = T[1]
  <2>1. lo + (h + 1) - 1 \notin lo .. lo + h - 1 /\ lo + (h + 1) - 1 = lo + h /\ h + 1 \in 1 .. m /\ 1 \in 1 .. m
    BY <1>1
  <2>2. T[1] = t[lo].time /\ V[h + 1] = v[lo + h].time /\ lo + h \in 1 .. n
    BY <1>13, <2>1
  <2>3. v[lo + h] = u[lo + h]
    BY <1>12, <2>1, <2>2 DEF MovesOnly
  <2>4. u[lo + h] = t[lo]
    BY <1>4, <2>2
  <2> QED BY <2>2, <2>3, <2>4
<1>17. ASSUME NEW j \in 1 .. h PROVE \E i \in 1 .. h + 1 : V[j] = T[i]
  <2>1. j \in 1 .. m /\ lo + j - 1 \in 1 .. n /\ lo + j - 1 \in lo .. lo + h - 1
    BY <1>1, <1>3
  <2>2. PICK x \in 1 .. n : x \in lo .. lo + h - 1 /\ v[lo + j - 1] = u[x]
    BY <1>12, <2>1 DEF MovesOnly
  <2>3. PICK i \in 1 .. h + 1 : u[x] = t[lo + i - 1]
    <3>1. CASE x = lo
      <4>1. u[x] = t[lo + h] /\ lo + (h + 1) - 1 = lo + h /\ h + 1 \in 1 .. h + 1
        BY <1>1, <1>4, <2>2, <3>1
      <4> QED BY <4>1
    <3>2. CASE x # lo
      <4>1. u[x] = t[x] /\ x - lo + 1 \in 1 .. h + 1 /\ lo + (x - lo + 1) - 1 = x
        BY <1>1, <1>4, <2>2, <3>2
      <4> QED BY <4>1
    <3> QED BY <3>1, <3>2
  <2> QED BY <1>13, <1>14, <2>1, <2>2, <2>3
<1>18. ASSUME NEW i \in 1 .. m, NEW j \in 1 .. m, i < j, j > m - k PROVE V[i] <= V[j]
  <2>1. j > h
    BY <1>18 DEF h
  <2>2. \A x, y \in 1 .. m : x < y /\ y > h + 1 => T[x] <= T[y]
    BY <1>1, <1>2 DEF TailIsOrdered
  <2>3. CASE j = h + 1
    <3>1. PICK x \in 1 .. h + 1 : V[i] = T[x]
      BY <1>1, <1>17, <1>18, <2>3
    <3> QED BY <1>14, <1>16, <2>3, <3>1
  <2>4. CASE j > h + 1 /\ i > h + 1
    BY <1>15, <1>18, <2>2, <2>4
  <2>5. CASE j > h + 1 /\ i = h + 1
    <3>1. 1 \in 1 .. m /\ 1 < j
      BY <1>1, <2>5
    <3> QED BY <1>15, <1>16, <2>2, <2>5, <3>1
  <2>6. CASE j > h + 1 /\ i <= h
    <3>1. i \in 1 .. h
      BY <1>1, <2>6
    <3>2. PICK x \in 1 .. h + 1 : V[i] = T[x]
      BY <1>17, <3>1
    <3>3. x \in 1 .. m /\ x < j
      BY <1>14, <2>6, <1>1
    <3> QED BY <1>15, <2>2, <2>6, <3>2, <3>3
  <2> QED BY <1>1, <2>1, <2>3, <2>4, <2>5, <2>6
<1>19. TailIsOrdered(V, m, k)
  BY <1>18 DEF TailIsOrdered
<1> QED BY <1>1, <1>9, <1>10, <1>19 DEF Draining, v, u, V, h

LEMMA DrainedKeeps ==
  ASSUME NEW n, NEW R, NEW s, IsTimed(s, n, R), NEW lo \in Nat \ {0}, NEW m \in Nat \ {0},
         lo + m - 1 <= n, IsHeap(Times(s, lo, m), m, 1)
  PROVE  /\ IsTimed(Drained(s, m, lo), n, R)
         /\ Moves(s, Drained(s, m, lo), lo, lo + m - 1, n)
         /\ TailIsOrdered(Times(Drained(s, m, lo), lo, m), m, m - 1)
<1> DEFINE last == m - 1
           Next(d, k) == DownHeap(SwapAt(d, lo, lo + m - k), 1, m - k, lo)
           Lists == [1 .. n -> R]
           In(d, k) == Draining(d, s, lo, m, n, R, k)
           S == [k \in 0 .. last |-> {d \in Lists : In(d, k)}]
           step == [k \in 1 .. last |-> [d \in Lists |-> Next(d, k)]]
           f == CHOOSE f : IsDraining(f, s, m, lo)
<1>1. last \in Nat
  OBVIOUS
<1>2. s \in Lists /\ In(s, 0)
  <2>1. TailIsOrdered(Times(s, lo, m), m, 0)
    BY DEF TailIsOrdered
  <2>2. Moves(s, s, lo, lo + m - 1, n)
    BY NothingMoves
  <2>3. m - 0 = m
    OBVIOUS
  <2> QED BY <2>1, <2>2, <2>3 DEF Draining, IsTimed
<1>3. ASSUME NEW k \in 1 .. last, NEW d \in Lists, In(d, k - 1)
      PROVE  Next(d, k) \in Lists /\ In(Next(d, k), k)
  <2>1. In(Next(d, k), k)
    BY <1>3, DrainOnce
  <2> QED BY <2>1 DEF Draining, IsTimed
<1> HIDE DEF In, Lists, Next
<1>4. \A k \in 0 .. last : \A d : d \in S[k] <=> d \in Lists /\ In(d, k)
  OBVIOUS
<1>5. \A k \in 1 .. last : \A d \in Lists : step[k][d] = Next(d, k)
  OBVIOUS
<1> HIDE DEF S, step
<1>6. ASSUME NEW k \in 1 .. last, NEW d \in S[k - 1]
      PROVE  Next(d, k) \in S[k] /\ d \in Lists
  <2>1. k - 1 \in 0 .. last /\ k \in 0 .. last
    BY <1>1
  <2>2. d \in Lists /\ In(d, k - 1)
    BY <1>4, <2>1
  <2> QED BY <1>3, <1>4, <2>1, <2>2
<1>7. s \in S[0]
  BY <1>1, <1>2, <1>4
<1>8. Stays(S, last, s, step)
  BY <1>5, <1>6, <1>7 DEF Stays
<1>9. PICK h : Loops(h, S, last, s, step)
  BY <1>1, <1>8, LoopExists
<1>10. IsDraining(h, s, m, lo)
  <2>1. h = [k \in 0 .. last |-> h[k]] /\ h[0] = s
        /\ \A k \in 1 .. last : h[k] = Next(h[k - 1], k)
    BY <1>5, <1>6, <1>9 DEF Loops
  <2>2. ASSUME NEW k \in 0 .. last PROVE h[k] = IF k = 0 THEN s ELSE Next(h[k - 1], k)
    <3>1. k = 0 \/ k \in 1 .. last
      BY <1>1
    <3> QED BY <2>1, <3>1
  <2> QED BY <2>1, <2>2 DEF IsDraining, Next
<1>11. IsDraining(f, s, m, lo)
  BY <1>10
<1>12. Drained(s, m, lo) = f[last]
  BY DEF Drained, IsDraining
<1> HIDE DEF f
<1>13. f[0] = s /\ \A k \in 1 .. last : f[k] = Next(f[k - 1], k)
  BY <1>1, <1>11 DEF IsDraining, Next
<1>14. f[last] \in S[last]
  <2>1. ASSUME NEW k \in 1 .. last, f[k - 1] \in S[k - 1] PROVE f[k] \in S[k]
    BY <1>6, <1>13, <2>1
  <2> QED BY <1>1, <1>7, <1>13, <2>1, LoopStays
<1>15. In(f[last], last)
  BY <1>1, <1>4, <1>14
<1> QED BY <1>12, <1>15 DEF In, Draining

(* What a sort of a part of a list does.                                   *)
SortsPart(s, t, lo, hi, n, R) ==
  IsTimed(t, n, R) /\ Moves(s, t, lo, hi, n) /\ Ordered(t, lo, hi)

LEMMA HeapSortSorts ==
  ASSUME NEW n, NEW R, NEW s, IsTimed(s, n, R), NEW lo \in Nat \ {0}, NEW hi \in Nat,
         lo <= hi, hi <= n
  PROVE  SortsPart(s, HeapSort(s, lo, hi), lo, hi, n, R)
<1> DEFINE m == hi - lo + 1
           t == Heaped(s, m, lo)
           u == Drained(t, m, lo)
<1>1. n \in Nat /\ m \in Nat \ {0} /\ lo + m - 1 = hi
  BY DEF IsTimed
<1>2. HeapSort(s, lo, hi) = u
  BY DEF HeapSort
<1> HIDE DEF m
<1>3. IsTimed(t, n, R) /\ Moves(s, t, lo, lo + m - 1, n) /\ IsHeap(Times(t, lo, m), m, 1)
  BY <1>1, HeapedKeeps
<1> HIDE DEF t
<1>4. /\ IsTimed(u, n, R) /\ Moves(t, u, lo, lo + m - 1, n)
      /\ TailIsOrdered(Times(u, lo, m), m, m - 1)
  BY <1>1, <1>3, DrainedKeeps
<1> HIDE DEF u
<1>5. Moves(s, u, lo, hi, n)
  BY <1>1, <1>3, <1>4, MovesCompose
<1>6. ASSUME NEW i \in lo .. hi, NEW j \in lo .. hi, i < j PROVE u[i].time <= u[j].time
  <2> DEFINE U == Times(u, lo, m)
  <2>1. AreTimes(U, u, lo, m)
    BY <1>1, <1>4, TimesOfList
  <2>2. i - lo + 1 \in 1 .. m /\ j - lo + 1 \in 1 .. m /\ j - lo + 1 > m - (m - 1)
        /\ lo + (i - lo + 1) - 1 = i /\ lo + (j - lo + 1) - 1 = j
    BY <1>1, <1>6
  <2> HIDE DEF U
  <2>3. U[i - lo + 1] = u[i].time /\ U[j - lo + 1] = u[j].time
    BY <2>1, <2>2 DEF AreTimes
  <2>4. U[i - lo + 1] <= U[j - lo + 1]
    BY <1>4, <1>6, <2>2 DEF TailIsOrdered, U
  <2> QED BY <2>3, <2>4
<1> QED BY <1>2, <1>4, <1>5, <1>6 DEF SortsPart, Ordered

(***************************************************************************)
(* Two that are exchanged if they have to                                  *)
(***************************************************************************)
SwapsIfGreater(s, t, i, j, n) ==
  \A k \in 1 .. n :
    t[k] = IF s[j].time < s[i].time THEN IF k = j THEN s[i] ELSE IF k = i THEN s[j] ELSE s[k]
           ELSE s[k]

LEMMA SwapIfGreaterMoves ==
  ASSUME NEW n, NEW R, NEW s, IsTimed(s, n, R), NEW i \in 1 .. n, NEW j \in 1 .. n,
         NEW lo, NEW hi, i \in lo .. hi, j \in lo .. hi
  PROVE  /\ IsTimed(SwapIfGreater(s, i, j), n, R)
         /\ Moves(s, SwapIfGreater(s, i, j), lo, hi, n)
         /\ SwapsIfGreater(s, SwapIfGreater(s, i, j), i, j, n)
<1>1. CASE s[j].time < s[i].time
  <2>1. SwapIfGreater(s, i, j) = SwapAt(s, i, j)
    BY <1>1 DEF SwapIfGreater, Before
  <2>2. /\ IsTimed(SwapAt(s, i, j), n, R) /\ Moves(s, SwapAt(s, i, j), lo, hi, n)
        /\ \A k \in 1 .. n :
             SwapAt(s, i, j)[k] = IF k = j THEN s[i] ELSE IF k = i THEN s[j] ELSE s[k]
    BY SwapMoves
  <2>3. SwapsIfGreater(s, SwapAt(s, i, j), i, j, n)
    BY <1>1, <2>2 DEF SwapsIfGreater
  <2> QED BY <2>1, <2>2, <2>3
<1>2. CASE ~(s[j].time < s[i].time)
  <2>1. SwapIfGreater(s, i, j) = s
    BY <1>2 DEF SwapIfGreater, Before
  <2>2. Moves(s, s, lo, hi, n)
    BY NothingMoves
  <2>3. SwapsIfGreater(s, s, i, j, n)
    BY <1>2 DEF SwapsIfGreater
  <2> QED BY <2>1, <2>2, <2>3
<1> QED BY <1>1, <1>2

(* Three exchanges that are enough for three elements.                     *)
OrderThree(s, a, b, c) == SwapIfGreater(SwapIfGreater(SwapIfGreater(s, a, b), a, c), b, c)

OrdersThree(s, t, a, b, c, lo, hi, n, R) ==
  /\ IsTimed(t, n, R) /\ Moves(s, t, lo, hi, n)
  /\ t[a].time <= t[b].time /\ t[b].time <= t[c].time

LEMMA SwapsOrderThree ==
  ASSUME NEW n, NEW R, NEW s, IsTimed(s, n, R), NEW a \in 1 .. n, NEW b \in 1 .. n, NEW c \in 1 .. n,
         a # b, b # c, a # c, NEW lo, NEW hi, a \in lo .. hi, b \in lo .. hi, c \in lo .. hi
  PROVE  OrdersThree(s, OrderThree(s, a, b, c), a, b, c, lo, hi, n, R)
<1> DEFINE t == OrderThree(s, a, b, c)
           u == SwapIfGreater(s, a, b)
           v == SwapIfGreater(u, a, c)
<1>1. IsTimed(u, n, R) /\ Moves(s, u, lo, hi, n) /\ SwapsIfGreater(s, u, a, b, n)
  BY SwapIfGreaterMoves
<1> HIDE DEF u
<1>2. IsTimed(v, n, R) /\ Moves(u, v, lo, hi, n) /\ SwapsIfGreater(u, v, a, c, n)
  BY <1>1, SwapIfGreaterMoves
<1>3. t = SwapIfGreater(v, b, c)
  BY DEF OrderThree, u
<1> HIDE DEF v, t
<1>4. IsTimed(t, n, R) /\ Moves(v, t, lo, hi, n) /\ SwapsIfGreater(v, t, b, c, n)
  BY <1>2, <1>3, SwapIfGreaterMoves
<1>5. Moves(s, v, lo, hi, n)
  BY <1>1, <1>2, MovesCompose
<1>6. Moves(s, t, lo, hi, n)
  BY <1>4, <1>5, MovesCompose
<1>7. /\ s[a].time \in Int /\ s[b].time \in Int /\ s[c].time \in Int
      /\ u[a].time \in Int /\ u[b].time \in Int /\ u[c].time \in Int
      /\ v[a].time \in Int /\ v[b].time \in Int /\ v[c].time \in Int
  BY <1>1, <1>2, ElementsHaveTimes
<1>8. /\ u[a].time <= u[b].time
  BY <1>1, <1>7 DEF SwapsIfGreater
<1>9. /\ v[b] = u[b] /\ v[a].time <= v[c].time /\ v[a].time <= u[a].time
  <2>1. v[b] = u[b]
    BY <1>2 DEF SwapsIfGreater
  <2>2. CASE u[c].time < u[a].time
    <3>1. v[a] = u[c] /\ v[c] = u[a]
      BY <1>2, <2>2 DEF SwapsIfGreater
    <3> QED BY <1>7, <2>1, <2>2, <3>1
  <2>3. CASE ~(u[c].time < u[a].time)
    <3>1. v[a] = u[a] /\ v[c] = u[c]
      BY <1>2, <2>3 DEF SwapsIfGreater
    <3> QED BY <1>7, <2>1, <2>3, <3>1
  <2> QED BY <2>2, <2>3
<1>10. t[a].time <= t[b].time /\ t[b].time <= t[c].time
  <2>1. CASE v[c].time < v[b].time
    <3>1. t[a] = v[a] /\ t[b] = v[c] /\ t[c] = v[b]
      BY <1>4, <2>1 DEF SwapsIfGreater
    <3> QED BY <1>7, <1>9, <2>1, <3>1
  <2>2. CASE ~(v[c].time < v[b].time)
    <3>1. t[a] = v[a] /\ t[b] = v[b] /\ t[c] = v[c]
      BY <1>4, <2>2 DEF SwapsIfGreater
    <3> QED BY <1>7, <1>8, <1>9, <2>2, <3>1
  <2> QED BY <2>1, <2>2
<1> QED BY <1>4, <1>6, <1>10 DEF OrdersThree, t

LEMMA SwapIfGreaterSorts ==
  ASSUME NEW n, NEW R, NEW s, IsTimed(s, n, R), NEW lo \in Nat \ {0}, NEW hi \in Nat,
         hi = lo + 1, hi <= n
  PROVE  SortsPart(s, SwapIfGreater(s, lo, hi), lo, hi, n, R)
<1> DEFINE t == SwapIfGreater(s, lo, hi)
<1>1. n \in Nat /\ lo \in 1 .. n /\ hi \in 1 .. n /\ lo \in lo .. hi /\ hi \in lo .. hi
  BY DEF IsTimed
<1>2. IsTimed(t, n, R) /\ Moves(s, t, lo, hi, n) /\ SwapsIfGreater(s, t, lo, hi, n)
  BY <1>1, SwapIfGreaterMoves
<1> HIDE DEF t
<1>3. s[lo].time \in Int /\ s[hi].time \in Int
  BY <1>1, ElementsHaveTimes
<1>4. t[lo].time <= t[hi].time
  BY <1>1, <1>2, <1>3 DEF SwapsIfGreater
<1>5. ASSUME NEW i \in lo .. hi, NEW j \in lo .. hi, i < j PROVE t[i].time <= t[j].time
  <2>1. i = lo /\ j = hi
    BY <1>5
  <2> QED BY <1>4, <2>1
<1> QED BY <1>2, <1>5 DEF SortsPart, Ordered, t

LEMMA SortThreeSorts ==
  ASSUME NEW n, NEW R, NEW s, IsTimed(s, n, R), NEW lo \in Nat \ {0}, NEW hi \in Nat,
         hi = lo + 2, hi <= n
  PROVE  SortsPart(s, SortThree(s, lo, hi), lo, hi, n, R)
<1> DEFINE t == SortThree(s, lo, hi)
           b == lo + 1
<1>1. n \in Nat /\ lo \in 1 .. n /\ hi \in 1 .. n /\ b \in 1 .. n /\ lo \in lo .. hi /\ b \in lo .. hi /\ hi \in lo .. hi
      /\ lo # b /\ b # hi /\ lo # hi /\ hi - 1 = b
  BY DEF IsTimed
<1>2. t = OrderThree(s, lo, b, hi)
  BY <1>1 DEF SortThree, OrderThree
<1> HIDE DEF t, b
<1>3. /\ IsTimed(t, n, R) /\ Moves(s, t, lo, hi, n)
      /\ t[lo].time <= t[b].time /\ t[b].time <= t[hi].time
  <2>1. OrdersThree(s, OrderThree(s, lo, b, hi), lo, b, hi, lo, hi, n, R)
    BY <1>1, SwapsOrderThree
  <2> QED BY <1>2, <2>1 DEF OrdersThree
<1>4. t[lo].time \in Int /\ t[b].time \in Int /\ t[hi].time \in Int
  BY <1>1, <1>3, ElementsHaveTimes
<1>5. ASSUME NEW i \in lo .. hi, NEW j \in lo .. hi, i < j PROVE t[i].time <= t[j].time
  <2>1. (i = lo /\ j = b) \/ (i = b /\ j = hi) \/ (i = lo /\ j = hi)
    BY <1>1, <1>5 DEF b
  <2> QED BY <1>3, <1>4, <2>1
<1> QED BY <1>3, <1>5 DEF SortsPart, Ordered, t

(***************************************************************************)
(* insertion_sort                                                          *)
(***************************************************************************)
(* Where insertion_sort puts element i + 1.                                *)
Place(s, lo, i) ==
  LET kept == {k \in lo .. i : ~Before(s[i + 1], s[k])}
  IN  IF kept = {} THEN lo ELSE Max(kept) + 1

LEMMA PlaceFits ==
  ASSUME NEW n, NEW R, NEW s, IsTimed(s, n, R), NEW lo \in Nat \ {0}, NEW i \in Nat,
         lo <= i, i + 1 <= n, Ordered(s, lo, i)
  PROVE  /\ Place(s, lo, i) \in lo .. i + 1
         /\ \A k \in lo .. i : IF k < Place(s, lo, i) THEN s[k].time <= s[i + 1].time
                               ELSE s[i + 1].time <= s[k].time
<1> DEFINE kept == {k \in lo .. i : ~Before(s[i + 1], s[k])}
<1>1. n \in Nat /\ \A k \in 1 .. n : s[k].time \in Int
  BY ElementsHaveTimes
<1>2. \A k \in lo .. i + 1 : k \in 1 .. n /\ s[k].time \in Int
  BY <1>1
<1>3. i + 1 \in lo .. i + 1 /\ \A k \in lo .. i : k \in lo .. i + 1
  OBVIOUS
<1>4. \A k \in lo .. i : k \in kept <=> s[k].time <= s[i + 1].time
  BY <1>2, <1>3 DEF Before
<1>5. kept \subseteq lo .. i /\ kept \subseteq 1 .. n
  BY <1>2, <1>3
<1>6. Place(s, lo, i) = IF kept = {} THEN lo ELSE Max(kept) + 1
  BY DEF Place
<1> HIDE DEF kept
<1>7. CASE kept = {}
  BY <1>2, <1>3, <1>4, <1>6, <1>7
<1>8. CASE kept # {}
  <2>1. Max(kept) \in kept /\ \A k \in kept : k <= Max(kept)
    BY <1>1, <1>5, <1>8, BoundsAreReached
  <2> DEFINE m == Max(kept)
  <2>2. m \in lo .. i /\ s[m].time <= s[i + 1].time /\ \A k \in lo .. i : k > m => k \notin kept
    <3>1. m \in kept /\ \A k \in kept : k <= m
      BY <2>1
    <3> HIDE DEF m
    <3>2. m \in lo .. i /\ s[m].time <= s[i + 1].time
      BY <1>4, <1>5, <3>1
    <3> QED BY <3>1, <3>2
  <2>3. Place(s, lo, i) = m + 1
    BY <1>6, <1>8
  <2> HIDE DEF m
  <2>4. ASSUME NEW k \in lo .. i, k < m + 1 PROVE s[k].time <= s[i + 1].time
    <3>1. k = m \/ k < m
      BY <2>2, <2>4
    <3>2. k < m => s[k].time <= s[m].time
      BY <2>2 DEF Ordered
    <3> QED BY <1>2, <1>3, <2>2, <3>1, <3>2
  <2>5. ASSUME NEW k \in lo .. i, ~(k < m + 1) PROVE s[i + 1].time <= s[k].time
    BY <1>2, <1>3, <1>4, <2>2, <2>5
  <2> QED BY <2>2, <2>3, <2>4, <2>5
<1> QED BY <1>7, <1>8

LEMMA InsertKeeps ==
  ASSUME NEW n, NEW R, NEW s, IsTimed(s, n, R), NEW lo \in Nat \ {0}, NEW i \in Nat,
         lo <= i, i + 1 <= n, Ordered(s, lo, i)
  PROVE  SortsPart(s, Insert(s, lo, i), lo, i + 1, n, R)
<1> DEFINE at == Place(s, lo, i)
           t == Insert(s, lo, i)
           p == [k \in 1 .. n |-> IF k = at THEN i + 1 ELSE IF k \in at + 1 .. i + 1 THEN k - 1 ELSE k]
           q == [k \in 1 .. n |-> IF k = i + 1 THEN at ELSE IF k \in at .. i THEN k + 1 ELSE k]
<1>1. n \in Nat /\ DOMAIN s = 1 .. n /\ \A k \in 1 .. n : s[k] \in R /\ s[k].time \in Int
  BY DEF IsTimed
<1>2. /\ at \in lo .. i + 1
      /\ \A k \in lo .. i : IF k < at THEN s[k].time <= s[i + 1].time ELSE s[i + 1].time <= s[k].time
  BY PlaceFits
<1>3. t = [k \in 1 .. n |-> IF k = at THEN s[i + 1]
                            ELSE IF k \in at + 1 .. i + 1 THEN s[k - 1] ELSE s[k]]
  BY <1>1 DEF Insert, Place
<1> HIDE DEF t, at
<1>4. p \in [1 .. n -> 1 .. n] /\ q \in [1 .. n -> 1 .. n]
  BY <1>1, <1>2
<1>5. ASSUME NEW k \in 1 .. n
      PROVE  q[p[k]] = k /\ p[q[k]] = k /\ (k \notin lo .. i + 1 => p[k] = k)
  BY <1>1, <1>2
<1>6. \A k \in 1 .. n : t[k] = s[p[k]]
  BY <1>1, <1>2, <1>3
<1>7. IsMove(p, q, s, t, lo, i + 1, n)
  BY <1>4, <1>5, <1>6 DEF IsMove
<1>8. Moves(s, t, lo, i + 1, n)
  BY <1>7 DEF Moves
<1>9. t \in [1 .. n -> R]
  BY <1>1, <1>2, <1>3
<1>10. IsTimed(t, n, R)
  BY <1>9 DEF IsTimed
<1>11. ASSUME NEW j \in lo .. i + 1, NEW k \in lo .. i + 1, j < k PROVE t[j].time <= t[k].time
  <2>1. /\ \A x \in lo .. i + 1 : x \in 1 .. n
        /\ \A x \in lo .. i + 1 : t[x] = IF x = at THEN s[i + 1]
                                         ELSE IF x \in at + 1 .. i + 1 THEN s[x - 1] ELSE s[x]
    BY <1>1, <1>3
  <2>2. \A x, y \in lo .. i : x <= y => s[x].time <= s[y].time
    BY <1>1, <2>1 DEF Ordered
  <2>3. CASE j < at
    <3>1. t[j] = s[j] /\ j \in lo .. i
      BY <1>2, <1>11, <2>1, <2>3
    <3>2. CASE k < at
      <4>1. t[k] = s[k] /\ k \in lo .. i
        BY <1>2, <1>11, <2>1, <3>2
      <4> QED BY <1>11, <2>2, <3>1, <4>1
    <3>3. CASE k = at
      BY <1>2, <2>1, <2>3, <3>1, <3>3
    <3>4. CASE k > at
      <4>1. t[k] = s[k - 1] /\ k - 1 \in lo .. i /\ j <= k - 1
        BY <1>2, <1>11, <2>1, <3>4
      <4> QED BY <2>2, <3>1, <4>1
    <3> QED BY <1>2, <3>2, <3>3, <3>4
  <2>4. CASE j = at
    <3>1. t[j] = s[i + 1] /\ t[k] = s[k - 1] /\ k - 1 \in lo .. i /\ ~(k - 1 < at)
      BY <1>2, <1>11, <2>1, <2>4
    <3> QED BY <1>2, <3>1
  <2>5. CASE j > at
    <3>1. t[j] = s[j - 1] /\ t[k] = s[k - 1] /\ j - 1 \in lo .. i /\ k - 1 \in lo .. i /\ j - 1 <= k - 1
      BY <1>2, <1>11, <2>1, <2>5
    <3> QED BY <2>2, <3>1
  <2> QED BY <1>2, <2>3, <2>4, <2>5
<1> QED BY <1>8, <1>10, <1>11 DEF SortsPart, Ordered, t

IsInserting(f, s, lo, hi) ==
  f = [k \in 0 .. hi - lo |-> IF k = 0 THEN s ELSE Insert(f[k - 1], lo, lo + k - 1)]

LEMMA InsertionSortSorts ==
  ASSUME NEW n, NEW R, NEW s, IsTimed(s, n, R), NEW lo \in Nat \ {0}, NEW hi \in Nat,
         lo <= hi, hi <= n
  PROVE  SortsPart(s, InsertionSort(s, lo, hi), lo, hi, n, R)
<1> DEFINE last == hi - lo
           Next(d, k) == Insert(d, lo, lo + k - 1)
           Lists == [1 .. n -> R]
           In(d, k) == SortsPart(s, d, lo, lo + k, n, R)
           S == [k \in 0 .. last |-> {d \in Lists : In(d, k)}]
           step == [k \in 1 .. last |-> [d \in Lists |-> Next(d, k)]]
           f == CHOOSE f : IsInserting(f, s, lo, hi)
<1>1. last \in Nat /\ n \in Nat /\ lo + last = hi
  BY DEF IsTimed
<1>2. s \in Lists /\ In(s, 0)
  <2>1. Ordered(s, lo, lo + 0)
    BY DEF Ordered
  <2>2. Moves(s, s, lo, lo + 0, n)
    BY NothingMoves
  <2> QED BY <2>1, <2>2 DEF SortsPart, IsTimed
<1>3. ASSUME NEW k \in 1 .. last, NEW d \in Lists, In(d, k - 1)
      PROVE  Next(d, k) \in Lists /\ In(Next(d, k), k)
  <2> DEFINE i == lo + k - 1
  <2>1. i \in Nat /\ lo <= i /\ i + 1 <= n /\ lo + (k - 1) = i /\ lo + k = i + 1
    BY <1>1
  <2> HIDE DEF i
  <2>2. IsTimed(d, n, R) /\ Moves(s, d, lo, i, n) /\ Ordered(d, lo, i)
    BY <1>3, <2>1 DEF SortsPart
  <2>3. SortsPart(d, Insert(d, lo, i), lo, i + 1, n, R)
    BY <2>1, <2>2, InsertKeeps
  <2>4. Moves(s, Insert(d, lo, i), lo, i + 1, n)
    <3>1. lo .. i \subseteq lo .. i + 1
      BY <2>1
    <3> QED BY <2>2, <2>3, <3>1, MovesCompose DEF SortsPart
  <2> QED BY <2>1, <2>3, <2>4 DEF SortsPart, IsTimed, i
<1> HIDE DEF In, Lists, Next
<1>4. \A k \in 0 .. last : \A d : d \in S[k] <=> d \in Lists /\ In(d, k)
  OBVIOUS
<1>5. \A k \in 1 .. last : \A d \in Lists : step[k][d] = Next(d, k)
  OBVIOUS
<1> HIDE DEF S, step
<1>6. ASSUME NEW k \in 1 .. last, NEW d \in S[k - 1]
      PROVE  Next(d, k) \in S[k] /\ d \in Lists
  <2>1. k - 1 \in 0 .. last /\ k \in 0 .. last
    BY <1>1
  <2>2. d \in Lists /\ In(d, k - 1)
    BY <1>4, <2>1
  <2> QED BY <1>3, <1>4, <2>1, <2>2
<1>7. s \in S[0]
  BY <1>1, <1>2, <1>4
<1>8. Stays(S, last, s, step)
  BY <1>5, <1>6, <1>7 DEF Stays
<1>9. PICK h : Loops(h, S, last, s, step)
  BY <1>1, <1>8, LoopExists
<1>10. IsInserting(h, s, lo, hi)
  <2>1. h = [k \in 0 .. last |-> h[k]] /\ h[0] = s
        /\ \A k \in 1 .. last : h[k] = Next(h[k - 1], k)
    BY <1>5, <1>6, <1>9 DEF Loops
  <2>2. ASSUME NEW k \in 0 .. last PROVE h[k] = IF k = 0 THEN s ELSE Next(h[k - 1], k)
    <3>1. k = 0 \/ k \in 1 .. last
      BY <1>1
    <3> QED BY <2>1, <3>1
  <2> QED BY <2>1, <2>2 DEF IsInserting, Next
<1>11. IsInserting(f, s, lo, hi)
  BY <1>10
<1>12. InsertionSort(s, lo, hi) = f[last]
  BY DEF InsertionSort, IsInserting
<1> HIDE DEF f
<1>13. f[0] = s /\ \A k \in 1 .. last : f[k] = Next(f[k - 1], k)
  BY <1>1, <1>11 DEF IsInserting, Next
<1>14. f[last] \in S[last]
  <2>1. ASSUME NEW k \in 1 .. last, f[k - 1] \in S[k - 1] PROVE f[k] \in S[k]
    BY <1>6, <1>13, <2>1
  <2> QED BY <1>1, <1>7, <1>13, <2>1, LoopStays
<1>15. In(f[last], last)
  BY <1>1, <1>4, <1>14
<1> QED BY <1>1, <1>12, <1>15 DEF In

(***************************************************************************)
(* partition                                                               *)
(***************************************************************************)
(* After k rounds both ends either met or are at least k nearer; what they *)
(* passed is on its side of the pivot, s[P].                               *)
EndsApart(t, left, right, lo, P, v) ==
  /\ \A k \in lo .. left : t[k].time <= v
  /\ \A k \in right .. P : v <= t[k].time

Met(t, left, lo, P, v) ==
  /\ left \in lo + 1 .. P
  /\ \A k \in lo .. left - 1 : t[k].time <= v
  /\ \A k \in left .. P : v <= t[k].time

Meeting(d, s, lo, P, n, R, k) ==
  /\ IsTimed(d.keys, n, R) /\ Moves(s, d.keys, lo, P, n)
  /\ d.left \in lo .. P /\ d.right \in lo .. P
  /\ d.keys[P] = s[P]
  /\ \/ d.left < d.right /\ d.left >= lo + k /\ EndsApart(d.keys, d.left, d.right, lo, P, s[P].time)
     \/ d.left >= d.right /\ Met(d.keys, d.left, lo, P, s[P].time)

NextLeft(t, left, P) == Min({k \in left + 1 .. P : ~Before(t[k], t[P])})
NextRight(t, right, P) == Max({k \in 1 .. right - 1 : ~Before(t[P], t[k])})

LEMMA NextEnds ==
  ASSUME NEW n, NEW R, NEW t, IsTimed(t, n, R), NEW lo \in Nat \ {0}, NEW P \in Nat, P <= n,
         NEW left \in lo .. P, NEW right \in lo .. P, left < right, NEW v, t[P].time = v,
         EndsApart(t, left, right, lo, P, v)
  PROVE  /\ NextLeft(t, left, P) \in left + 1 .. P
         /\ v <= t[NextLeft(t, left, P)].time
         /\ \A k \in left + 1 .. NextLeft(t, left, P) - 1 : t[k].time <= v
         /\ NextRight(t, right, P) \in lo .. right - 1
         /\ t[NextRight(t, right, P)].time <= v
         /\ \A k \in NextRight(t, right, P) + 1 .. right - 1 : v <= t[k].time
<1> DEFINE A == {k \in left + 1 .. P : ~Before(t[k], t[P])}
           B == {k \in 1 .. right - 1 : ~Before(t[P], t[k])}
           l == NextLeft(t, left, P)
           r == NextRight(t, right, P)
<1>1. n \in Nat /\ \A k \in 1 .. n : t[k].time \in Int
  BY ElementsHaveTimes
<1>2. v \in Int /\ \A k \in lo .. P : k \in 1 .. n
  BY <1>1
<1>3. \A k \in left + 1 .. P : k \in 1 .. n /\ (k \in A <=> v <= t[k].time)
  BY <1>1, <1>2 DEF Before
<1>4. \A k \in 1 .. right - 1 : k \in 1 .. n /\ (k \in B <=> t[k].time <= v)
  BY <1>1, <1>2 DEF Before
<1>5. A \subseteq 1 .. n /\ B \subseteq 1 .. n /\ A \subseteq left + 1 .. P /\ B \subseteq 1 .. right - 1
  BY <1>3, <1>4
<1>6. P \in A
  BY <1>2, <1>3
<1>7. lo \in B
  <2>1. lo \in lo .. left /\ lo \in 1 .. right - 1
    OBVIOUS
  <2>2. t[lo].time <= v
    BY <2>1 DEF EndsApart
  <2> QED BY <1>4, <2>1, <2>2
<1>8. l = Min(A) /\ r = Max(B)
  BY DEF NextLeft, NextRight
<1> HIDE DEF A, B, l, r
<1>9. l \in A /\ \A k \in A : l <= k
  BY <1>1, <1>5, <1>6, <1>8, BoundsAreReached
<1>10. r \in B /\ \A k \in B : k <= r
  BY <1>1, <1>5, <1>7, <1>8, BoundsAreReached
<1>11. l \in left + 1 .. P /\ v <= t[l].time
  BY <1>3, <1>5, <1>9
<1>12. r \in lo .. right - 1 /\ t[r].time <= v
  <2>1. r \in 1 .. right - 1 /\ lo <= r
    BY <1>5, <1>7, <1>10
  <2> QED BY <1>4, <1>10, <2>1
<1>13. ASSUME NEW k \in left + 1 .. l - 1 PROVE t[k].time <= v
  <2>1. k \in left + 1 .. P /\ ~(l <= k)
    BY <1>11
  <2> QED BY <1>1, <1>2, <1>3, <1>9, <2>1
<1>14. ASSUME NEW k \in r + 1 .. right - 1 PROVE v <= t[k].time
  <2>1. k \in 1 .. right - 1 /\ ~(k <= r)
    BY <1>12
  <2> QED BY <1>1, <1>2, <1>4, <1>10, <2>1
<1> QED BY <1>11, <1>12, <1>13, <1>14 DEF l, r

LEMMA MeetMeets ==
  ASSUME NEW n, NEW R, NEW s, IsTimed(s, n, R), NEW lo \in Nat \ {0}, NEW P \in Nat, P <= n,
         NEW k \in Nat, NEW d, Meeting(d, s, lo, P, n, R, k)
  PROVE  Meeting(Meet(d, P), s, lo, P, n, R, k + 1)
<1> DEFINE v == s[P].time
           t == d.keys
           left == d.left
           right == d.right
           l == NextLeft(t, left, P)
           r == NextRight(t, right, P)
           u == SwapAt(t, l, r)
<1>1. /\ IsTimed(t, n, R) /\ Moves(s, t, lo, P, n)
      /\ left \in lo .. P /\ right \in lo .. P
      /\ t[P] = s[P]
      /\ \/ left < right /\ left >= lo + k /\ EndsApart(t, left, right, lo, P, v)
         \/ left >= right /\ Met(t, left, lo, P, v)
  BY DEF Meeting
<1>2. n \in Nat /\ P \in 1 .. n /\ v \in Int /\ \A j \in 1 .. n : t[j].time \in Int
  <2>1. n \in Nat /\ (\A j \in 1 .. n : t[j].time \in Int) /\ \A j \in 1 .. n : s[j].time \in Int
    BY <1>1, ElementsHaveTimes
  <2>2. P \in 1 .. n
    BY <1>1, <2>1
  <2> QED BY <2>1, <2>2
<1>3. Meet(d, P) = IF left >= right THEN d
                   ELSE [keys |-> IF l < r THEN u ELSE t, left |-> l, right |-> r]
  BY DEF Meet, NextLeft, NextRight
<1>4. CASE left >= right
  <2>1. Meet(d, P) = d
    BY <1>3, <1>4
  <2> QED BY <1>1, <1>4, <2>1 DEF Meeting
<1>5. CASE ~(left >= right)
  <2>0. left < right /\ left >= lo + k /\ EndsApart(t, left, right, lo, P, v)
    BY <1>1, <1>5
  <2> HIDE DEF v, t, left, right
  <2>1. /\ l \in left + 1 .. P /\ v <= t[l].time
        /\ \A j \in left + 1 .. l - 1 : t[j].time <= v
        /\ r \in lo .. right - 1 /\ t[r].time <= v
        /\ \A j \in r + 1 .. right - 1 : v <= t[j].time
    <3>1. t[P].time = v
      BY <1>1 DEF v
    <3> QED BY <1>1, <1>2, <2>0, <3>1, NextEnds
  <2> HIDE DEF l, r
  <2>2. CASE l < r
    <3>1. l \in 1 .. n /\ r \in 1 .. n /\ l \in lo .. P /\ r \in lo .. P
      BY <1>1, <1>2, <2>1
    <3>2. /\ IsTimed(u, n, R) /\ Moves(t, u, lo, P, n)
          /\ \A j \in 1 .. n : u[j] = IF j = r THEN t[l] ELSE IF j = l THEN t[r] ELSE t[j]
      BY <1>1, <3>1, SwapMoves
    <3> HIDE DEF u
    <3>3. Moves(s, u, lo, P, n)
      BY <1>1, <3>2, MovesCompose
    <3>4. u[P] = s[P]
      <4>1. P # r /\ P # l
        BY <1>1, <2>1, <2>2
      <4> QED BY <1>1, <1>2, <3>2, <4>1
    <3>5. ASSUME NEW j \in lo .. l PROVE u[j].time <= v
      <4>1. j \in 1 .. n /\ j # r
        BY <1>1, <1>2, <2>1, <2>2
      <4>2. j = l \/ j \in lo .. left \/ j \in left + 1 .. l - 1
        BY <1>1, <2>1
      <4> QED BY <2>0, <2>1, <3>2, <4>1, <4>2 DEF EndsApart
    <3>6. ASSUME NEW j \in r .. P PROVE v <= u[j].time
      <4>1. j \in 1 .. n /\ j # l
        BY <1>1, <1>2, <2>1, <2>2
      <4>2. j = r \/ j \in right .. P \/ j \in r + 1 .. right - 1
        BY <1>1, <2>1
      <4> QED BY <2>0, <2>1, <3>2, <4>1, <4>2 DEF EndsApart
    <3>7. EndsApart(u, l, r, lo, P, v) /\ l >= lo + (k + 1)
      BY <1>1, <2>0, <2>1, <3>5, <3>6 DEF EndsApart
    <3>8. Meet(d, P).keys = u /\ Meet(d, P).left = l /\ Meet(d, P).right = r
      BY <1>3, <1>5, <2>2
    <3> QED BY <2>2, <3>1, <3>2, <3>3, <3>4, <3>7, <3>8 DEF Meeting, v
  <2>3. CASE ~(l < r)
    <3>1. l \in lo .. P /\ r \in lo .. P /\ l >= r /\ l \in lo + 1 .. P
      BY <1>1, <2>1, <2>3
    <3>2. ASSUME NEW j \in lo .. l - 1 PROVE t[j].time <= v
      <4>1. j \in lo .. left \/ j \in left + 1 .. l - 1
        BY <1>1, <2>1
      <4> QED BY <2>0, <2>1, <4>1 DEF EndsApart
    <3>3. ASSUME NEW j \in l .. P PROVE v <= t[j].time
      <4>1. j = l \/ j \in right .. P \/ j \in r + 1 .. right - 1
        BY <1>1, <2>1, <3>1
      <4> QED BY <2>0, <2>1, <4>1 DEF EndsApart
    <3>4. Met(t, l, lo, P, v)
      BY <3>1, <3>2, <3>3 DEF Met
    <3>5. Meet(d, P).keys = t /\ Meet(d, P).left = l /\ Meet(d, P).right = r
      BY <1>3, <1>5, <2>3
    <3> QED BY <1>1, <3>1, <3>4, <3>5 DEF Meeting, v
  <2> QED BY <2>2, <2>3
<1> QED BY <1>4, <1>5

IsMeeting(f, m, start, P) ==
  f = [k \in 0 .. m |-> IF k = 0 THEN start ELSE Meet(f[k - 1], P)]

LEMMA PartitionSplits ==
  ASSUME NEW n, NEW R, NEW s, IsTimed(s, n, R), NEW lo \in Nat \ {0}, NEW P \in Nat, P <= n,
         lo < P, s[lo].time <= s[P].time
  PROVE  /\ IsTimed(Partition(s, lo, P).keys, n, R)
         /\ Moves(s, Partition(s, lo, P).keys, lo, P, n)
         /\ Partition(s, lo, P).keys[P] = s[P]
         /\ Met(Partition(s, lo, P).keys, Partition(s, lo, P).left, lo, P, s[P].time)
<1> DEFINE m == P - lo
           start == [keys |-> s, left |-> lo, right |-> P]
           States == [keys : [1 .. n -> R], left : lo .. P, right : lo .. P]
           In(d, k) == Meeting(d, s, lo, P, n, R, k)
           S == [k \in 0 .. m |-> {d \in States : In(d, k)}]
           step == [k \in 1 .. m |-> [d \in States |-> Meet(d, P)]]
           f == CHOOSE f : IsMeeting(f, m, start, P)
<1>0. m \in Nat
  OBVIOUS
<1>1. start \in States /\ In(start, 0)
  <2>0. n \in Nat /\ P \in 1 .. n /\ s[P].time \in Int
    <3>1. n \in Nat
      BY DEF IsTimed
    <3>2. P \in 1 .. n
      BY <3>1
    <3> QED BY <3>1, <3>2, ElementsHaveTimes
  <2>1. EndsApart(s, lo, P, lo, P, s[P].time)
    <3>1. \A k \in lo .. lo : k = lo
      OBVIOUS
    <3>2. \A k \in P .. P : k = P
      OBVIOUS
    <3> QED BY <2>0, <3>1, <3>2 DEF EndsApart
  <2>2. Moves(s, s, lo, P, n)
    BY NothingMoves
  <2>3. start \in States
    BY DEF IsTimed
  <2> QED BY <2>1, <2>2, <2>3 DEF Meeting
<1>2. ASSUME NEW d \in States, NEW k \in Nat, In(d, k)
      PROVE  Meet(d, P) \in States /\ In(Meet(d, P), k + 1)
  <2>1. In(Meet(d, P), k + 1)
    BY <1>2, MeetMeets
  <2>2. Meet(d, P).keys \in [1 .. n -> R] /\ Meet(d, P).left \in lo .. P /\ Meet(d, P).right \in lo .. P
    BY <2>1 DEF Meeting, IsTimed
  <2>3. Meet(d, P) = d \/ \E x, y, z : Meet(d, P) = [keys |-> x, left |-> y, right |-> z]
    BY DEF Meet
  <2>4. Meet(d, P) \in States
    BY <2>2, <2>3
  <2> QED BY <2>1, <2>4
<1> HIDE DEF In, States, start, m
<1>3. \A k \in 0 .. m : \A d : d \in S[k] <=> d \in States /\ In(d, k)
  OBVIOUS
<1>4. \A k \in 1 .. m : \A d \in States : step[k][d] = Meet(d, P)
  OBVIOUS
<1> HIDE DEF S, step
<1>5. ASSUME NEW k \in 1 .. m, NEW d \in S[k - 1] PROVE Meet(d, P) \in S[k] /\ d \in States
  <2>1. k - 1 \in 0 .. m /\ k - 1 \in Nat /\ (k - 1) + 1 = k /\ k \in 0 .. m
    BY <1>0
  <2>2. d \in States /\ In(d, k - 1)
    BY <1>3, <2>1
  <2>3. Meet(d, P) \in States /\ In(Meet(d, P), (k - 1) + 1)
    BY <1>2, <2>1, <2>2
  <2> QED BY <1>3, <2>1, <2>2, <2>3
<1>6. start \in S[0]
  BY <1>0, <1>1, <1>3
<1>7. Stays(S, m, start, step)
  BY <1>4, <1>5, <1>6 DEF Stays
<1>8. PICK h : Loops(h, S, m, start, step)
  BY <1>0, <1>7, LoopExists
<1>9. IsMeeting(h, m, start, P)
  <2>1. h = [k \in 0 .. m |-> h[k]] /\ h[0] = start
        /\ \A k \in 1 .. m : h[k] = Meet(h[k - 1], P)
    BY <1>4, <1>5, <1>8 DEF Loops
  <2>2. ASSUME NEW k \in 0 .. m PROVE h[k] = IF k = 0 THEN start ELSE Meet(h[k - 1], P)
    <3>1. k = 0 \/ k \in 1 .. m
      BY <1>0
    <3> QED BY <2>1, <3>1
  <2> QED BY <2>1, <2>2 DEF IsMeeting
<1>10. IsMeeting(f, m, start, P)
  BY <1>9
<1>11. Partition(s, lo, P) = f[m]
  BY DEF Partition, IsMeeting, start, m
<1> HIDE DEF f
<1>12. f[0] = start /\ \A k \in 1 .. m : f[k] = Meet(f[k - 1], P)
  BY <1>0, <1>10 DEF IsMeeting
<1>13. f[m] \in S[m]
  BY <1>0, <1>5, <1>6, <1>12, LoopStays
<1>14. Meeting(f[m], s, lo, P, n, R, m)
  BY <1>0, <1>3, <1>13 DEF In
<1>15. Met(f[m].keys, f[m].left, lo, P, s[P].time)
  <2>1. f[m].left \in lo .. P /\ f[m].right \in lo .. P
    BY <1>14 DEF Meeting
  <2>2. ~(f[m].left < f[m].right /\ f[m].left >= lo + m)
    BY <2>1 DEF m
  <2> QED BY <1>14, <2>2 DEF Meeting
<1> QED BY <1>11, <1>14, <1>15 DEF Meeting

(* Around `at` the smaller and the greater elements are apart.             *)
Splits(s, t, at, lo, hi, n, R) ==
  /\ IsTimed(t, n, R) /\ Moves(s, t, lo, hi, n)
  /\ at \in lo + 1 .. hi - 1
  /\ \A k \in lo .. at - 1 : t[k].time <= t[at].time
  /\ \A k \in at + 1 .. hi : t[at].time <= t[k].time

LEMMA PivotSplits ==
  ASSUME NEW n, NEW R, NEW s, IsTimed(s, n, R), NEW lo \in Nat \ {0}, NEW hi \in Nat, hi <= n,
         lo + 3 <= hi
  PROVE  Splits(s, PickPivotAndPartition(s, lo, hi).keys, PickPivotAndPartition(s, lo, hi).at,
                lo, hi, n, R)
<1> DEFINE P == hi - 1
           mid == lo + (hi - lo) \div 2
           e == OrderThree(s, lo, mid, hi)
           x == SwapAt(e, mid, P)
           y == Partition(x, lo, P).keys
           l == Partition(x, lo, P).left
           w == SwapAt(y, l, P)
           v == x[P].time
<1>1. /\ n \in Nat /\ mid \in lo + 1 .. hi - 2 /\ P \in Nat /\ P <= n /\ lo < P
      /\ lo \in 1 .. n /\ mid \in 1 .. n /\ P \in 1 .. n /\ hi \in 1 .. n
      /\ lo \in lo .. hi /\ mid \in lo .. hi /\ P \in lo .. hi /\ hi \in lo .. hi
      /\ lo # mid /\ mid # hi /\ lo # hi /\ P # hi /\ P # lo /\ P # mid
  <2>1. n \in Nat
    BY DEF IsTimed
  <2>2. (hi - lo) \div 2 \in 1 .. hi - lo - 2
    OBVIOUS
  <2> QED BY <2>1, <2>2
<1>2. PickPivotAndPartition(s, lo, hi) = [keys |-> w, at |-> l]
  BY DEF PickPivotAndPartition, OrderThree
<1> HIDE DEF P, mid
<1>3. /\ IsTimed(e, n, R) /\ Moves(s, e, lo, hi, n)
      /\ e[lo].time <= e[mid].time /\ e[mid].time <= e[hi].time
  <2>1. OrdersThree(s, e, lo, mid, hi, lo, hi, n, R)
    BY <1>1, SwapsOrderThree
  <2> QED BY <2>1 DEF OrdersThree
<1> HIDE DEF e
<1>4. /\ IsTimed(x, n, R) /\ Moves(e, x, lo, hi, n)
      /\ \A k \in 1 .. n : x[k] = IF k = P THEN e[mid] ELSE IF k = mid THEN e[P] ELSE e[k]
  BY <1>1, <1>3, SwapMoves
<1> HIDE DEF x
<1>5. x[lo].time <= v /\ v <= x[hi].time
  BY <1>1, <1>3, <1>4
<1>6. IsTimed(y, n, R) /\ Moves(x, y, lo, P, n) /\ y[P] = x[P] /\ Met(y, l, lo, P, v)
  BY <1>1, <1>4, <1>5, PartitionSplits
<1>7. MovesOnly(x, y, lo, P, n)
  BY <1>6, MovedElements
<1> HIDE DEF y, l
<1>8. y[hi] = x[hi]
  <2>1. hi \notin lo .. P
    BY <1>1 DEF P
  <2> QED BY <1>1, <1>7, <2>1 DEF MovesOnly
<1>9. /\ l \in lo + 1 .. P
      /\ \A k \in lo .. l - 1 : y[k].time <= v
      /\ \A k \in l .. P : v <= y[k].time
  BY <1>6 DEF Met
<1>10. l \in 1 .. n /\ l \in lo .. hi
  BY <1>1, <1>9
<1>11. /\ IsTimed(w, n, R) /\ Moves(y, w, lo, hi, n)
       /\ \A k \in 1 .. n : w[k] = IF k = P THEN y[l] ELSE IF k = l THEN y[P] ELSE y[k]
  <2>1. IsTimed(y, n, R) /\ P \in 1 .. n /\ P \in lo .. hi
    BY <1>1, <1>6
  <2> HIDE DEF v
  <2>2. IsTimed(w, n, R) /\ Moves(y, w, lo, hi, n)
    BY <1>10, <2>1, SwapMoves
  <2>3. \A k \in 1 .. n : w[k] = IF k = P THEN y[l] ELSE IF k = l THEN y[P] ELSE y[k]
    BY <1>10, <2>1 DEF SwapAt, IsTimed
  <2> QED BY <2>2, <2>3
<1> HIDE DEF w
<1>12. Moves(s, w, lo, hi, n)
  <2>1. Moves(s, x, lo, hi, n)
    BY <1>3, <1>4, MovesCompose
  <2>2. lo .. P \subseteq lo .. hi
    BY <1>1 DEF P
  <2>3. Moves(s, y, lo, hi, n)
    BY <1>6, <2>1, <2>2, MovesCompose
  <2> QED BY <1>11, <2>3, MovesCompose
<1>13. w[l].time = v
  BY <1>1, <1>6, <1>10, <1>11
<1>14. ASSUME NEW k \in lo .. l - 1 PROVE w[k].time <= v
  <2>1. k \in 1 .. n /\ k # P /\ k # l
    BY <1>1, <1>9
  <2> QED BY <1>9, <1>11, <2>1
<1>15. ASSUME NEW k \in l + 1 .. hi PROVE v <= w[k].time
  <2>1. k \in 1 .. n /\ k # l /\ (k = hi \/ k = P \/ k \in l .. P) /\ l \in l .. P
    BY <1>1, <1>9 DEF P
  <2>2. CASE k = hi
    BY <1>1, <1>5, <1>8, <1>11, <2>1, <2>2
  <2>3. CASE k = P
    BY <1>1, <1>9, <1>11, <2>1, <2>3
  <2>4. CASE k # hi /\ k # P
    BY <1>9, <1>11, <2>1, <2>4
  <2> QED BY <2>2, <2>3, <2>4
<1>16. l \in lo + 1 .. hi - 1
  BY <1>9 DEF P
<1> QED BY <1>2, <1>11, <1>12, <1>13, <1>14, <1>15, <1>16 DEF Splits

(* Both sides in order make the whole in order.                            *)
LEMMA SidesAreJoined ==
  ASSUME NEW n, NEW R, NEW s, NEW t, NEW u, NEW w, NEW lo \in Nat \ {0}, NEW hi \in Nat, hi <= n,
         NEW at, Splits(s, t, at, lo, hi, n, R), SortsPart(t, u, at + 1, hi, n, R),
         SortsPart(u, w, lo, at - 1, n, R)
  PROVE  SortsPart(s, w, lo, hi, n, R)
<1>1. /\ IsTimed(t, n, R) /\ Moves(s, t, lo, hi, n)
      /\ at \in lo + 1 .. hi - 1
      /\ \A k \in lo .. at - 1 : t[k].time <= t[at].time
      /\ \A k \in at + 1 .. hi : t[at].time <= t[k].time
  BY DEF Splits
<1>2. IsTimed(u, n, R) /\ Moves(t, u, at + 1, hi, n) /\ Ordered(u, at + 1, hi)
  BY DEF SortsPart
<1>3. IsTimed(w, n, R) /\ Moves(u, w, lo, at - 1, n) /\ Ordered(w, lo, at - 1)
  BY DEF SortsPart
<1>4. n \in Nat /\ \A k \in lo .. hi : k \in 1 .. n
  BY <1>1 DEF IsTimed
<1>5. Moves(s, w, lo, hi, n)
  <2>1. at + 1 .. hi \subseteq lo .. hi /\ lo .. at - 1 \subseteq lo .. hi
    BY <1>1
  <2>2. Moves(s, u, lo, hi, n)
    BY <1>1, <1>2, <2>1, MovesCompose
  <2> QED BY <1>3, <2>1, <2>2, MovesCompose
<1>6. MovesOnly(t, u, at + 1, hi, n) /\ MovesOnly(u, w, lo, at - 1, n)
  BY <1>2, <1>3, MovedElements
<1>7. \A k \in 1 .. n : t[k].time \in Int /\ u[k].time \in Int /\ w[k].time \in Int
  BY <1>1, <1>2, <1>3, ElementsHaveTimes
<1>8. at \in 1 .. n /\ at \notin at + 1 .. hi /\ at \notin lo .. at - 1
  BY <1>1, <1>4
<1>9. w[at] = t[at]
  BY <1>6, <1>8 DEF MovesOnly
<1>10. ASSUME NEW k \in lo .. at - 1 PROVE w[k].time <= t[at].time
  <2>1. k \in 1 .. n
    BY <1>1, <1>4
  <2>2. PICK j \in 1 .. n : j \in lo .. at - 1 /\ w[k] = u[j]
    BY <1>6, <2>1 DEF MovesOnly
  <2>3. j \notin at + 1 .. hi
    BY <1>1, <2>2
  <2>4. u[j] = t[j]
    BY <1>6, <2>3 DEF MovesOnly
  <2> QED BY <1>1, <2>2, <2>4
<1>11. ASSUME NEW k \in at + 1 .. hi PROVE w[k] = u[k] /\ t[at].time <= w[k].time
  <2>1. k \in 1 .. n /\ k \notin lo .. at - 1
    BY <1>1, <1>4
  <2>2. w[k] = u[k]
    BY <1>6, <2>1 DEF MovesOnly
  <2>3. PICK j \in 1 .. n : j \in at + 1 .. hi /\ u[k] = t[j]
    BY <1>6, <2>1 DEF MovesOnly
  <2> QED BY <1>1, <2>2, <2>3
<1>12. ASSUME NEW i \in lo .. hi, NEW j \in lo .. hi, i < j PROVE w[i].time <= w[j].time
  <2>1. i \in 1 .. n /\ j \in 1 .. n
    BY <1>4
  <2>2. CASE j < at
    <3>1. i \in lo .. at - 1 /\ j \in lo .. at - 1
      BY <1>1, <1>12, <2>2
    <3> QED BY <1>3, <1>12, <3>1 DEF Ordered
  <2>3. CASE i > at
    <3>1. i \in at + 1 .. hi /\ j \in at + 1 .. hi
      BY <1>1, <1>12, <2>3
    <3>2. u[i].time <= u[j].time
      BY <1>2, <1>12, <3>1 DEF Ordered
    <3> QED BY <1>11, <3>1, <3>2
  <2>4. CASE i <= at /\ j >= at
    <3>1. w[i].time <= t[at].time
      <4>1. i = at \/ i \in lo .. at - 1
        BY <1>1, <2>4
      <4> QED BY <1>7, <1>8, <1>9, <1>10, <4>1
    <3>2. t[at].time <= w[j].time
      <4>1. j = at \/ j \in at + 1 .. hi
        BY <1>1, <2>4
      <4> QED BY <1>7, <1>8, <1>9, <1>11, <4>1
    <3> QED BY <1>7, <1>8, <2>1, <3>1, <3>2
  <2> QED BY <1>1, <2>2, <2>3, <2>4
<1> QED BY <1>3, <1>5, <1>12 DEF SortsPart, Ordered

(***************************************************************************)
(* intro_sort                                                              *)
(***************************************************************************)

(* A function that sorts every part.                                       *)
SortsParts(g, keys, n, R) ==
  \A s \in Parts(keys) : SortsPart(s.keys, g[s], s.lo, s.hi, n, R)

LEMMA IntroSortSorts ==
  ASSUME NEW n, NEW R, NEW keys, IsTimed(keys, n, R), R = ToSet(keys), NEW s \in Parts(keys),
         NEW depth \in Nat, NEW threshold \in Nat, NEW deeper,
         depth # 0 => SortsParts(deeper, keys, n, R)
  PROVE  SortsPart(s.keys, IntroSort(s, depth, threshold, deeper), s.lo, s.hi, n, R)
<1> DEFINE t == s.keys
           lo == s.lo
           hi == s.hi
           size == hi - lo + 1
           split == PickPivotAndPartition(t, lo, hi)
           above == deeper[Part(split.keys, split.at + 1, hi)]
           result == IntroSort(s, depth, threshold, deeper)
<1>1. DOMAIN keys = 1 .. n /\ Len(keys) = n /\ n \in Nat
  BY DEF IsTimed
<1>2. t \in [1 .. n -> R] /\ lo \in 1 .. n + 1 /\ hi \in 0 .. n
  BY <1>1 DEF Parts
<1>3. IsTimed(t, n, R)
  BY <1>2 DEF IsTimed
<1>4. lo \in Nat \ {0} /\ hi \in Nat /\ hi <= n
  BY <1>1, <1>2
<1>5. result =
        CASE size <= 1 -> t
          [] size = 2 -> SwapIfGreater(t, lo, hi)
          [] size = 3 -> SortThree(t, lo, hi)
          [] size \in 4 .. threshold -> InsertionSort(t, lo, hi)
          [] size > Greatest(3, threshold) /\ depth = 0 -> HeapSort(t, lo, hi)
          [] OTHER -> deeper[Part(above, lo, split.at - 1)]
  BY DEF IntroSort
<1> HIDE DEF result, t, lo, hi
<1>6. CASE size <= 1
  <2>0. size # 2 /\ size # 3 /\ size \notin 4 .. threshold /\ ~(size > Greatest(3, threshold))
    BY <1>4, <1>6 DEF Greatest
  <2> HIDE DEF size
  <2>1. result = t
    BY <1>5, <1>6, <2>0
  <2>2. Ordered(t, lo, hi)
    BY <1>4, <1>6 DEF Ordered, size
  <2>3. Moves(t, t, lo, hi, n)
    BY <1>3, NothingMoves
  <2> QED BY <1>3, <2>1, <2>2, <2>3 DEF SortsPart, result, t, lo, hi
<1>7. CASE size = 2
  <2>0. ~(size <= 1) /\ size # 3 /\ size \notin 4 .. threshold /\ ~(size > Greatest(3, threshold))
    BY <1>4, <1>7 DEF Greatest
  <2> HIDE DEF size
  <2>1. result = SwapIfGreater(t, lo, hi)
    BY <1>5, <1>7, <2>0
  <2>2. hi = lo + 1
    BY <1>4, <1>7 DEF size
  <2> QED BY <1>3, <1>4, <2>1, <2>2, SwapIfGreaterSorts DEF result, t, lo, hi
<1>8. CASE size = 3
  <2>0. ~(size <= 1) /\ size # 2 /\ size \notin 4 .. threshold /\ ~(size > Greatest(3, threshold))
    BY <1>4, <1>8 DEF Greatest
  <2> HIDE DEF size
  <2>1. result = SortThree(t, lo, hi)
    BY <1>5, <1>8, <2>0
  <2>2. hi = lo + 2
    BY <1>4, <1>8 DEF size
  <2> QED BY <1>3, <1>4, <2>1, <2>2, SortThreeSorts DEF result, t, lo, hi
<1>9. CASE size \in 4 .. threshold
  <2>0. ~(size <= 1) /\ size # 2 /\ size # 3 /\ ~(size > Greatest(3, threshold))
    BY <1>4, <1>9 DEF Greatest
  <2> HIDE DEF size
  <2>1. result = InsertionSort(t, lo, hi)
    BY <1>5, <1>9, <2>0
  <2>2. lo <= hi
    BY <1>4, <1>9 DEF size
  <2> QED BY <1>3, <1>4, <2>1, <2>2, InsertionSortSorts DEF result, t, lo, hi
<1>10. CASE size > 3 /\ size \notin 4 .. threshold /\ depth = 0
  <2>1. size > Greatest(3, threshold) /\ size # 2 /\ size # 3 /\ ~(size <= 1)
    BY <1>4, <1>10 DEF Greatest
  <2> HIDE DEF size
  <2>2. result = HeapSort(t, lo, hi)
    BY <1>5, <1>10, <2>1
  <2>3. lo <= hi
    BY <1>4, <1>10 DEF size
  <2> QED BY <1>3, <1>4, <2>2, <2>3, HeapSortSorts DEF result, t, lo, hi
<1>11. CASE size > 3 /\ size \notin 4 .. threshold /\ depth # 0
  <2>1. size # 2 /\ size # 3 /\ ~(size <= 1)
    BY <1>4, <1>11
  <2>2. lo + 3 <= hi
    BY <1>4, <1>11
  <2> HIDE DEF size
  <2>3. result = deeper[Part(above, lo, split.at - 1)]
    BY <1>5, <1>11, <2>1
  <2>4. Splits(t, split.keys, split.at, lo, hi, n, R)
    BY <1>3, <1>4, <2>2, PivotSplits
  <2> HIDE DEF split
  <2>5. split.at \in lo + 1 .. hi - 1 /\ split.keys \in [1 .. n -> R]
    BY <2>4 DEF Splits, IsTimed
  <2>6. Part(split.keys, split.at + 1, hi) \in Parts(keys)
    <3>1. split.at + 1 \in 1 .. n + 1
      BY <1>1, <1>4, <2>5
    <3> QED BY <1>1, <1>2, <2>5, <3>1 DEF Parts, Part
  <2>7. SortsPart(split.keys, above, split.at + 1, hi, n, R)
    <3>1. SortsPart(Part(split.keys, split.at + 1, hi).keys, deeper[Part(split.keys, split.at + 1, hi)],
                    Part(split.keys, split.at + 1, hi).lo, Part(split.keys, split.at + 1, hi).hi, n, R)
      BY <1>11, <2>6 DEF SortsParts
    <3> QED BY <3>1 DEF Part
  <2> HIDE DEF above
  <2>8. Part(above, lo, split.at - 1) \in Parts(keys)
    <3>1. split.at - 1 \in 0 .. n
      BY <1>1, <1>4, <2>5
    <3>2. above \in [1 .. n -> R]
      BY <2>7 DEF SortsPart, IsTimed
    <3> QED BY <1>1, <1>2, <3>1, <3>2 DEF Parts, Part
  <2>9. SortsPart(above, result, lo, split.at - 1, n, R)
    <3>1. SortsPart(Part(above, lo, split.at - 1).keys, deeper[Part(above, lo, split.at - 1)],
                    Part(above, lo, split.at - 1).lo, Part(above, lo, split.at - 1).hi, n, R)
      BY <1>11, <2>8 DEF SortsParts
    <3> QED BY <2>3, <3>1 DEF Part
  <2> QED BY <1>4, <2>4, <2>7, <2>9, SidesAreJoined DEF result, t, lo, hi
<1> QED BY <1>4, <1>6, <1>7, <1>8, <1>9, <1>10, <1>11

(* With no depth left nothing goes deeper.                                 *)
LEMMA IntroSortEnds ==
  ASSUME NEW keys, NEW n \in Nat, Len(keys) = n, NEW s \in Parts(keys), NEW threshold \in Nat,
         NEW g, NEW h
  PROVE  IntroSort(s, 0, threshold, g) = IntroSort(s, 0, threshold, h)
<1> DEFINE size == s.hi - s.lo + 1
           split == PickPivotAndPartition(s.keys, s.lo, s.hi)
           last(x) == x[Part(x[Part(split.keys, split.at + 1, s.hi)], s.lo, split.at - 1)]
           result(x) == IntroSort(s, 0, threshold, x)
           one == SwapIfGreater(s.keys, s.lo, s.hi)
           two == SortThree(s.keys, s.lo, s.hi)
           three == InsertionSort(s.keys, s.lo, s.hi)
           four == HeapSort(s.keys, s.lo, s.hi)
<1>1. size \in Int
  BY DEF Parts
<1>2. ASSUME NEW x
      PROVE  result(x) =
               CASE size <= 1 -> s.keys
                 [] size = 2 -> one
                 [] size = 3 -> two
                 [] size \in 4 .. threshold -> three
                 [] size > Greatest(3, threshold) /\ 0 = 0 -> four
                 [] OTHER -> last(x)
  BY DEF IntroSort
<1> HIDE DEF size, split, last, result, one, two, three, four
<1>3. size <= 1 \/ size = 2 \/ size = 3 \/ size \in 4 .. threshold \/ size > Greatest(3, threshold)
  BY <1>1 DEF Greatest
<1>4. result(g) = result(h)
  BY <1>2, <1>3
<1> QED BY <1>4 DEF result

SortsOf(keys, d, threshold, deeper) == [s \in Parts(keys) |-> IntroSort(s, d, threshold, deeper)]

IsSorting(f, keys, depth, threshold) ==
  f = [d \in 0 .. depth |-> [s \in Parts(keys) |-> IntroSort(s, d, threshold, f[d - 1])]]

LEMMA SortsOfSort ==
  ASSUME NEW n, NEW R, NEW keys, IsTimed(keys, n, R), R = ToSet(keys),
         NEW depth \in Nat, NEW threshold \in Nat, NEW deeper,
         depth # 0 => SortsParts(deeper, keys, n, R)
  PROVE  SortsParts(SortsOf(keys, depth, threshold, deeper), keys, n, R)
<1>1. \A s \in Parts(keys) :
        SortsOf(keys, depth, threshold, deeper)[s] = IntroSort(s, depth, threshold, deeper)
  BY DEF SortsOf
<1>2. \A s \in Parts(keys) :
        SortsPart(s.keys, IntroSort(s, depth, threshold, deeper), s.lo, s.hi, n, R)
  BY IntroSortSorts
<1> QED BY <1>1, <1>2 DEF SortsParts

LEMMA CSharpSortSorts ==
  ASSUME NEW n, NEW R, NEW keys, IsTimed(keys, n, R), R = ToSet(keys),
         NEW depth \in Nat, NEW threshold \in Nat
  PROVE  SortsPart(keys, CSharpSort(keys, depth, threshold), 1, n, n, R)
<1> DEFINE Sorts == {g \in [Parts(keys) -> [1 .. n -> R]] : SortsParts(g, keys, n, R)}
           S == [k \in 0 .. depth |-> Sorts]
           start == SortsOf(keys, 0, threshold, <<>>)
           step == [k \in 1 .. depth |-> [g \in Sorts |-> SortsOf(keys, k, threshold, g)]]
           f == CHOOSE f : IsSorting(f, keys, depth, threshold)
<1>1. Len(keys) = n /\ n \in Nat /\ DOMAIN keys = 1 .. n /\ keys \in [1 .. n -> R]
  BY DEF IsTimed
<1>2. ASSUME NEW k \in Nat, NEW g, k # 0 => SortsParts(g, keys, n, R)
      PROVE  SortsOf(keys, k, threshold, g) \in Sorts
  <2> DEFINE new == SortsOf(keys, k, threshold, g)
  <2>1. SortsParts(new, keys, n, R)
    BY <1>2, SortsOfSort
  <2>2. new = [s \in Parts(keys) |-> new[s]]
    BY DEF SortsOf
  <2> HIDE DEF new
  <2>3. \A s \in Parts(keys) : new[s] \in [1 .. n -> R]
    BY <2>1 DEF SortsParts, SortsPart, IsTimed
  <2>4. new \in [Parts(keys) -> [1 .. n -> R]]
    BY <2>2, <2>3
  <2> QED BY <2>1, <2>4 DEF new
<1>3. \A g \in Sorts : SortsParts(g, keys, n, R)
  OBVIOUS
<1> HIDE DEF Sorts
<1>4. \A k \in 0 .. depth : S[k] = Sorts
  OBVIOUS
<1>5. \A k \in 1 .. depth : \A g \in Sorts : step[k][g] = SortsOf(keys, k, threshold, g)
  OBVIOUS
<1> HIDE DEF S, step
<1>6. start \in S[0]
  <2>1. SortsOf(keys, 0, threshold, <<>>) \in Sorts
    BY <1>2
  <2> QED BY <1>4, <2>1
<1>7. ASSUME NEW k \in 1 .. depth, NEW g \in S[k - 1]
      PROVE  g \in Sorts /\ SortsOf(keys, k, threshold, g) \in S[k]
  <2>1. k - 1 \in 0 .. depth /\ k \in 0 .. depth /\ k \in Nat
    OBVIOUS
  <2>2. g \in Sorts
    BY <1>4, <2>1
  <2>3. SortsOf(keys, k, threshold, g) \in Sorts
    BY <1>2, <1>3, <2>1, <2>2
  <2> QED BY <1>4, <2>1, <2>2, <2>3
<1>8. Stays(S, depth, start, step)
  BY <1>5, <1>6, <1>7 DEF Stays
<1> HIDE DEF start
<1>9. PICK h : Loops(h, S, depth, start, step)
  BY <1>8, LoopExists
<1>10. IsSorting(h, keys, depth, threshold)
  <2>1. h = [k \in 0 .. depth |-> h[k]] /\ h[0] = start
        /\ \A k \in 1 .. depth : h[k] = SortsOf(keys, k, threshold, h[k - 1])
    BY <1>5, <1>7, <1>9 DEF Loops
  <2>2. ASSUME NEW k \in 0 .. depth PROVE h[k] = SortsOf(keys, k, threshold, h[k - 1])
    <3>1. CASE k = 0
      <4>1. \A s \in Parts(keys) :
              IntroSort(s, 0, threshold, <<>>) = IntroSort(s, 0, threshold, h[0 - 1])
        BY <1>1, IntroSortEnds
      <4>2. start = SortsOf(keys, 0, threshold, h[0 - 1])
        BY <4>1 DEF start, SortsOf
      <4> QED BY <2>1, <3>1, <4>2
    <3>2. CASE k # 0
      <4>1. k \in 1 .. depth
        BY <3>2
      <4> QED BY <2>1, <4>1
    <3> QED BY <3>1, <3>2
  <2>3. h = [k \in 0 .. depth |-> SortsOf(keys, k, threshold, h[k - 1])]
    BY <2>1, <2>2
  <2> QED BY <2>3 DEF IsSorting, SortsOf
<1>11. IsSorting(f, keys, depth, threshold)
  BY <1>10
<1>12. CSharpSort(keys, depth, threshold) = f[depth][Part(keys, 1, Len(keys))]
  BY DEF CSharpSort, IsSorting
<1> HIDE DEF f
<1>13. \A k \in 0 .. depth : f[k] = SortsOf(keys, k, threshold, f[k - 1])
  BY <1>11 DEF IsSorting, SortsOf
<1>14. f[depth] \in S[depth]
  <2>1. f[0] \in S[0]
    <3>1. SortsOf(keys, 0, threshold, f[0 - 1]) \in Sorts
      BY <1>2
    <3> QED BY <1>4, <1>13, <3>1
  <2>2. ASSUME NEW k \in 1 .. depth, f[k - 1] \in S[k - 1] PROVE f[k] \in S[k]
    <3>1. k \in 0 .. depth
      OBVIOUS
    <3> QED BY <1>7, <1>13, <2>2, <3>1
  <2> QED BY <2>1, <2>2, LoopStays
<1>15. SortsParts(f[depth], keys, n, R)
  BY <1>3, <1>4, <1>14
<1>16. Part(keys, 1, n) \in Parts(keys)
  BY <1>1 DEF Part, Parts
<1>17. SortsPart(Part(keys, 1, n).keys, f[depth][Part(keys, 1, n)], Part(keys, 1, n).lo,
                 Part(keys, 1, n).hi, n, R)
  BY <1>15, <1>16 DEF SortsParts
<1> QED BY <1>1, <1>12, <1>17 DEF Part

(***************************************************************************)
(* osu_legacy.rs                                                           *)
(***************************************************************************)

(* What it does to a list that is in order, whatever the part.             *)
StaysInOrder(s, t, n, R) == IsTimed(t, n, R) /\ Moves(s, t, 1, n, n) /\ Ordered(t, 1, n)

LEMMA InOrderStays ==
  ASSUME NEW n, NEW R, NEW s, IsTimed(s, n, R), Ordered(s, 1, n)
  PROVE  StaysInOrder(s, s, n, R)
<1>1. Moves(s, s, 1, n, n)
  BY NothingMoves
<1> QED BY <1>1 DEF StaysInOrder

LEMMA StaysCompose ==
  ASSUME NEW n, NEW R, NEW s, NEW t, NEW u, StaysInOrder(s, t, n, R), StaysInOrder(t, u, n, R)
  PROVE  StaysInOrder(s, u, n, R)
<1>1. Moves(s, t, 1, n, n) /\ Moves(t, u, 1, n, n) /\ IsTimed(u, n, R) /\ Ordered(u, 1, n)
  BY DEF StaysInOrder
<1>2. Moves(s, u, 1, n, n)
  BY <1>1, MovesCompose
<1> QED BY <1>1, <1>2 DEF StaysInOrder

(* Its parts may be sorted at any time.                                    *)
LEMMA SortedPartStays ==
  ASSUME NEW n, NEW R, NEW s, NEW t, IsTimed(s, n, R), Ordered(s, 1, n), NEW lo \in Nat \ {0},
         NEW hi \in Nat, hi <= n, SortsPart(s, t, lo, hi, n, R)
  PROVE  StaysInOrder(s, t, n, R)
<1>1. IsTimed(t, n, R) /\ Moves(s, t, lo, hi, n) /\ Ordered(t, lo, hi)
  BY DEF SortsPart
<1>2. n \in Nat /\ \A k \in 1 .. n : s[k].time \in Int /\ t[k].time \in Int
  BY <1>1, ElementsHaveTimes
<1>3. Moves(s, t, 1, n, n)
  <2>1. lo .. hi \subseteq 1 .. n
    BY <1>2
  <2> QED BY <1>1, <2>1, MovesWithin
<1>4. MovesOnly(s, t, lo, hi, n)
  BY <1>1, MovedElements
<1>5. ASSUME NEW i \in 1 .. n, NEW j \in 1 .. n, i < j PROVE t[i].time <= t[j].time
  <2>1. \A x, y \in 1 .. n : x < y => s[x].time <= s[y].time
    BY DEF Ordered
  <2>2. CASE i \in lo .. hi /\ j \in lo .. hi
    BY <1>1, <1>5, <2>2 DEF Ordered
  <2>3. CASE i \notin lo .. hi /\ j \notin lo .. hi
    BY <1>4, <1>5, <2>1, <2>3 DEF MovesOnly
  <2>4. CASE i \notin lo .. hi /\ j \in lo .. hi
    <3>1. PICK x \in 1 .. n : x \in lo .. hi /\ t[j] = s[x]
      BY <1>4, <2>4 DEF MovesOnly
    <3>2. t[i] = s[i] /\ i < x
      BY <1>2, <1>4, <1>5, <2>4, <3>1 DEF MovesOnly
    <3> QED BY <2>1, <3>1, <3>2
  <2>5. CASE i \in lo .. hi /\ j \notin lo .. hi
    <3>1. PICK x \in 1 .. n : x \in lo .. hi /\ t[i] = s[x]
      BY <1>4, <2>5 DEF MovesOnly
    <3>2. t[j] = s[j] /\ x < j
      BY <1>2, <1>4, <1>5, <2>5, <3>1 DEF MovesOnly
    <3> QED BY <2>1, <3>1, <3>2
  <2> QED BY <2>2, <2>3, <2>4, <2>5
<1> QED BY <1>1, <1>3, <1>5 DEF StaysInOrder, Ordered

LEMMA OrderedIsNotSwapped ==
  ASSUME NEW n, NEW R, NEW s, IsTimed(s, n, R), Ordered(s, 1, n),
         NEW i \in 1 .. n, NEW j \in 1 .. n, i <= j
  PROVE  SwapIfGreater(s, i, j) = s
<1>1. n \in Nat /\ s[i].time \in Int /\ s[j].time \in Int
  BY ElementsHaveTimes
<1>2. s[i].time <= s[j].time
  <2>1. i < j => s[i].time <= s[j].time
    BY DEF Ordered
  <2>2. i = j \/ i < j
    BY <1>1
  <2> QED BY <1>1, <2>1, <2>2
<1>3. ~(s[j].time < s[i].time)
  BY <1>1, <1>2
<1> QED BY <1>3 DEF SwapIfGreater, Before

(***************************************************************************)
(* While the ends are apart there is something to stop at on both sides.   *)
(***************************************************************************)
Approaching(d, s, middle, n, R) ==
  /\ StaysInOrder(s, d.keys, n, R)
  /\ d.i \in 1 .. n + 1 /\ d.j \in 1 .. n
  /\ d.i <= d.j =>
       /\ \E k \in 1 .. n : k >= d.i /\ d.keys[middle].time <= d.keys[k].time
       /\ \E k \in 1 .. n : k <= d.j /\ d.keys[k].time <= d.keys[middle].time

LEMMA ApproachApproaches ==
  ASSUME NEW n, NEW R, NEW s, NEW middle \in 1 .. n, NEW d, Approaching(d, s, middle, n, R)
  PROVE  Approaching(Approach(d, middle), s, middle, n, R)
<1> DEFINE t == d.keys
           i == d.i
           j == d.j
           v == t[middle].time
           A == {k \in i .. Len(t) : ~Before(t[k], t[middle])}
           B == {k \in 1 .. j : ~Before(t[middle], t[k])}
           l == Min(A)
           r == Max(B)
           u == SwapAt(t, l, r)
           next == Approach(d, middle)
<1>1. /\ StaysInOrder(s, t, n, R)
      /\ i \in 1 .. n + 1 /\ j \in 1 .. n
      /\ i <= j => /\ \E k \in 1 .. n : k >= i /\ v <= t[k].time
                   /\ \E k \in 1 .. n : k <= j /\ t[k].time <= v
  BY DEF Approaching
<1>2. IsTimed(t, n, R) /\ Moves(s, t, 1, n, n) /\ Ordered(t, 1, n)
  BY <1>1 DEF StaysInOrder
<1>3. n \in Nat /\ Len(t) = n /\ v \in Int /\ \A k \in 1 .. n : t[k].time \in Int
  BY <1>2, ElementsHaveTimes DEF IsTimed
<1>4. next = IF i > j THEN d
             ELSE IF l > r THEN [d EXCEPT !.i = l, !.j = r]
             ELSE [keys |-> IF l < r THEN u ELSE t, i |-> l + 1, j |-> Greatest(r - 1, 1)]
  BY DEF Approach
<1>5. CASE i > j
  <2>1. next = d
    BY <1>4, <1>5
  <2> QED BY <2>1
<1>6. CASE ~(i > j)
  <2>0. i <= j
    BY <1>1, <1>3, <1>6
  <2>1. \A k \in i .. n : k \in 1 .. n /\ (k \in A <=> v <= t[k].time)
    BY <1>1, <1>3 DEF Before
  <2>2. \A k \in 1 .. j : k \in 1 .. n /\ (k \in B <=> t[k].time <= v)
    BY <1>1, <1>3 DEF Before
  <2>3. A \subseteq i .. n /\ B \subseteq 1 .. j
    BY <1>3
  <2>4. A # {}
    <3>1. PICK k \in 1 .. n : k >= i /\ v <= t[k].time
      BY <1>1, <2>0
    <3>2. k \in i .. n
      BY <1>1, <1>3, <3>1
    <3>3. k \in A
      BY <2>1, <3>1, <3>2
    <3> QED BY <3>3
  <2>5. B # {}
    <3>1. PICK k \in 1 .. n : k <= j /\ t[k].time <= v
      BY <1>1, <2>0
    <3>2. k \in 1 .. j
      BY <1>1, <1>3, <3>1
    <3>3. k \in B
      BY <2>2, <3>1, <3>2
    <3> QED BY <3>3
  <2> HIDE DEF A, B
  <2>6. A \subseteq 1 .. n /\ B \subseteq 1 .. n
    BY <2>1, <2>2, <2>3
  <2>7. l \in A /\ r \in B
    BY <1>3, <2>4, <2>5, <2>6, BoundsAreReached
  <2> HIDE DEF l, r
  <2>8. l \in 1 .. n /\ r \in 1 .. n /\ v <= t[l].time /\ t[r].time <= v
    BY <2>1, <2>2, <2>3, <2>7
  <2> HIDE DEF next, t, i, j, v
  <2>9. CASE l > r
    <3>1. next = [d EXCEPT !.i = l, !.j = r]
      BY <1>4, <1>6, <2>9
    <3>2. StaysInOrder(s, next.keys, n, R)
      BY <1>1, <3>1 DEF t
    <3>3. next.i = l /\ next.j = r
      BY <1>1, <3>1
    <3>4. ~(l <= r) /\ l \in 1 .. n + 1
      BY <1>3, <2>8, <2>9
    <3> QED BY <2>8, <3>2, <3>3, <3>4 DEF Approaching, next
  <2>10. CASE l = r
    <3>1. next = [keys |-> t, i |-> l + 1, j |-> Greatest(r - 1, 1)]
      BY <1>3, <1>4, <1>6, <2>8, <2>10
    <3>2. l + 1 \in 1 .. n + 1 /\ Greatest(r - 1, 1) \in 1 .. n /\ ~(l + 1 <= Greatest(r - 1, 1))
      BY <1>3, <2>8, <2>10 DEF Greatest
    <3>3. next.keys = t /\ next.i = l + 1 /\ next.j = Greatest(r - 1, 1)
      BY <3>1
    <3> QED BY <1>1, <3>2, <3>3 DEF Approaching, next
  <2>11. CASE l < r
    <3>1. next = [keys |-> u, i |-> l + 1, j |-> Greatest(r - 1, 1)]
      BY <1>3, <1>4, <1>6, <2>8, <2>11
    <3>2. Greatest(r - 1, 1) = r - 1 /\ l + 1 \in 1 .. n + 1 /\ r - 1 \in 1 .. n
      BY <1>3, <2>8, <2>11 DEF Greatest
    <3>3. t[l].time = v /\ t[r].time = v
      <4>1. t[l].time <= t[r].time
        BY <1>2, <2>8, <2>11 DEF Ordered
      <4> QED BY <1>3, <2>8, <4>1
    <3>4. /\ IsTimed(u, n, R) /\ Moves(t, u, 1, n, n)
          /\ \A k \in 1 .. n : u[k] = IF k = r THEN t[l] ELSE IF k = l THEN t[r] ELSE t[k]
      BY <1>2, <2>8, SwapMoves
    <3> HIDE DEF u
    <3>5. \A k \in 1 .. n : u[k].time = t[k].time
      BY <3>3, <3>4
    <3>6. Ordered(u, 1, n)
      BY <1>2, <3>5 DEF Ordered
    <3>7. StaysInOrder(s, u, n, R)
      <4>1. Moves(s, u, 1, n, n)
        BY <1>2, <3>4, MovesCompose
      <4> QED BY <3>4, <3>6, <4>1 DEF StaysInOrder
    <3>8. u[middle].time = v /\ u[r].time = v /\ u[l].time = v
      BY <2>8, <3>3, <3>5 DEF v
    <3>9. l + 1 <= r - 1 =>
            /\ \E k \in 1 .. n : k >= l + 1 /\ u[middle].time <= u[k].time
            /\ \E k \in 1 .. n : k <= r - 1 /\ u[k].time <= u[middle].time
      <4>1. r >= l + 1 /\ l <= r - 1 /\ v <= v
        BY <1>3, <2>8, <2>11
      <4> QED BY <2>8, <3>8, <4>1
    <3>10. next.keys = u /\ next.i = l + 1 /\ next.j = r - 1
      BY <3>1, <3>2
    <3> QED BY <3>2, <3>7, <3>9, <3>10 DEF Approaching, next
  <2> QED BY <1>3, <2>8, <2>9, <2>10, <2>11
<1> QED BY <1>1, <1>3, <1>5, <1>6

IsApproaching(f, m, start, middle) ==
  f = [k \in 0 .. m |-> IF k = 0 THEN start ELSE Approach(f[k - 1], middle)]

LEMMA ApproachedApproaches ==
  ASSUME NEW n, NEW R, NEW s, IsTimed(s, n, R), Ordered(s, 1, n), NEW lo \in 1 .. n, NEW hi \in 1 .. n,
         NEW middle \in lo .. hi
  PROVE  Approaching(Approached(s, lo, hi, middle), s, middle, n, R)
<1> DEFINE m == hi - lo + 1
           start == [keys |-> s, i |-> lo, j |-> hi]
           States == [keys : [1 .. n -> R], i : 1 .. n + 1, j : 1 .. n]
           In(d) == Approaching(d, s, middle, n, R)
           S == [k \in 0 .. m |-> {d \in States : In(d)}]
           step == [k \in 1 .. m |-> [d \in States |-> Approach(d, middle)]]
           f == CHOOSE f : IsApproaching(f, m, start, middle)
<1>0. n \in Nat /\ m \in Nat /\ middle \in 1 .. n /\ s[middle].time \in Int
  <2>1. n \in Nat
    BY DEF IsTimed
  <2>2. middle \in 1 .. n /\ m \in Nat
    BY <2>1
  <2> QED BY <2>1, <2>2, ElementsHaveTimes
<1>1. start \in States /\ In(start)
  <2>1. StaysInOrder(s, s, n, R)
    BY InOrderStays
  <2>2. s \in [1 .. n -> R] /\ lo \in 1 .. n + 1
    BY <1>0 DEF IsTimed
  <2>3. start \in States
    BY <2>2
  <2>4. start.keys = s /\ start.i = lo /\ start.j = hi
    OBVIOUS
  <2>5. middle >= lo /\ middle <= hi /\ s[middle].time <= s[middle].time
    BY <1>0
  <2> HIDE DEF start
  <2>6. In(start)
    BY <1>0, <2>1, <2>2, <2>4, <2>5 DEF Approaching
  <2> QED BY <2>3, <2>6
<1>2. ASSUME NEW d \in States, In(d)
      PROVE  Approach(d, middle) \in States /\ In(Approach(d, middle))
  <2>1. In(Approach(d, middle))
    BY <1>0, <1>2, ApproachApproaches
  <2>2. /\ Approach(d, middle).keys \in [1 .. n -> R]
        /\ Approach(d, middle).i \in 1 .. n + 1 /\ Approach(d, middle).j \in 1 .. n
    BY <2>1 DEF Approaching, StaysInOrder, IsTimed
  <2>3. Approach(d, middle) = d
        \/ (\E x, y : Approach(d, middle) = [d EXCEPT !.i = x, !.j = y])
        \/ \E x, y, z : Approach(d, middle) = [keys |-> x, i |-> y, j |-> z]
    BY DEF Approach
  <2>4. Approach(d, middle) \in States
    BY <2>2, <2>3
  <2> QED BY <2>1, <2>4
<1> HIDE DEF In, States, start, m
<1>3. \A k \in 0 .. m : \A d : d \in S[k] <=> d \in States /\ In(d)
  OBVIOUS
<1>4. \A k \in 1 .. m : \A d \in States : step[k][d] = Approach(d, middle)
  OBVIOUS
<1> HIDE DEF S, step
<1>5. ASSUME NEW k \in 1 .. m, NEW d \in S[k - 1] PROVE Approach(d, middle) \in S[k] /\ d \in States
  <2>1. k - 1 \in 0 .. m /\ k \in 0 .. m
    BY <1>0
  <2>2. d \in States /\ In(d)
    BY <1>3, <2>1
  <2> QED BY <1>2, <1>3, <2>1, <2>2
<1>6. start \in S[0]
  BY <1>0, <1>1, <1>3
<1>7. Stays(S, m, start, step)
  BY <1>4, <1>5, <1>6 DEF Stays
<1>8. PICK h : Loops(h, S, m, start, step)
  BY <1>0, <1>7, LoopExists
<1>9. IsApproaching(h, m, start, middle)
  <2>1. h = [k \in 0 .. m |-> h[k]] /\ h[0] = start
        /\ \A k \in 1 .. m : h[k] = Approach(h[k - 1], middle)
    BY <1>4, <1>5, <1>8 DEF Loops
  <2>2. ASSUME NEW k \in 0 .. m PROVE h[k] = IF k = 0 THEN start ELSE Approach(h[k - 1], middle)
    <3>1. k = 0 \/ k \in 1 .. m
      BY <1>0
    <3> QED BY <2>1, <3>1
  <2> QED BY <2>1, <2>2 DEF IsApproaching
<1>10. IsApproaching(f, m, start, middle)
  BY <1>9
<1>11. Approached(s, lo, hi, middle) = f[m]
  BY DEF Approached, IsApproaching, start, m
<1> HIDE DEF f
<1>12. f[0] = start /\ \A k \in 1 .. m : f[k] = Approach(f[k - 1], middle)
  BY <1>0, <1>10 DEF IsApproaching
<1>13. f[m] \in S[m]
  BY <1>0, <1>5, <1>6, <1>12, LoopStays
<1>14. In(f[m])
  BY <1>0, <1>3, <1>13
<1> QED BY <1>11, <1>14 DEF In

KeepsOrder(g, keys, n, R) ==
  \A p \in Parts(keys) : Ordered(p.keys, 1, n) => StaysInOrder(p.keys, g[p], n, R)

LEMMA PartStaysInOrder ==
  ASSUME NEW n, NEW R, NEW keys, IsTimed(keys, n, R), R = ToSet(keys), NEW g,
         KeepsOrder(g, keys, n, R), NEW t, IsTimed(t, n, R), Ordered(t, 1, n),
         NEW lo \in 1 .. n + 1, NEW hi \in 0 .. n
  PROVE  StaysInOrder(t, g[Part(t, lo, hi)], n, R)
<1>1. Part(t, lo, hi) \in Parts(keys)
  <2>1. DOMAIN keys = 1 .. n /\ Len(keys) = n /\ t \in [1 .. n -> R]
    BY DEF IsTimed
  <2> QED BY <2>1 DEF Part, Parts
<1>2. Part(t, lo, hi).keys = t
  BY DEF Part
<1> QED BY <1>1, <1>2 DEF KeepsOrder

LEMMA QuickSortKeepsOrder ==
  ASSUME NEW n, NEW R, NEW keys, IsTimed(keys, n, R), R = ToSet(keys), NEW s \in Parts(keys),
         Ordered(s.keys, 1, n), NEW depth \in Nat, NEW deeper,
         depth # 0 => KeepsOrder(deeper, keys, n, R)
  PROVE  StaysInOrder(s.keys, DepthLimitedQuickSort(s, depth, deeper), n, R)
<1> DEFINE t == s.keys
           lo == s.lo
           hi == s.hi
           middle == lo + (hi - lo) \div 2
           ends == SwapIfGreater(SwapIfGreater(SwapIfGreater(t, lo, middle), lo, hi), middle, hi)
           met == Approached(ends, lo, hi, middle)
           Lower(x) == deeper[Part(x, lo, met.j)]
           Higher(x) == deeper[Part(x, met.i, hi)]
           result == DepthLimitedQuickSort(s, depth, deeper)
<1>1. DOMAIN keys = 1 .. n /\ Len(keys) = n /\ n \in Nat
  BY DEF IsTimed
<1>2. t \in [1 .. n -> R] /\ lo \in 1 .. n + 1 /\ hi \in 0 .. n
  BY <1>1 DEF Parts
<1>3. IsTimed(t, n, R) /\ Ordered(t, 1, n)
  BY <1>2 DEF IsTimed
<1>4. result = IF lo >= hi THEN t
               ELSE IF depth = 0 THEN HeapSort(t, lo, hi)
               ELSE IF SaturatingSub(met.j, lo) <= hi - met.i THEN Higher(Lower(met.keys))
               ELSE Lower(Higher(met.keys))
  BY DEF DepthLimitedQuickSort
<1> HIDE DEF result, t, lo, hi, middle
<1>5. CASE lo >= hi
  <2>1. result = t
    BY <1>4, <1>5
  <2> QED BY <1>3, <2>1, InOrderStays DEF result, t
<1>6. CASE ~(lo >= hi) /\ depth = 0
  <2>1. result = HeapSort(t, lo, hi)
    BY <1>4, <1>6
  <2>2. lo \in Nat \ {0} /\ hi \in Nat /\ lo <= hi /\ hi <= n
    BY <1>1, <1>2, <1>6
  <2>3. SortsPart(t, HeapSort(t, lo, hi), lo, hi, n, R)
    BY <1>3, <2>2, HeapSortSorts
  <2>4. StaysInOrder(t, HeapSort(t, lo, hi), n, R)
    BY <1>3, <2>2, <2>3, SortedPartStays
  <2> QED BY <2>1, <2>4 DEF result, t
<1>7. CASE ~(lo >= hi) /\ depth # 0
  <2>1. lo \in 1 .. n /\ hi \in 1 .. n /\ middle \in lo .. hi /\ middle \in 1 .. n
        /\ lo <= middle /\ lo <= hi /\ middle <= hi
    BY <1>1, <1>2, <1>7 DEF middle
  <2>2. ends = t
    BY <1>3, <2>1, OrderedIsNotSwapped
  <2>3. Approaching(met, t, middle, n, R)
    BY <1>3, <2>1, <2>2, ApproachedApproaches
  <2> HIDE DEF ends, met
  <2>4. StaysInOrder(t, met.keys, n, R) /\ met.i \in 1 .. n + 1 /\ met.j \in 0 .. n
    BY <1>1, <2>3 DEF Approaching
  <2>5. ASSUME NEW x, StaysInOrder(t, x, n, R)
        PROVE  StaysInOrder(t, Lower(x), n, R) /\ StaysInOrder(t, Higher(x), n, R)
    <3>1. IsTimed(x, n, R) /\ Ordered(x, 1, n)
      BY <2>5 DEF StaysInOrder
    <3>2. StaysInOrder(x, Lower(x), n, R)
      BY <1>2, <1>7, <2>4, <3>1, PartStaysInOrder
    <3>3. StaysInOrder(x, Higher(x), n, R)
      BY <1>2, <1>7, <2>4, <3>1, PartStaysInOrder
    <3> HIDE DEF Lower, Higher
    <3> QED BY <2>5, <3>2, <3>3, StaysCompose
  <2> HIDE DEF Lower, Higher
  <2>6. StaysInOrder(t, Higher(Lower(met.keys)), n, R)
    BY <2>4, <2>5
  <2>7. StaysInOrder(t, Lower(Higher(met.keys)), n, R)
    BY <2>4, <2>5
  <2> QED BY <1>4, <1>7, <2>6, <2>7 DEF result, t
<1> QED BY <1>5, <1>6, <1>7

(* With no depth left nothing goes deeper.                                 *)
LEMMA QuickSortEnds ==
  ASSUME NEW s, NEW g, NEW h
  PROVE  DepthLimitedQuickSort(s, 0, g) = DepthLimitedQuickSort(s, 0, h)
BY DEF DepthLimitedQuickSort

QuickSortsOf(keys, d, deeper) == [s \in Parts(keys) |-> DepthLimitedQuickSort(s, d, deeper)]

IsQuickSorting(f, keys, depth) ==
  f = [d \in 0 .. depth |-> [s \in Parts(keys) |-> DepthLimitedQuickSort(s, d, f[d - 1])]]

LEMMA QuickSortingExists ==
  ASSUME NEW keys, NEW depth \in Nat
  PROVE  \E f : IsQuickSorting(f, keys, depth)
<1> DEFINE Is(f, m) == f = [d \in 0 .. m |-> QuickSortsOf(keys, d, f[d - 1])]
           S == {m \in 0 .. depth : \E f : Is(f, m)}
<1>1. 0 \in S
  <2> DEFINE f == [d \in 0 .. 0 |-> QuickSortsOf(keys, 0, <<>>)]
  <2>1. QuickSortsOf(keys, 0, <<>>) = QuickSortsOf(keys, 0, f[0 - 1])
    <3> DEFINE g == f[0 - 1]
    <3>1. \A s \in Parts(keys) : DepthLimitedQuickSort(s, 0, <<>>) = DepthLimitedQuickSort(s, 0, g)
      BY QuickSortEnds
    <3> HIDE DEF g
    <3>2. QuickSortsOf(keys, 0, <<>>) = QuickSortsOf(keys, 0, g)
      BY <3>1 DEF QuickSortsOf
    <3> QED BY <3>2 DEF g
  <2>2. f = [d \in 0 .. 0 |-> f[d]] /\ \A d \in 0 .. 0 : f[d] = QuickSortsOf(keys, d, f[d - 1])
    <3>1. \A d \in 0 .. 0 : d = 0
      OBVIOUS
    <3>2. f = [d \in 0 .. 0 |-> f[d]] /\ f[0] = QuickSortsOf(keys, 0, <<>>)
      OBVIOUS
    <3> HIDE DEF f
    <3> QED BY <2>1, <3>1, <3>2
  <2> HIDE DEF f
  <2>3. Is(f, 0)
    BY <2>2
  <2> HIDE DEF Is
  <2> QED BY <2>3
<1>2. ASSUME NEW m \in 1 .. depth, m - 1 \in S PROVE m \in S
  <2>1. PICK f : Is(f, m - 1)
    BY <1>2
  <2> DEFINE g == [d \in 0 .. m |-> IF d = m THEN QuickSortsOf(keys, m, f[m - 1]) ELSE f[d]]
  <2>2. \A d \in 0 .. m - 1 : f[d] = QuickSortsOf(keys, d, f[d - 1])
    BY <2>1
  <2>3. ASSUME NEW d \in 0 .. m PROVE g[d] = QuickSortsOf(keys, d, g[d - 1])
    <3>1. CASE d = m
      <4>1. g[d] = QuickSortsOf(keys, m, f[m - 1]) /\ g[d - 1] = f[m - 1]
        BY <3>1
      <4> QED BY <3>1, <4>1
    <3>2. CASE d # m /\ d # 0
      <4>1. g[d] = f[d] /\ g[d - 1] = f[d - 1] /\ d \in 0 .. m - 1
        BY <3>2
      <4> QED BY <2>2, <4>1
    <3>3. CASE d # m /\ d = 0
      <4>1. g[0] = f[0] /\ 0 \in 0 .. m - 1
        BY <3>3
      <4>2. f[0] = QuickSortsOf(keys, 0, f[0 - 1])
        BY <2>2, <4>1
      <4> DEFINE x == f[0 - 1]
                 y == g[0 - 1]
      <4>3. \A s \in Parts(keys) : DepthLimitedQuickSort(s, 0, x) = DepthLimitedQuickSort(s, 0, y)
        BY QuickSortEnds
      <4> HIDE DEF x, y
      <4>4. QuickSortsOf(keys, 0, x) = QuickSortsOf(keys, 0, y)
        BY <4>3 DEF QuickSortsOf
      <4> QED BY <3>3, <4>1, <4>2, <4>4 DEF x, y
    <3> QED BY <3>1, <3>2, <3>3
  <2>4. g = [d \in 0 .. m |-> g[d]]
    OBVIOUS
  <2> HIDE DEF g
  <2>5. Is(g, m)
    BY <2>3, <2>4
  <2> HIDE DEF Is
  <2> QED BY <2>5
<1> HIDE DEF S
<1>3. \A m \in 0 .. depth : m \in S
  BY <1>1, <1>2, IntervalIsReached
<1>4. PICK f : Is(f, depth)
  BY <1>3 DEF S
<1>5. IsQuickSorting(f, keys, depth)
  BY <1>4 DEF IsQuickSorting, QuickSortsOf
<1> QED BY <1>5

LEMMA LegacySortKeepsOrder ==
  ASSUME NEW n, NEW R, NEW keys, IsTimed(keys, n, R), R = ToSet(keys), Ordered(keys, 1, n),
         NEW depth \in Nat
  PROVE  StaysInOrder(keys, LegacySort(keys, depth), n, R)
<1> DEFINE f == CHOOSE f : IsQuickSorting(f, keys, depth)
           S == {m \in 0 .. depth : KeepsOrder(f[m], keys, n, R)}
<1>1. LegacySort(keys, depth) = f[depth][Part(keys, 1, Len(keys))]
  BY DEF LegacySort, IsQuickSorting
<1>2. IsQuickSorting(f, keys, depth)
  BY QuickSortingExists
<1> HIDE DEF f
<1>3. \A m \in 0 .. depth : f[m] = QuickSortsOf(keys, m, f[m - 1])
  BY <1>2 DEF IsQuickSorting, QuickSortsOf
<1>4. ASSUME NEW m \in 0 .. depth, m # 0 => KeepsOrder(f[m - 1], keys, n, R)
      PROVE  m \in S
  <2>1. \A s \in Parts(keys) : f[m][s] = DepthLimitedQuickSort(s, m, f[m - 1])
    BY <1>3 DEF QuickSortsOf
  <2>2. m \in Nat
    OBVIOUS
  <2>3. \A s \in Parts(keys) : Ordered(s.keys, 1, n) =>
          StaysInOrder(s.keys, DepthLimitedQuickSort(s, m, f[m - 1]), n, R)
    BY <1>4, <2>2, QuickSortKeepsOrder
  <2> QED BY <2>1, <2>3 DEF KeepsOrder
<1>5. 0 \in S
  BY <1>4
<1>6. ASSUME NEW m \in 1 .. depth, m - 1 \in S PROVE m \in S
  <2>1. m \in 0 .. depth /\ KeepsOrder(f[m - 1], keys, n, R)
    BY <1>6
  <2> QED BY <1>4, <2>1
<1> HIDE DEF S
<1>7. \A m \in 0 .. depth : m \in S
  BY <1>5, <1>6, IntervalIsReached
<1>8. KeepsOrder(f[depth], keys, n, R)
  BY <1>7 DEF S
<1>9. n \in Nat /\ Len(keys) = n
  BY DEF IsTimed
<1> QED BY <1>1, <1>8, <1>9, PartStaysInOrder

(***************************************************************************)
(* What both of them promise                                               *)
(***************************************************************************)
LEMMA NeighboursAreEnough ==
  ASSUME NEW n, NEW R, NEW s, IsTimed(s, n, R)
  PROVE  InOrder(s) <=> Ordered(s, 1, n)
<1>1. n \in Nat /\ Len(s) = n /\ \A k \in 1 .. n : s[k].time \in Int
  BY ElementsHaveTimes DEF IsTimed
<1>2. ASSUME InOrder(s), NEW i \in 1 .. n, NEW j \in 1 .. n, i < j PROVE s[i].time <= s[j].time
  <2> DEFINE S == {k \in 0 .. n - i : s[i].time <= s[i + k].time}
  <2>1. 0 \in S
    BY <1>1
  <2>2. ASSUME NEW k \in 1 .. n - i, k - 1 \in S PROVE k \in S
    <3>1. i + (k - 1) \in 1 .. Len(s) - 1 /\ (i + (k - 1)) + 1 = i + k /\ i + k \in 1 .. n
      BY <1>1
    <3>2. ~(s[i + k].time < s[i + (k - 1)].time)
      BY <1>2, <3>1 DEF InOrder, Before
    <3>3. i + (k - 1) \in 1 .. n
      BY <1>1, <3>1
    <3>4. s[i].time <= s[i + (k - 1)].time
      BY <2>2
    <3> QED BY <1>1, <3>1, <3>2, <3>3, <3>4
  <2>3. n - i \in Nat /\ j - i \in 0 .. n - i /\ i + (j - i) = j
    BY <1>1, <1>2
  <2> HIDE DEF S
  <2>4. \A k \in 0 .. n - i : k \in S
    BY <2>1, <2>2, <2>3, IntervalIsReached
  <2> QED BY <2>3, <2>4 DEF S
<1>3. ASSUME Ordered(s, 1, n), NEW i \in 1 .. Len(s) - 1 PROVE ~Before(s[i + 1], s[i])
  <2>1. i \in 1 .. n /\ i + 1 \in 1 .. n /\ i < i + 1
    BY <1>1
  <2>2. s[i].time <= s[i + 1].time
    BY <1>3, <2>1 DEF Ordered
  <2> QED BY <1>1, <2>1, <2>2 DEF Before
<1> QED BY <1>2, <1>3 DEF InOrder, Ordered

LEMMA KeysAreList ==
  ASSUME NEW R, \A e \in R : e.time \in Int, NEW keys \in Seq(R)
  PROVE  IsTimed(keys, Len(keys), ToSet(keys))
<1>1. Len(keys) \in Nat /\ DOMAIN keys = 1 .. Len(keys) /\ keys \in [1 .. Len(keys) -> R]
  OBVIOUS
<1>2. ToSet(keys) \subseteq R /\ \A k \in 1 .. Len(keys) : keys[k] \in ToSet(keys)
  BY <1>1 DEF ToSet
<1>3. keys \in [1 .. Len(keys) -> ToSet(keys)]
  BY <1>1, <1>2
<1> QED BY <1>1, <1>2, <1>3 DEF IsTimed

(* Whatever pivots it picks and wherever it gives up and heaps, sort::     *)
(* csharp returns the elements that it is given, in order.                 *)
THEOREM CSharpSortsLists ==
  ASSUME NEW R, \A e \in R : e.time \in Int, NEW keys \in Seq(R),
         NEW depth \in Nat, NEW threshold \in Nat
  PROVE  /\ InOrder(CSharpSort(keys, depth, threshold))
         /\ SameElements(CSharpSort(keys, depth, threshold), keys)
<1> DEFINE n == Len(keys)
           E == ToSet(keys)
           t == CSharpSort(keys, depth, threshold)
<1>1. IsTimed(keys, n, E)
  BY KeysAreList
<1> HIDE DEF n
<1>2. SortsPart(keys, t, 1, n, n, E)
  BY <1>1, CSharpSortSorts
<1> HIDE DEF E, t
<1>3. IsTimed(t, n, E) /\ Moves(keys, t, 1, n, n) /\ Ordered(t, 1, n)
  BY <1>2 DEF SortsPart
<1>4. InOrder(t)
  BY <1>3, NeighboursAreEnough
<1>5. SameElements(t, keys)
  BY <1>1, <1>3, MovesSameElements
<1> QED BY <1>4, <1>5 DEF t

(* sort::osu_legacy, which compares with an element that it may just have  *)
(* swapped away, keeps a list in order that is in order already.           *)
THEOREM LegacySortKeepsLists ==
  ASSUME NEW R, \A e \in R : e.time \in Int, NEW keys \in Seq(R), InOrder(keys), NEW depth \in Nat
  PROVE  /\ InOrder(LegacySort(keys, depth))
         /\ SameElements(LegacySort(keys, depth), keys)
<1> DEFINE n == Len(keys)
           E == ToSet(keys)
           t == LegacySort(keys, depth)
<1>1. IsTimed(keys, n, E)
  BY KeysAreList
<1> HIDE DEF n
<1>2. Ordered(keys, 1, n)
  BY <1>1, NeighboursAreEnough
<1>3. StaysInOrder(keys, t, n, E)
  BY <1>1, <1>2, LegacySortKeepsOrder
<1> HIDE DEF E, t
<1>4. IsTimed(t, n, E) /\ Moves(keys, t, 1, n, n) /\ Ordered(t, 1, n)
  BY <1>3 DEF StaysInOrder
<1>5. InOrder(t)
  BY <1>4, NeighboursAreEnough
<1>6. SameElements(t, keys)
  BY <1>1, <1>4, MovesSameElements
<1> QED BY <1>5, <1>6 DEF t

(***************************************************************************)
(* The sorter of tandem.rs                                                 *)
(***************************************************************************)

Indices(n) == 0 .. n - 1

IsPermutation(p, n) ==
  /\ p \in [Indices(n) -> Indices(n)]
  /\ \A a, b \in Indices(n) : p[a] = p[b] => a = b

LEMMA IndicesAreFinite ==
  ASSUME NEW n \in Nat
  PROVE  IsFiniteSet(Indices(n)) /\ Cardinality(Indices(n)) = n
<1>1. 0 \in Int /\ n - 1 \in Int
  OBVIOUS
<1>2. IsFiniteSet(0 .. n - 1) /\ Cardinality(0 .. n - 1) = IF 0 > n - 1 THEN 0 ELSE n - 1 - 0 + 1
  BY <1>1, FS_Interval
<1> QED BY <1>2 DEF Indices

(***************************************************************************)
(* The order of the keys                                                   *)
(***************************************************************************)

(* Positions are ordered by their keys, and by themselves if these are     *)
(* equal.                                                                  *)
LEMMA PrecedesIsOrder ==
  ASSUME NEW n \in Nat, NEW keys \in [1 .. n -> Int], NEW i \in 1 .. n, NEW j \in 1 .. n
  PROVE  /\ ~Precedes(keys, i, i)
         /\ i # j => Precedes(keys, i, j) \/ Precedes(keys, j, i)
         /\ \A k \in 1 .. n : Precedes(keys, k, i) /\ Precedes(keys, i, j) => Precedes(keys, k, j)
BY DEF Precedes

(* What precedes has the smaller rank.                                     *)
LEMMA RankGrows ==
  ASSUME NEW n \in Nat, NEW keys \in [1 .. n -> Int], NEW i \in 1 .. n
  PROVE  /\ Rank(keys, i) \in Indices(n)
         /\ \A j \in 1 .. n : Precedes(keys, i, j) => Rank(keys, i) < Rank(keys, j)
<1>1. Len(keys) = n
  OBVIOUS
<1> DEFINE Below(k) == {j \in 1 .. n : Precedes(keys, j, k)}
<1>2. \A k : Rank(keys, k) = Cardinality(Below(k))
  BY <1>1 DEF Rank
<1>3. IsFiniteSet(1 .. n) /\ Cardinality(1 .. n) = n
  BY FS_Interval
<1>4. ASSUME NEW k \in 1 .. n PROVE IsFiniteSet(Below(k)) /\ Cardinality(Below(k)) \in Nat
  <2>1. Below(k) \in SUBSET (1 .. n)
    OBVIOUS
  <2> HIDE DEF Below
  <2>2. IsFiniteSet(Below(k))
    BY <2>1, <1>3, FS_Subset
  <2> QED BY <2>2, FS_CardinalityType
<1>5. Cardinality(Below(i)) < n
  <2>1. Below(i) \in SUBSET ((1 .. n) \ {i})
    BY PrecedesIsOrder
  <2>2. IsFiniteSet((1 .. n) \ {i}) /\ Cardinality((1 .. n) \ {i}) = n - 1
    BY <1>3, FS_RemoveElement
  <2> HIDE DEF Below
  <2>3. Cardinality(Below(i)) <= n - 1
    BY <2>1, <2>2, FS_Subset
  <2> QED BY <2>3, <1>4
<1>6. ASSUME NEW j \in 1 .. n, Precedes(keys, i, j)
      PROVE  Cardinality(Below(i)) < Cardinality(Below(j))
  <2>1. Below(i) \in SUBSET Below(j)
    BY <1>6, PrecedesIsOrder
  <2>2. i \in Below(j) /\ i \notin Below(i)
    BY <1>6, PrecedesIsOrder
  <2> HIDE DEF Below
  <2>3. Cardinality(Below(i)) <= Cardinality(Below(j)) /\ Cardinality(Below(i)) # Cardinality(Below(j))
    BY <2>1, <2>2, <1>4, FS_Subset
  <2> QED BY <2>3, <1>4
<1> HIDE DEF Below
<1> QED BY <1>2, <1>4, <1>5, <1>6 DEF Indices

(* A permutation reaches every index.                                      *)
LEMMA PermutationIsOnto ==
  ASSUME NEW n \in Nat, NEW p, IsPermutation(p, n), NEW b \in Indices(n)
  PROVE  \E a \in Indices(n) : p[a] = b
<1> DEFINE S == Indices(n)
<1>1. IsFiniteSet(S)
  BY FS_Interval DEF Indices
<1>2. p \in Injection(S, S)
  BY DEF IsPermutation, Injection, IsInjective
<1> HIDE DEF S
<1>3. p \in Surjection(S, S)
  BY <1>1, <1>2, FS_Injection
<1>4. \A t \in S : \E s \in S : p[s] = t
  BY <1>3 DEF Surjection
<1> QED BY <1>4 DEF S

(* new_stable holds a permutation that orders the keys, equal ones by      *)
(* where they were.                                                        *)
LEMMA NewStableOrders ==
  ASSUME NEW n \in Nat, NEW keys \in [1 .. n -> Int]
  PROVE  LET p == NewStable(keys).indices
         IN  /\ IsPermutation(p, n)
             /\ \A a, b \in Indices(n) : a < b => Precedes(keys, p[a] + 1, p[b] + 1)
<1> DEFINE p == NewStable(keys).indices
           r == [a \in Indices(n) |-> Rank(keys, a + 1)]
           at(k) == CHOOSE i \in 1 .. n : Rank(keys, i) = k
<1>1. Len(keys) = n
  OBVIOUS
<1>2. p = [k \in Indices(n) |-> at(k) - 1]
  BY <1>1 DEF NewStable, Indices
<1>3. \A a \in Indices(n) : a + 1 \in 1 .. n
  BY DEF Indices
<1>4. IsPermutation(r, n)
  <2>1. r \in [Indices(n) -> Indices(n)]
    BY <1>3, RankGrows
  <2>2. ASSUME NEW a \in Indices(n), NEW b \in Indices(n), a # b PROVE r[a] # r[b]
    <3>1. a + 1 \in 1 .. n /\ b + 1 \in 1 .. n /\ a + 1 # b + 1
      BY <2>2 DEF Indices
    <3>2. Precedes(keys, a + 1, b + 1) \/ Precedes(keys, b + 1, a + 1)
      BY <3>1, PrecedesIsOrder
    <3>3. Rank(keys, a + 1) \in Int /\ Rank(keys, b + 1) \in Int
      BY <3>1, RankGrows DEF Indices
    <3>4. Rank(keys, a + 1) < Rank(keys, b + 1) \/ Rank(keys, b + 1) < Rank(keys, a + 1)
      BY <3>1, <3>2, RankGrows
    <3> QED BY <3>3, <3>4
  <2> QED BY <2>1, <2>2 DEF IsPermutation
<1>5. ASSUME NEW k \in Indices(n) PROVE at(k) \in 1 .. n /\ Rank(keys, at(k)) = k
  <2>1. PICK a \in Indices(n) : r[a] = k
    BY <1>4, PermutationIsOnto
  <2>2. a + 1 \in 1 .. n /\ Rank(keys, a + 1) = k
    BY <1>3, <2>1
  <2> QED BY <2>2
<1> HIDE DEF at, r, p
<1>6. ASSUME NEW k \in Indices(n) PROVE p[k] \in Indices(n) /\ p[k] + 1 = at(k)
  BY <1>2, <1>5 DEF Indices
<1>7. IsPermutation(p, n)
  <2>1. p \in [Indices(n) -> Indices(n)]
    BY <1>2, <1>6
  <2>2. ASSUME NEW a \in Indices(n), NEW b \in Indices(n), p[a] = p[b] PROVE a = b
    <3>1. at(a) = at(b)
      BY <1>6, <2>2
    <3> QED BY <3>1, <1>5
  <2> QED BY <2>1, <2>2 DEF IsPermutation
<1>8. ASSUME NEW a \in Indices(n), NEW b \in Indices(n), a < b
      PROVE  Precedes(keys, p[a] + 1, p[b] + 1)
  <2>1. at(a) # at(b) /\ at(a) \in 1 .. n /\ at(b) \in 1 .. n
    BY <1>5, <1>8 DEF Indices
  <2>2. Precedes(keys, at(b), at(a)) => Rank(keys, at(b)) < Rank(keys, at(a))
    BY <2>1, RankGrows
  <2>3. ~Precedes(keys, at(b), at(a))
    BY <1>5, <1>8, <2>2 DEF Indices
  <2> QED BY <2>1, <2>3, <1>6, PrecedesIsOrder
<1> QED BY <1>7, <1>8 DEF p

(***************************************************************************)
(* Following the cycles                                                    *)
(***************************************************************************)

(* The entries in M are done with: their places are filled, and they are   *)
(* marked.                                                                 *)
MarkedIndices(p, n, M) == [k \in Indices(n) |-> IF k \in M THEN p[k] + TopBit ELSE p[k]]
Moved(p, n, s, M) == [k \in 1 .. n |-> IF k - 1 \in M THEN s[p[k - 1] + 1] ELSE s[k]]

PlacedSo(p, n, s, M) == [indices |-> MarkedIndices(p, n, M), slice |-> Moved(p, n, s, M)]

(* Whole cycles.                                                           *)
Closed(p, n, M) == M \in SUBSET Indices(n) /\ \A k \in Indices(n) : p[k] \in M <=> k \in M

PermutationCycles(n, R) ==
  [indices : [Indices(n) -> Nat], slice : [1 .. n -> R], j : Indices(n), jIdx : Indices(n)]

(* On the cycle through i, V is done with; the next place is j, where the  *)
(* element lies that was at i.                                             *)
Following(d, p, n, s, M, V, i) ==
  /\ V \in SUBSET Indices(n) /\ V \cap M = {}
  /\ d.j \in Indices(n) /\ d.j \notin M \cup V /\ d.jIdx = p[d.j]
  /\ d.indices = MarkedIndices(p, n, M \cup V)
  /\ d.slice = [Moved(p, n, s, M \cup V) EXCEPT ![d.j + 1] = s[i + 1]]
  /\ i \in V \cup {d.j}
  /\ \A k \in V : p[k] \in V \cup {d.j}
  /\ \A k \in Indices(n) : p[k] \in V \cup {d.j} /\ p[k] # i => k \in V

SorterInputs(p, n, R, s) ==
  n \in Nat /\ n <= TopBit /\ IsPermutation(p, n) /\ s \in [1 .. n -> R]

LEMMA MarksAndMoves ==
  ASSUME NEW n, NEW p, NEW R, NEW s, SorterInputs(p, n, R, s), NEW M
  PROVE  /\ MarkedIndices(p, n, M) \in [Indices(n) -> Nat]
         /\ Moved(p, n, s, M) \in [1 .. n -> R]
<1>1. TopBit \in Nat
  BY DEF TopBit
<1>2. \A k \in Indices(n) : p[k] \in Nat /\ p[k] + 1 \in 1 .. n
  BY DEF SorterInputs, IsPermutation, Indices
<1>3. \A k \in 1 .. n : k - 1 \in Indices(n)
  BY DEF SorterInputs, Indices
<1> QED BY <1>1, <1>2, <1>3 DEF MarkedIndices, Moved, SorterInputs

(* A step along the cycle fills one place more, or ends it.                *)
LEMMA FollowsOnce ==
  ASSUME NEW n, NEW p, NEW R, NEW s, SorterInputs(p, n, R, s),
         NEW M, Closed(p, n, M), NEW i \in Indices(n), NEW V,
         NEW d \in PermutationCycles(n, R), Following(d, p, n, s, M, V, i), d.jIdx # i
  PROVE  /\ FollowOnce(d, i) \in PermutationCycles(n, R)
         /\ Following(FollowOnce(d, i), p, n, s, M, V \cup {d.j}, i)
<1> DEFINE j == d.j
           q == d.jIdx
           e == FollowOnce(d, i)
           W == V \cup {d.j}
<1>1. j \in Indices(n) /\ q \in Indices(n) /\ q = p[j] /\ j \notin M \cup V
  BY DEF Following, PermutationCycles
<1>2. q \notin M \cup V \cup {j}
  BY <1>1 DEF Closed, Following
<1>3. /\ \A k \in Indices(n) : p[k] \in Indices(n) /\ p[k] \in Nat
      /\ \A a, b \in Indices(n) : p[a] = p[b] => a = b
  BY DEF SorterInputs, IsPermutation, Indices
<1>4. e = [ indices |-> [d.indices EXCEPT ![j] = ToggleMarkIdx(q)],
            slice   |-> Swap(d.slice, j, q), j |-> q, jIdx |-> d.indices[q] ]
  BY DEF FollowOnce
<1> HIDE DEF e
<1>5. e.j = q /\ e.jIdx = p[q]
  BY <1>1, <1>2, <1>4 DEF Following, MarkedIndices
<1>6. e.indices = MarkedIndices(p, n, M \cup W)
  <2>1. ToggleMarkIdx(q) = q + TopBit
    BY <1>1 DEF ToggleMarkIdx, IdxIsMarked, TopBit, SorterInputs, Indices
  <2>2. e.indices = [MarkedIndices(p, n, M \cup V) EXCEPT ![j] = p[j] + TopBit]
    BY <1>1, <1>4, <2>1 DEF Following
  <2> HIDE DEF j, q
  <2>3. W = V \cup {j}
    BY DEF j
  <2> HIDE DEF W
  <2> QED BY <2>2, <2>3, <1>1 DEF MarkedIndices
<1>7. e.slice = [Moved(p, n, s, M \cup W) EXCEPT ![q + 1] = s[i + 1]]
  <2>1. d.slice = [Moved(p, n, s, M \cup V) EXCEPT ![j + 1] = s[i + 1]]
    BY DEF Following
  <2>2. e.slice = Swap(d.slice, j, q)
    BY <1>4
  <2> HIDE DEF j, q
  <2>3. W = V \cup {j}
    BY DEF j
  <2> HIDE DEF W
  <2>4. j + 1 \in 1 .. n /\ q + 1 \in 1 .. n /\ j # q
    BY <1>1, <1>2 DEF Indices, SorterInputs
  <2>5. Moved(p, n, s, M \cup V) \in [1 .. n -> R]
    BY MarksAndMoves
  <2>6. d.slice[j + 1] = s[i + 1] /\ d.slice[q + 1] = s[q + 1]
    <3>1. (q + 1) - 1 = q /\ (j + 1) # (q + 1)
      BY <1>1, <2>4 DEF Indices
    <3>2. Moved(p, n, s, M \cup V)[q + 1] = s[q + 1]
      BY <3>1, <1>2, <2>4 DEF Moved
    <3> QED BY <2>1, <2>4, <2>5, <3>1, <3>2
  <2>7. e.slice = [d.slice EXCEPT ![j + 1] = s[q + 1], ![q + 1] = s[i + 1]]
    BY <2>2, <2>6 DEF Swap
  <2> DEFINE moved == [Moved(p, n, s, M \cup W) EXCEPT ![q + 1] = s[i + 1]]
  <2>8. /\ e.slice = [k \in 1 .. n |-> e.slice[k]]
        /\ moved = [k \in 1 .. n |-> moved[k]]
    BY <2>1, <2>7 DEF Moved
  <2>9. ASSUME NEW k \in 1 .. n
        PROVE  e.slice[k] = moved[k]
    <3>1. k - 1 \in Indices(n)
      BY DEF Indices, SorterInputs
    <3>2. CASE k = q + 1
      BY <2>1, <2>4, <2>7, <3>2 DEF Moved
    <3>3. CASE k = j + 1
      <4>1. k - 1 = j /\ k # q + 1
        BY <1>1, <2>4, <3>3 DEF Indices
      <4> QED BY <2>1, <2>4, <2>7, <3>3, <4>1, <1>1, <2>3 DEF Moved
    <3>4. CASE k # q + 1 /\ k # j + 1
      <4>1. k - 1 \in M \cup W <=> k - 1 \in M \cup V
        BY <3>1, <3>4, <1>1, <2>3 DEF Indices
      <4> QED BY <2>1, <2>7, <3>4, <4>1 DEF Moved
    <3> QED BY <3>2, <3>3, <3>4
  <2>10. e.slice = moved
    <3> HIDE DEF moved
    <3> QED BY <2>8, <2>9
  <2> QED BY <2>10
<1>8. e \in PermutationCycles(n, R)
  <2>1. MarkedIndices(p, n, M \cup W) \in [Indices(n) -> Nat] /\ Moved(p, n, s, M \cup W) \in [1 .. n -> R]
    BY MarksAndMoves
  <2>2. s[i + 1] \in R
    BY DEF SorterInputs, Indices
  <2>3. e.indices \in [Indices(n) -> Nat] /\ e.slice \in [1 .. n -> R]
    BY <1>6, <1>7, <2>1, <2>2
  <2>4. e = [indices |-> e.indices, slice |-> e.slice, j |-> e.j, jIdx |-> e.jIdx]
    BY <1>4
  <2>5. e.j \in Indices(n) /\ e.jIdx \in Indices(n)
    BY <1>1, <1>3, <1>5
  <2> QED BY <2>3, <2>4, <2>5 DEF PermutationCycles
<1>9. /\ W \in SUBSET Indices(n) /\ W \cap M = {}
      /\ e.j \in Indices(n) /\ e.j \notin M \cup W
      /\ i \in W \cup {e.j}
      /\ \A k \in W : p[k] \in W \cup {e.j}
      /\ \A k \in Indices(n) : p[k] \in W \cup {e.j} /\ p[k] # i => k \in W
  BY <1>1, <1>2, <1>3, <1>5 DEF Following
<1> QED BY <1>5, <1>6, <1>7, <1>8, <1>9 DEF Following, e

(* The form of the recursive function of FollowCycle.                      *)
IsFollowing(f, n, start, i) ==
  f = [k \in 0 .. n |-> IF k = 0 THEN start ELSE FollowOnce(f[k - 1], i)]

(* After as many steps as there are elements, the cycle is at its end.     *)
LEMMA CycleEnds ==
  ASSUME NEW n, NEW p, NEW R, NEW s, SorterInputs(p, n, R, s),
         NEW M, Closed(p, n, M), NEW i \in Indices(n), i \notin M,
         NEW start \in PermutationCycles(n, R), Following(start, p, n, s, M, {}, i)
  PROVE  LET f == CHOOSE f : IsFollowing(f, n, start, i)
         IN  \E V : f[n] \in PermutationCycles(n, R) /\ Following(f[n], p, n, s, M, V, i) /\ f[n].jIdx = i
<1> DEFINE T == {d \in PermutationCycles(n, R) : \E V : Following(d, p, n, s, M, V, i)}
           step == [k \in 1 .. n |-> [d \in T |-> FollowOnce(d, i)]]
           f == CHOOSE f : IsFollowing(f, n, start, i)
<1>1. n \in Nat
  BY DEF SorterInputs
<1>2. start \in T
  OBVIOUS
<1>3. ASSUME NEW d \in T PROVE FollowOnce(d, i) \in T
  <2>1. PICK V : Following(d, p, n, s, M, V, i)
    BY <1>3
  <2>2. CASE d.jIdx = i
    BY <2>2 DEF FollowOnce
  <2>3. CASE d.jIdx # i
    BY <2>1, <2>3, FollowsOnce
  <2> QED BY <2>2, <2>3
<1> HIDE DEF T
<1>4. step \in [1 .. n -> [T -> T]]
  BY <1>3
<1>5. PICK h : Iterates(h, n, T, start, step)
  <2> HIDE DEF step
  <2> QED BY <1>1, <1>2, <1>4, RecursionExists
<1>6. IsFollowing(h, n, start, i)
  <2>1. h \in [0 .. n -> T] /\ h[0] = start /\ \A k \in 1 .. n : h[k] = step[k][h[k - 1]]
    BY <1>5 DEF Iterates
  <2>2. ASSUME NEW k \in 1 .. n PROVE h[k] = FollowOnce(h[k - 1], i)
    <3>1. h[k - 1] \in T
      BY <1>1, <2>1
    <3> QED BY <2>1, <3>1
  <2> HIDE DEF step
  <2>3. \A k \in 0 .. n : h[k] = IF k = 0 THEN start ELSE FollowOnce(h[k - 1], i)
    BY <2>1, <2>2
  <2> QED BY <2>1, <2>3 DEF IsFollowing
<1>7. IsFollowing(f, n, start, i)
  BY <1>6
<1> HIDE DEF f, step
<1>8. f[0] = start /\ \A k \in 1 .. n : f[k] = FollowOnce(f[k - 1], i)
  BY <1>1, <1>7 DEF IsFollowing
<1> DEFINE At(t, V) ==
             /\ f[t] \in PermutationCycles(n, R) /\ Following(f[t], p, n, s, M, V, i)
             /\ f[t].jIdx = i \/ (IsFiniteSet(V) /\ Cardinality(V) = t)
           S == {t \in 0 .. n : \E V : At(t, V)}
<1>9. 0 \in S
  <2>1. At(0, {})
    BY <1>8, FS_EmptySet
  <2> HIDE DEF At
  <2> QED BY <2>1, <1>1
<1>10. ASSUME NEW t \in 1 .. n, t - 1 \in S PROVE t \in S
  <2>1. PICK V : At(t - 1, V)
    BY <1>10
  <2>2. CASE f[t - 1].jIdx = i
    <3>1. f[t] = f[t - 1]
      BY <1>8, <2>2 DEF FollowOnce
    <3>2. At(t, V)
      BY <2>1, <2>2, <3>1
    <3> HIDE DEF At
    <3> QED BY <3>2
  <2>3. CASE f[t - 1].jIdx # i
    <3> DEFINE W == V \cup {f[t - 1].j}
    <3>1. f[t] \in PermutationCycles(n, R) /\ Following(f[t], p, n, s, M, W, i)
      <4>1. f[t] = FollowOnce(f[t - 1], i)
        BY <1>8
      <4>2. f[t - 1] \in PermutationCycles(n, R) /\ Following(f[t - 1], p, n, s, M, V, i)
        BY <2>1
      <4>3. PICK d \in PermutationCycles(n, R) : d = f[t - 1]
        BY <4>2
      <4> HIDE DEF f, W, At, S
      <4>4. Following(d, p, n, s, M, V, i) /\ d.jIdx # i
        BY <4>2, <4>3, <2>3
      <4>5. /\ FollowOnce(d, i) \in PermutationCycles(n, R)
            /\ Following(FollowOnce(d, i), p, n, s, M, V \cup {d.j}, i)
        BY <4>4, FollowsOnce
      <4>6. W = V \cup {d.j}
        BY <4>3 DEF W
      <4> QED BY <4>1, <4>3, <4>5, <4>6
    <3>2. IsFiniteSet(V) /\ Cardinality(V) = t - 1 /\ f[t - 1].j \notin V
      BY <2>1, <2>3 DEF Following
    <3>3. IsFiniteSet(W) /\ Cardinality(W) = (t - 1) + 1
      BY <3>2, FS_AddElement
    <3>4. At(t, W)
      <4>1. (t - 1) + 1 = t
        OBVIOUS
      <4> HIDE DEF W
      <4> QED BY <3>1, <3>3, <4>1
    <3> HIDE DEF At
    <3> QED BY <3>4
  <2> QED BY <2>2, <2>3
<1> HIDE DEF S
<1>11. \A t \in 0 .. n : t \in S
  BY <1>1, <1>9, <1>10, IntervalIsReached
<1>12. PICK V : At(n, V)
  BY <1>1, <1>11 DEF S
<1>13. f[n].jIdx = i
  <2> SUFFICES ASSUME f[n].jIdx # i PROVE FALSE
    OBVIOUS
  <2>1. IsFiniteSet(V) /\ Cardinality(V) = n
    BY <1>12
  <2>2. IsFiniteSet(Indices(n)) /\ Cardinality(Indices(n)) = n
    BY <1>1, IndicesAreFinite
  <2>3. V \in SUBSET Indices(n) /\ f[n].j \in Indices(n) /\ f[n].j \notin V
    BY <1>12 DEF Following
  <2>4. V = Indices(n)
    BY <2>1, <2>2, <2>3, FS_Subset
  <2> QED BY <2>3, <2>4
<1> QED BY <1>12, <1>13 DEF f

(* A cycle that was not done with is, after it was followed.               *)
LEMMA CycleIsFollowed ==
  ASSUME NEW n, NEW p, NEW R, NEW s, SorterInputs(p, n, R, s),
         NEW M, Closed(p, n, M), NEW i \in Indices(n), i \notin M
  PROVE  \E N : Closed(p, n, N) /\ M \cup {i} \subseteq N
               /\ FollowCycle(PlacedSo(p, n, s, M), i) = PlacedSo(p, n, s, N)
<1> DEFINE c == PlacedSo(p, n, s, M)
           start == [indices |-> c.indices, slice |-> c.slice, j |-> i, jIdx |-> c.indices[i]]
           f == CHOOSE f : IsFollowing(f, n, start, i)
<1>1. /\ n \in Nat /\ p \in [Indices(n) -> Indices(n)]
      /\ \A k \in Indices(n) : k \in Nat /\ k + 1 \in 1 .. n /\ (k + 1) - 1 = k
  <2>1. n \in Nat /\ p \in [Indices(n) -> Indices(n)]
    BY DEF SorterInputs, IsPermutation
  <2>2. ASSUME NEW k \in Indices(n) PROVE k \in Nat /\ k + 1 \in 1 .. n /\ (k + 1) - 1 = k
    BY <2>1 DEF Indices
  <2> QED BY <2>1, <2>2
<1>2. c.indices = MarkedIndices(p, n, M) /\ c.slice = Moved(p, n, s, M)
  BY DEF PlacedSo
<1>3. c.indices \in [Indices(n) -> Nat] /\ c.slice \in [1 .. n -> R]
  BY <1>2, MarksAndMoves
<1>4. Len(c.slice) = n
  BY <1>1, <1>3
<1> HIDE DEF c
<1>5. c.indices[i] = p[i]
  BY <1>2 DEF MarkedIndices
<1>6. i + 1 \in 1 .. n /\ (i + 1) - 1 = i
  BY <1>1 DEF Indices
<1>7. start \in PermutationCycles(n, R)
  BY <1>1, <1>3, <1>5 DEF PermutationCycles
<1>8. Following(start, p, n, s, M, {}, i)
  <2>1. c.slice[i + 1] = s[i + 1]
    BY <1>2, <1>6 DEF Moved
  <2>2. c.slice = [c.slice EXCEPT ![i + 1] = s[i + 1]]
    BY <1>3, <2>1
  <2>3. M \cup {} = M
    OBVIOUS
  <2>4. start.slice = [Moved(p, n, s, M \cup {}) EXCEPT ![start.j + 1] = s[i + 1]]
    BY <1>2, <2>2, <2>3
  <2>5. start.indices = MarkedIndices(p, n, M \cup {}) /\ start.j = i /\ start.jIdx = p[i]
    BY <1>2, <1>5, <2>3
  <2> HIDE DEF start
  <2> QED BY <2>4, <2>5 DEF Following
<1> HIDE DEF start
<1>9. PICK V : f[n] \in PermutationCycles(n, R) /\ Following(f[n], p, n, s, M, V, i) /\ f[n].jIdx = i
  BY <1>7, <1>8, CycleEnds
<1> DEFINE last == f[n]
           N == M \cup V \cup {last.j}
<1>10. FollowCycle(c, i) = [ indices |-> [last.indices EXCEPT ![last.j] = ToggleMarkIdx(last.jIdx)],
                             slice   |-> last.slice ]
  BY <1>4 DEF FollowCycle, IsFollowing, start
<1> HIDE DEF f
<1>11. /\ last.j \in Indices(n) /\ last.j \notin M \cup V /\ p[last.j] = i
       /\ V \in SUBSET Indices(n)
  BY <1>9 DEF Following
<1>12. Closed(p, n, N)
  <2>1. N \in SUBSET Indices(n)
    BY <1>11 DEF Closed
  <2>2. ASSUME NEW k \in Indices(n) PROVE p[k] \in N <=> k \in N
    <3>1. \A a, b \in Indices(n) : p[a] = p[b] => a = b
      BY DEF SorterInputs, IsPermutation
    <3>2. CASE p[k] = i
      <4>1. k = last.j
        BY <1>11, <3>1, <3>2
      <4>2. i \in N
        BY <1>9 DEF Following
      <4> QED BY <3>2, <4>1, <4>2
    <3>3. CASE p[k] # i
      <4>1. k # last.j
        BY <1>11, <3>3
      <4>2. p[k] \in V \cup {last.j} <=> k \in V
        BY <1>9, <3>3 DEF Following
      <4> QED BY <4>1, <4>2 DEF Closed
    <3> QED BY <3>2, <3>3
  <2> QED BY <2>1, <2>2 DEF Closed
<1>13. last.slice = Moved(p, n, s, N)
  <2> DEFINE was == Moved(p, n, s, M \cup V)
             will == Moved(p, n, s, N)
  <2>1. last.slice = [was EXCEPT ![last.j + 1] = s[i + 1]]
    BY <1>9 DEF Following
  <2>2. was \in [1 .. n -> R] /\ will \in [1 .. n -> R]
    BY MarksAndMoves
  <2>3. last.j + 1 \in 1 .. n /\ (last.j + 1) - 1 = last.j
    BY <1>1, <1>11
  <2>4. will[last.j + 1] = s[i + 1]
    BY <1>11, <2>3 DEF Moved
  <2>5. ASSUME NEW k \in 1 .. n, k # last.j + 1 PROVE will[k] = was[k]
    <3>1. k - 1 # last.j
      <4> HIDE DEF last, N, was, will
      <4>1. last.j \in Int
        BY <1>1, <1>11 DEF Indices
      <4> QED BY <4>1, <2>5
    <3> QED BY <3>1 DEF Moved
  <2> HIDE DEF was, will, last, N
  <2>6. last.slice \in [1 .. n -> R] /\ \A k \in 1 .. n : last.slice[k] = will[k]
    <3>1. s[i + 1] \in R
      BY <1>6 DEF SorterInputs
    <3> QED BY <2>1, <2>2, <2>3, <2>4, <2>5, <3>1
  <2>7. last.slice = will
    <3>1. /\ will = [k \in 1 .. n |-> will[k]]
          /\ last.slice = [k \in 1 .. n |-> last.slice[k]]
      BY <2>2, <2>6
    <3> QED BY <2>6, <3>1
  <2> QED BY <2>7 DEF will
<1>14. [last.indices EXCEPT ![last.j] = ToggleMarkIdx(last.jIdx)] = MarkedIndices(p, n, N)
  <2>1. ToggleMarkIdx(last.jIdx) = p[last.j] + TopBit
    BY <1>9, <1>11 DEF ToggleMarkIdx, IdxIsMarked, TopBit, SorterInputs, Indices
  <2>2. last.indices = MarkedIndices(p, n, M \cup V)
    BY <1>9 DEF Following
  <2> QED BY <1>11, <2>1, <2>2 DEF MarkedIndices
<1>15. M \cup {i} \subseteq N
  BY <1>9 DEF Following
<1> HIDE DEF N
<1>16. FollowCycle(c, i) = PlacedSo(p, n, s, N)
  BY <1>10, <1>13, <1>14 DEF PlacedSo
<1> QED BY <1>12, <1>15, <1>16 DEF c

(* The form of the recursive function of VisitAll.                         *)
IsVisited(f, n, start) ==
  f = [i \in 0 .. n |-> IF i = 0 THEN start ELSE Visit(f[i - 1], i - 1)]

(* When every index was visited, every place is filled.                    *)
LEMMA AllAreVisited ==
  ASSUME NEW n, NEW p, NEW R, NEW s, SorterInputs(p, n, R, s)
  PROVE  VisitAll(p, s) = PlacedSo(p, n, s, Indices(n))
<1> DEFINE start == [indices |-> p, slice |-> s]
           T == {c \in {PlacedSo(p, n, s, M) : M \in SUBSET Indices(n)} :
                   \E M \in SUBSET Indices(n) : Closed(p, n, M) /\ c = PlacedSo(p, n, s, M)}
           step == [i \in 1 .. n |-> [c \in T |-> Visit(c, i - 1)]]
           f == CHOOSE f : IsVisited(f, n, start)
<1>1. /\ n \in Nat /\ n <= TopBit /\ p \in [Indices(n) -> Indices(n)] /\ s \in [1 .. n -> R]
      /\ \A a, b \in Indices(n) : p[a] = p[b] => a = b
  BY DEF SorterInputs, IsPermutation
<1>2. /\ \A k \in Indices(n) : k \in Nat /\ k < n
      /\ \A k \in 1 .. n : k - 1 \in Indices(n) /\ k - 1 \in 0 .. n
  BY <1>1 DEF Indices
<1>3. start = PlacedSo(p, n, s, {})
  <2>1. p = MarkedIndices(p, n, {})
    BY <1>1 DEF MarkedIndices
  <2>2. s = Moved(p, n, s, {})
    BY <1>1 DEF Moved
  <2> QED BY <2>1, <2>2 DEF PlacedSo
<1>4. Closed(p, n, {})
  BY DEF Closed
<1>5. start \in T
  BY <1>3, <1>4
<1>6. ASSUME NEW M, Closed(p, n, M), NEW i \in Indices(n)
      PROVE  \E N : Closed(p, n, N) /\ M \cup {i} \subseteq N
                   /\ Visit(PlacedSo(p, n, s, M), i) = PlacedSo(p, n, s, N)
  <2>1. PlacedSo(p, n, s, M).indices[i] = IF i \in M THEN p[i] + TopBit ELSE p[i]
    BY DEF PlacedSo, MarkedIndices
  <2>2. p[i] \in Nat /\ p[i] < TopBit /\ TopBit \in Nat
    BY <1>1, <1>2 DEF TopBit
  <2>3. IdxIsMarked(PlacedSo(p, n, s, M).indices[i]) <=> i \in M
    BY <2>1, <2>2 DEF IdxIsMarked
  <2>4. CASE i \in M
    <3>1. Visit(PlacedSo(p, n, s, M), i) = PlacedSo(p, n, s, M)
      BY <2>3, <2>4 DEF Visit
    <3> QED BY <1>6, <2>4, <3>1
  <2>5. CASE i \notin M
    <3>1. Visit(PlacedSo(p, n, s, M), i) = FollowCycle(PlacedSo(p, n, s, M), i)
      BY <2>3, <2>5 DEF Visit
    <3> QED BY <1>6, <2>5, <3>1, CycleIsFollowed
  <2> QED BY <2>4, <2>5
<1>7. ASSUME NEW c \in T, NEW i \in Indices(n) PROVE Visit(c, i) \in T
  <2>1. PICK M : Closed(p, n, M) /\ c = PlacedSo(p, n, s, M)
    OBVIOUS
  <2>2. PICK N : Closed(p, n, N) /\ Visit(c, i) = PlacedSo(p, n, s, N)
    BY <1>6, <2>1
  <2>3. N \in SUBSET Indices(n)
    BY <2>2 DEF Closed
  <2> QED BY <2>2, <2>3
<1> HIDE DEF T
<1>8. step \in [1 .. n -> [T -> T]]
  BY <1>2, <1>7
<1>9. PICK h : Iterates(h, n, T, start, step)
  <2> HIDE DEF step, start
  <2> QED BY <1>1, <1>5, <1>8, RecursionExists
<1>10. IsVisited(h, n, start)
  <2>1. h \in [0 .. n -> T] /\ h[0] = start /\ \A k \in 1 .. n : h[k] = step[k][h[k - 1]]
    BY <1>9 DEF Iterates
  <2>2. ASSUME NEW k \in 1 .. n PROVE h[k] = Visit(h[k - 1], k - 1)
    <3>1. h[k - 1] \in T
      BY <1>2, <2>1
    <3> QED BY <2>1, <3>1
  <2> HIDE DEF step, start
  <2>3. \A k \in 0 .. n : h[k] = IF k = 0 THEN start ELSE Visit(h[k - 1], k - 1)
    BY <1>1, <2>1, <2>2
  <2> QED BY <2>1, <2>3 DEF IsVisited
<1>11. IsVisited(f, n, start)
  BY <1>10
<1>12. VisitAll(p, s) = f[n]
  <2>1. Len(s) = n
    BY <1>1
  <2> QED BY <2>1 DEF VisitAll, IsVisited
<1> HIDE DEF f, step, start
<1>13. f[0] = start /\ \A k \in 1 .. n : f[k] = Visit(f[k - 1], k - 1)
  BY <1>1, <1>11 DEF IsVisited
<1> DEFINE At(t, M) == Closed(p, n, M) /\ 0 .. t - 1 \subseteq M /\ f[t] = PlacedSo(p, n, s, M)
           S == {t \in 0 .. n : \E M : At(t, M)}
<1>14. 0 \in S
  <2>1. At(0, {})
    BY <1>3, <1>4, <1>13
  <2> HIDE DEF At
  <2> QED BY <2>1, <1>1
<1>15. ASSUME NEW t \in 1 .. n, t - 1 \in S PROVE t \in S
  <2>1. PICK M : At(t - 1, M)
    BY <1>15
  <2>2. PICK N : Closed(p, n, N) /\ M \cup {t - 1} \subseteq N /\ f[t] = PlacedSo(p, n, s, N)
    BY <1>2, <1>6, <1>13, <2>1
  <2>3. 0 .. t - 1 \subseteq N
    <3>1. \A k \in 0 .. t - 1 : k = t - 1 \/ k \in 0 .. (t - 1) - 1
      OBVIOUS
    <3> QED BY <2>1, <2>2, <3>1
  <2>4. At(t, N)
    BY <2>2, <2>3
  <2> HIDE DEF At
  <2> QED BY <2>4
<1> HIDE DEF S
<1>16. \A t \in 0 .. n : t \in S
  BY <1>1, <1>14, <1>15, IntervalIsReached
<1>17. PICK M : At(n, M)
  BY <1>1, <1>16 DEF S
<1>18. M = Indices(n)
  BY <1>17 DEF Closed, Indices
<1> QED BY <1>12, <1>17, <1>18

(* sort() puts every element into its place.                               *)
LEMMA SortMoves ==
  ASSUME NEW n, NEW p, NEW R, NEW s, SorterInputs(p, n, R, s), NEW sorter,
         ResetMarks(sorter) = p
  PROVE  Sort(sorter, s).slice = Moved(p, n, s, Indices(n))
BY AllAreVisited DEF Sort, Sorted, PlacedSo

(* It marks every entry, and the marks can be removed again.               *)
LEMMA MarksAreRemoved ==
  ASSUME NEW n, NEW p, NEW R, NEW s, SorterInputs(p, n, R, s), NEW sorter,
         ResetMarks(sorter) = p
  PROVE  ResetMarks(Sort(sorter, s).sorter) = p
<1>1. n \in Nat /\ n <= TopBit /\ p \in [Indices(n) -> Indices(n)]
  BY DEF SorterInputs, IsPermutation
<1>2. \A k \in Indices(n) : p[k] \in Nat /\ p[k] < n
  <2>1. ASSUME NEW k \in Indices(n) PROVE p[k] \in Nat /\ p[k] < n
    <3>1. p[k] \in Indices(n)
      BY <1>1
    <3> QED BY <1>1, <3>1 DEF Indices
  <2> QED BY <2>1
<1> DEFINE marked == [k \in Indices(n) |-> p[k] + TopBit]
<1>3. Sort(sorter, s).sorter = [indices |-> marked, should_reset |-> TRUE]
  <2>1. Sort(sorter, s).sorter = [indices |-> PlacedSo(p, n, s, Indices(n)).indices, should_reset |-> TRUE]
    BY AllAreVisited DEF Sort, Sorted
  <2>2. PlacedSo(p, n, s, Indices(n)).indices = marked
    BY DEF PlacedSo, MarkedIndices
  <2> QED BY <2>1, <2>2
<1>4. ResetMarks(Sort(sorter, s).sorter) = [k \in Indices(n) |-> ToggleMarkIdx(p[k] + TopBit)]
  BY <1>3 DEF ResetMarks
<1>5. \A k \in Indices(n) : ToggleMarkIdx(p[k] + TopBit) = p[k]
  BY <1>1, <1>2 DEF ToggleMarkIdx, IdxIsMarked, TopBit
<1> QED BY <1>1, <1>4, <1>5

(* A list whose places are filled from the positions `to` names.           *)
Permuted(list, to, n) == [k \in 1 .. n |-> list[to[k]]]

IsList(list, n) == \E A : list \in [1 .. n -> A]

AreMovedTogether(keys, one, other, n) ==
  LET first == Sort(NewStable(keys), one)
      second == Sort(first.sorter, other)
  IN  \E to \in [1 .. n -> 1 .. n] :
        /\ \A a, b \in 1 .. n : a < b => Precedes(keys, to[a], to[b])
        /\ first.slice = Permuted(one, to, n)
        /\ second.slice = Permuted(other, to, n)

(* Sorting one list by its keys and then another with the same sorter      *)
(* brings both into the order of the keys, those of one key as they were.  *)
THEOREM BothListsAreMoved ==
  ASSUME NEW n \in Nat, n <= TopBit, NEW keys \in [1 .. n -> Int],
         NEW one, IsList(one, n), NEW other, IsList(other, n)
  PROVE  AreMovedTogether(keys, one, other, n)
<1> DEFINE held == NewStable(keys)
           p == held.indices
           first == Sort(held, one)
           to == [k \in 1 .. n |-> p[k - 1] + 1]
<1>1. /\ IsPermutation(p, n)
      /\ \A a, b \in Indices(n) : a < b => Precedes(keys, p[a] + 1, p[b] + 1)
  BY NewStableOrders
<1>2. ResetMarks(held) = p
  BY DEF ResetMarks, NewStable
<1> HIDE DEF p, held
<1> PICK A, B : one \in [1 .. n -> A] /\ other \in [1 .. n -> B]
  BY DEF IsList
<1>3. SorterInputs(p, n, A, one) /\ SorterInputs(p, n, B, other)
  BY <1>1 DEF SorterInputs
<1>4. first.slice = Moved(p, n, one, Indices(n)) /\ ResetMarks(first.sorter) = p
  BY <1>2, <1>3, SortMoves, MarksAreRemoved
<1> HIDE DEF first
<1>5. Sort(first.sorter, other).slice = Moved(p, n, other, Indices(n))
  BY <1>3, <1>4, SortMoves
<1>6. \A k \in 1 .. n : k - 1 \in Indices(n) /\ p[k - 1] + 1 \in 1 .. n
  <2>1. \A k \in 1 .. n : k - 1 \in Indices(n)
    BY DEF Indices
  <2>2. \A i \in Indices(n) : p[i] \in Indices(n)
    BY <1>1 DEF IsPermutation
  <2>3. \A i \in Indices(n) : i + 1 \in 1 .. n
    BY DEF Indices
  <2> QED BY <2>1, <2>2, <2>3
<1>7. to \in [1 .. n -> 1 .. n]
  BY <1>6
<1>8. \A a, b \in 1 .. n : a < b => Precedes(keys, to[a], to[b])
  BY <1>1, <1>6
<1>9. /\ first.slice = Permuted(one, to, n)
      /\ Sort(first.sorter, other).slice = Permuted(other, to, n)
  BY <1>4, <1>5, <1>6 DEF Moved, Permuted
<1> HIDE DEF to
<1> QED BY <1>7, <1>8, <1>9 DEF first, held, AreMovedTogether
=============================================================================
