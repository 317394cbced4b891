------------------------------ MODULE Induction ------------------------------
(***************************************************************************)
(* What the proofs about loops and recursive functions need: induction     *)
(* over natural numbers and intervals, recursions that exist, running      *)
(* totals and intervals of numbers.                                        *)
(*                                                                         *)
(* Induction is stated over sets, S being the numbers that have a          *)
(* property: a theorem whose parameter is an operator cannot be            *)
(* instantiated by the provers in use. What it rests on is that < is well  *)
(* founded on the natural numbers.                                         *)
(***************************************************************************)
EXTENDS Arithmetic, WellFoundedInduction, SequenceTheorems, TLAPS

(* Every set of natural numbers that is not empty has a smallest one.      *)
LEMMA SmallestExists ==
  ASSUME NEW S \in SUBSET Nat, S # {}
  PROVE  \E m \in S : \A y \in S : m <= y
<1> DEFINE R == {ss \in Nat \X Nat : ss[1] < ss[2]}
<1>1. IsWellFoundedOn(R, Nat)
  BY NatLessThanWellFounded DEF OpToRel
<1> HIDE DEF R
<1>2. PICK m \in S : \A y \in S : <<y, m>> \notin R
  BY <1>1, WFMin
<1>3. \A y \in S : ~(y < m)
  BY <1>2 DEF R
<1> QED BY <1>3

(* What holds for 0, and for n + 1 when it holds for n, holds for all.     *)
LEMMA NaturalsAreReached ==
  ASSUME NEW S, 0 \in S, \A n \in Nat : n \in S => n + 1 \in S
  PROVE  Nat \subseteq S
<1> DEFINE T == Nat \ S
<1> SUFFICES ASSUME T # {} PROVE FALSE
  OBVIOUS
<1>1. T \in SUBSET Nat
  OBVIOUS
<1> HIDE DEF T
<1>2. PICK m \in T : \A y \in T : m <= y
  BY <1>1, SmallestExists
<1>3. m - 1 \in T
  BY <1>2 DEF T
<1> QED BY <1>1, <1>2, <1>3

(* The same along an interval.                                             *)
LEMMA IntervalIsReached ==
  ASSUME NEW n \in Nat, NEW S, 0 \in S,
         \A i \in 1 .. n : i - 1 \in S => i \in S
  PROVE  \A i \in 0 .. n : i \in S
<1> DEFINE R == {i \in Nat : i <= n => i \in S}
<1>1. 0 \in R
  OBVIOUS
<1>2. ASSUME NEW i \in Nat, i \in R PROVE i + 1 \in R
  <2>1. CASE i + 1 <= n
    <3>1. i + 1 \in 1 .. n /\ (i + 1) - 1 = i
      BY <2>1
    <3> QED BY <1>2, <2>1, <3>1
  <2>2. CASE ~ (i + 1 <= n)
    BY <2>2
  <2> QED BY <2>1, <2>2
<1> HIDE DEF R
<1>3. Nat \subseteq R
  BY <1>1, <1>2, NaturalsAreReached
<1> QED BY <1>3 DEF R

Iterates(f, n, T, a, step) ==
  f \in [0 .. n -> T] /\ f[0] = a /\ (\A i \in 1 .. n : f[i] = step[i][f[i - 1]])

(* A recursive function over 0 .. n exists, and is total, whatever its step. *)
LEMMA RecursionExists ==
  ASSUME NEW n \in Nat, NEW T, NEW a \in T, NEW step \in [1 .. n -> [T -> T]]
  PROVE  \E f : Iterates(f, n, T, a, step)
<1> DEFINE Follows(f, k) ==
             f \in [0 .. k -> T] /\ f[0] = a /\ (\A i \in 1 .. k : f[i] = step[i][f[i - 1]])
           Reached == {k \in 0 .. n : \E f : Follows(f, k)}
<1>1. 0 \in Reached
  <2>1. Follows([i \in 0 .. 0 |-> a], 0)
    OBVIOUS
  <2> HIDE DEF Follows
  <2> QED BY <2>1
<1>2. ASSUME NEW k \in 1 .. n, k - 1 \in Reached PROVE k \in Reached
  <2>1. PICK f : Follows(f, k - 1)
    BY <1>2
  <2> DEFINE g == [i \in 0 .. k |-> IF i = k THEN step[k][f[k - 1]] ELSE f[i]]
  <2>2. step[k] \in [T -> T] /\ f[k - 1] \in T
    BY <2>1
  <2>3. g \in [0 .. k -> T]
    BY <2>1, <2>2
  <2>4. g[0] = a
    BY <2>1
  <2>5. ASSUME NEW i \in 1 .. k PROVE g[i] = step[i][g[i - 1]]
    BY <2>1
  <2>6. Follows(g, k)
    BY <2>3, <2>4, <2>5
  <2> HIDE DEF Follows, g
  <2> QED BY <2>6
<1> HIDE DEF Reached
<1> HIDE DEF Follows
<1>3. \A k \in 1 .. n : k - 1 \in Reached => k \in Reached
  BY <1>2
<1>4. \A k \in 0 .. n : k \in Reached
  BY <1>1, <1>3, IntervalIsReached
<1>5. \E f : Follows(f, n)
  BY <1>4 DEF Reached
<1> QED BY <1>5 DEF Follows, Iterates

(* f is the running total of w: the form of a recursive function.          *)
IsTotal(f, n, w) == f = [i \in 0 .. n |-> IF i = 0 THEN 0 ELSE f[i - 1] + w[i]]

(* The running total of natural numbers exists ...                         *)
LEMMA TotalExists ==
  ASSUME NEW n \in Nat, NEW w \in [1 .. n -> Nat]
  PROVE  \E f : IsTotal(f, n, w)
<1> DEFINE step == [i \in 1 .. n |-> [t \in Nat |-> t + w[i]]]
<1>1. step \in [1 .. n -> [Nat -> Nat]]
  OBVIOUS
<1>2. \A i \in 1 .. n, t \in Nat : step[i][t] = t + w[i]
  OBVIOUS
<1> HIDE DEF step
<1>3. PICK f : Iterates(f, n, Nat, 0, step)
  BY <1>1, RecursionExists
<1>4. f \in [0 .. n -> Nat] /\ f[0] = 0 /\ \A i \in 1 .. n : f[i] = f[i - 1] + w[i]
  <2>1. f \in [0 .. n -> Nat] /\ f[0] = 0 /\ \A i \in 1 .. n : f[i] = step[i][f[i - 1]]
    BY <1>3 DEF Iterates
  <2>2. ASSUME NEW i \in 1 .. n PROVE f[i - 1] \in Nat
    BY <2>1
  <2> QED BY <1>2, <2>1, <2>2
<1>5. IsTotal(f, n, w)
  BY <1>4 DEF IsTotal
<1> QED BY <1>5

(* ... consists of natural numbers, and never shrinks.                     *)
LEMMA TotalIsNatural ==
  ASSUME NEW n \in Nat, NEW w \in [1 .. n -> Nat], NEW f, IsTotal(f, n, w)
  PROVE  /\ f \in [0 .. n -> Nat] /\ f[0] = 0
         /\ \A i \in 1 .. n : f[i] = f[i - 1] + w[i]
<1> DEFINE S == {i \in 0 .. n : f[i] \in Nat}
<1>1. f[0] = 0 /\ \A i \in 1 .. n : f[i] = f[i - 1] + w[i]
  BY DEF IsTotal
<1>2. 0 \in S /\ \A i \in 1 .. n : i - 1 \in S => i \in S
  BY <1>1
<1> HIDE DEF S
<1>3. \A i \in 0 .. n : i \in S
  BY <1>2, IntervalIsReached
<1>4. \A i \in 0 .. n : f[i] \in Nat
  BY <1>3 DEF S
<1>5. f \in [0 .. n -> Nat]
  BY <1>4 DEF IsTotal
<1> QED BY <1>1, <1>5

(* Running totals of natural numbers never decrease.                     *)
LEMMA TotalGrows ==
  ASSUME NEW n \in Nat, NEW w \in [1 .. n -> Nat],
         NEW f \in [0 .. n -> Nat], \A i \in 1 .. n : f[i] = f[i - 1] + w[i],
         NEW i \in 0 .. n, NEW j \in i .. n
  PROVE  f[i] <= f[j]
<1> DEFINE S == {k \in 0 .. n : k >= i => f[i] <= f[k]}
<1>1. 0 \in S
  OBVIOUS
<1>2. ASSUME NEW k \in 1 .. n, k - 1 \in S PROVE k \in S
  <2>1. f[k] = f[k - 1] + w[k] /\ w[k] \in Nat /\ f[k - 1] \in Nat /\ f[k] \in Nat /\ f[i] \in Nat
    OBVIOUS
  <2>2. CASE k = i
    BY <2>1, <2>2
  <2>3. CASE k # i
    BY <1>2, <2>1, <2>3
  <2> QED BY <2>2, <2>3
<1> HIDE DEF S
<1>3. \A k \in 0 .. n : k \in S
  BY <1>1, <1>2, IntervalIsReached
<1>4. j \in S
  BY <1>3
<1> QED BY <1>4 DEF S

(***************************************************************************)
(* Intervals                                                               *)
(***************************************************************************)

(* The numbers lo .. hi, in order, are a sequence over any set they are in.*)
LEMMA IntervalIsSeq ==
  ASSUME NEW lo \in Int, NEW hi \in Int, hi >= lo - 1,
         NEW S, \A i \in lo .. hi : i \in S
  PROVE  Interval(lo, hi) \in Seq(S) /\ Len(Interval(lo, hi)) = hi - lo + 1
<1>1. hi - lo + 1 \in Nat
  OBVIOUS
<1>2. \A i \in 1 .. hi - lo + 1 : lo + i - 1 \in S
  OBVIOUS
<1>3. Interval(lo, hi) \in [1 .. hi - lo + 1 -> S]
  BY <1>2 DEF Interval
<1> QED BY <1>1, <1>3

(* An interval up to k and one that starts after k join seamlessly.        *)
LEMMA IntervalsJoin ==
  ASSUME NEW k \in Nat, NEW m \in Nat, k <= m
  PROVE  Interval(1, k) \o Interval(k + 1, m) = Interval(1, m)
<1>1. Interval(1, k) = [i \in 1 .. k |-> i]
  BY DEF Interval
<1>2. Interval(k + 1, m) = [i \in 1 .. m - k |-> k + i]
  BY DEF Interval
<1>3. Interval(1, m) = [i \in 1 .. m |-> i]
  BY DEF Interval
<1>4. Interval(1, k) \in Seq(Int) /\ Len(Interval(1, k)) = k
  BY <1>1
<1>5. Interval(k + 1, m) \in Seq(Int) /\ Len(Interval(k + 1, m)) = m - k
  BY <1>2
<1>6. Interval(1, m) \in Seq(Int) /\ Len(Interval(1, m)) = m
  BY <1>3
<1>7. /\ Interval(1, k) \o Interval(k + 1, m) \in Seq(Int)
      /\ Len(Interval(1, k) \o Interval(k + 1, m)) = m
  BY <1>4, <1>5
<1>8. \A i \in 1 .. m : (Interval(1, k) \o Interval(k + 1, m))[i] = Interval(1, m)[i]
  BY <1>1, <1>2, <1>3, <1>4, <1>5
<1> QED BY <1>6, <1>7, <1>8, SeqEqual

(* Appending the next number lengthens an interval.                        *)
LEMMA IntervalGrows ==
  ASSUME NEW k \in Nat
  PROVE  Append(Interval(1, k), k + 1) = Interval(1, k + 1)
<1>1. Interval(1, k) = [i \in 1 .. k |-> i]
  BY DEF Interval
<1>2. Interval(1, k + 1) = [i \in 1 .. k + 1 |-> i]
  BY DEF Interval
<1>3. Interval(1, k) \in Seq(Int) /\ Len(Interval(1, k)) = k
  BY <1>1
<1>4. Interval(1, k + 1) \in Seq(Int) /\ Len(Interval(1, k + 1)) = k + 1
  BY <1>2
<1>5. /\ Append(Interval(1, k), k + 1) \in Seq(Int)
      /\ Len(Append(Interval(1, k), k + 1)) = k + 1
  BY <1>3
<1>6. \A i \in 1 .. k + 1 : Append(Interval(1, k), k + 1)[i] = Interval(1, k + 1)[i]
  BY <1>1, <1>2, <1>3
<1> QED BY <1>4, <1>5, <1>6, SeqEqual

(* An interval that ends before it starts is empty.                        *)
LEMMA IntervalEmpty ==
  ASSUME NEW k \in Int
  PROVE  Interval(k + 1, k) = <<>> /\ Interval(1, 0) = <<>> /\ Interval(1, -1) = <<>>
BY DEF Interval
=============================================================================
