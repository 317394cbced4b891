-------------------------- MODULE ScoreStateProofs ---------------------------
(***************************************************************************)
(* Proofs about the score states that performance calculators generate     *)
(* (ScoreState over HitResults), for every map, every set of options and   *)
(* every order of setters and calls of generate_state.                     *)
(*                                                                         *)
(* The first part is about the hit result generators. IsRequest is what    *)
(* the Inspect structs promise: a number or None for each judgement, and   *)
(* no more misses than hits. Every generator returns a number for every    *)
(* judgement; they add up to the remaining hits; what was given is kept if *)
(* it fits; and a request that is settled, with numbers that add up, is    *)
(* returned as it is. For each generator the lemma that says so ends in    *)
(* AddsUp.                                                                 *)
(*                                                                         *)
(* A state is a function of the attributes and of the options it was asked *)
(* for, which is what the inductive invariant says. So the properties are  *)
(* about that function: what is asked is a request that the first part     *)
(* speaks of, filling up adds what a generator left, the pools of osu!catch*)
(* are balanced one by one, and a state that adds up, stored as options,   *)
(* asks for itself.                                                        *)
(***************************************************************************)
EXTENDS ScoreState, Induction, FiniteSetTheorems

(***************************************************************************)
(* Sums                                                                    *)
(***************************************************************************)

(* What k adds to a sum over D.                                            *)
Part(f, D, k) == IF k \in D THEN f[k] ELSE 0

(* A sum over numbers up to 5 is what they add, in whatever order the      *)
(* elements of the set are chosen.                                         *)
LEMMA SumOf ==
  ASSUME NEW D \in SUBSET (1 .. 5), NEW f, \A k \in D : f[k] \in Int
  PROVE  SumFunctionOnSet(f, D)
           = Part(f, D, 1) + Part(f, D, 2) + Part(f, D, 3) + Part(f, D, 4) + Part(f, D, 5)
<1> DEFINE g(s) == Part(f, s, 1) + Part(f, s, 2) + Part(f, s, 3) + Part(f, s, 4) + Part(f, s, 5)
           pick(s) == CHOOSE x \in s : TRUE
           Folds(h) == h = [s \in SUBSET D |-> IF s = {} THEN 0 ELSE f[pick(s)] + h[s \ {pick(s)}]]
           iter == CHOOSE h : Folds(h)
<1>1. ASSUME NEW s \in SUBSET D, s # {}
      PROVE  pick(s) \in s /\ s \ {pick(s)} \in SUBSET D /\ g(s) = f[pick(s)] + g(s \ {pick(s)})
  <2>1. pick(s) \in s
    BY <1>1
  <2> HIDE DEF pick
  <2>2. \A k \in 1 .. 5 : Part(f, s, k) = IF k = pick(s) THEN f[pick(s)] ELSE Part(f, s \ {pick(s)}, k)
    BY <2>1 DEF Part
  <2>3. \A k \in 1 .. 5 : Part(f, s \ {pick(s)}, k) \in Int
    BY DEF Part
  <2>4. Part(f, s \ {pick(s)}, pick(s)) = 0
    BY DEF Part
  <2>5. f[pick(s)] \in Int /\ pick(s) \in 1 .. 5
    BY <2>1
  <2> DEFINE p == pick(s)
             h == [k \in 1 .. 5 |-> Part(f, s \ {p}, k)]
  <2>6. p \in 1 .. 5 /\ f[p] \in Int /\ h \in [1 .. 5 -> Int] /\ h[p] = 0
    BY <2>3, <2>4, <2>5
  <2>7. g(s \ {p}) = h[1] + h[2] + h[3] + h[4] + h[5]
    OBVIOUS
  <2>8. \A k \in 1 .. 5 : Part(f, s, k) = IF k = p THEN f[p] ELSE h[k]
    BY <2>2
  <2> HIDE DEF p, h
  <2>9. g(s) = (IF 1 = p THEN f[p] ELSE h[1]) + (IF 2 = p THEN f[p] ELSE h[2])
               + (IF 3 = p THEN f[p] ELSE h[3]) + (IF 4 = p THEN f[p] ELSE h[4])
               + (IF 5 = p THEN f[p] ELSE h[5])
    BY <2>8
  <2> HIDE DEF g
  <2>10. g(s) = f[p] + g(s \ {p})
    BY <2>6, <2>7, <2>9
  <2> QED BY <2>1, <2>10 DEF p
<1>2. g({}) = 0
  BY DEF Part
<1>3. Folds([s \in SUBSET D |-> g(s)])
  <2> HIDE DEF g, pick
  <2> QED BY <1>1, <1>2
<1>4. Folds(iter)
  <2> HIDE DEF Folds
  <2> QED BY <1>3
<1> HIDE DEF iter
<1>5. \A s \in SUBSET D : iter[s] = IF s = {} THEN 0 ELSE f[pick(s)] + iter[s \ {pick(s)}]
  BY <1>4
<1> HIDE DEF g, pick, Folds
<1> DEFINE Wrong == {s \in SUBSET D : iter[s] # g(s)}
<1>6. Wrong = {}
  <2> SUFFICES ASSUME Wrong # {} PROVE FALSE
    OBVIOUS
  <2>1. \A s \in SUBSET D : IsFiniteSet(s) /\ Cardinality(s) \in Nat
    <3>1. IsFiniteSet(1 .. 5)
      BY FS_Interval, 1 \in Int, 5 \in Int
    <3>2. \A s \in SUBSET D : s \in SUBSET (1 .. 5)
      OBVIOUS
    <3>3. \A s \in SUBSET D : IsFiniteSet(s)
      BY <3>1, <3>2, FS_Subset
    <3> QED BY <3>3, FS_CardinalityType
  <2> DEFINE Sizes == {Cardinality(s) : s \in Wrong}
  <2>2. Sizes \in SUBSET Nat /\ Sizes # {}
    BY <2>1
  <2>3. PICK m \in Sizes : \A y \in Sizes : m <= y
    BY <2>2, SmallestExists
  <2>4. PICK s \in Wrong : Cardinality(s) = m
    BY <2>3
  <2>5. s # {}
    BY <1>2, <1>5, <2>4
  <2>6. Cardinality(s \ {pick(s)}) = Cardinality(s) - 1
    BY <1>1, <2>1, <2>5, FS_RemoveElement
  <2>7. s \ {pick(s)} \notin Wrong
    <3>1. Cardinality(s) \in Nat
      BY <2>1
    <3>2. ~(m <= Cardinality(s \ {pick(s)}))
      BY <2>4, <2>6, <3>1
    <3> HIDE DEF Wrong
    <3> QED BY <2>3, <3>2
  <2> QED BY <1>1, <1>5, <2>5, <2>7
<1>7. SumFunctionOnSet(f, D) = iter[D]
  BY DEF SumFunctionOnSet, FoldFunctionOnSet, MapThenFoldSet, iter, Folds, pick
<1> QED BY <1>6, <1>7 DEF g

(* There are 2, 3 or 5 judgements; what hit results add up to.             *)
Sizes == {2, 3, 5}
Total(h, J) == h[1] + h[2] + (IF J = 2 THEN 0 ELSE h[3]) + (IF J = 5 THEN h[4] + h[5] ELSE 0)

(* The sum of the community modules is that total.                         *)
LEMMA SumIsTotal ==
  ASSUME NEW J \in Sizes, NEW h \in [1 .. J -> Int]
  PROVE  SumFunction(h) = Total(h, J) /\ Total(h, J) \in Int
<1>1. 1 .. J \in SUBSET (1 .. 5) /\ DOMAIN h = 1 .. J /\ \A k \in 1 .. J : h[k] \in Int
  BY DEF Sizes
<1>2. SumFunctionOnSet(h, 1 .. J)
        = Part(h, 1 .. J, 1) + Part(h, 1 .. J, 2) + Part(h, 1 .. J, 3) + Part(h, 1 .. J, 4)
          + Part(h, 1 .. J, 5)
  BY <1>1, SumOf
<1>3. SumFunction(h) = SumFunctionOnSet(h, 1 .. J)
  BY <1>1 DEF SumFunction
<1>4. CASE J = 2
  BY <1>2, <1>3, <1>4 DEF Part, Total
<1>5. CASE J = 3
  BY <1>2, <1>3, <1>5 DEF Part, Total
<1>6. CASE J = 5
  BY <1>2, <1>3, <1>6 DEF Part, Total
<1> QED BY <1>4, <1>5, <1>6 DEF Sizes

(* Adding to one judgement adds to the total.                              *)
LEMMA AddTotal ==
  ASSUME NEW J \in Sizes, NEW h \in [1 .. J -> Int], NEW k \in 1 .. J, NEW n \in Int
  PROVE  /\ Add(h, k, n) \in [1 .. J -> Int]
         /\ Total(Add(h, k, n), J) = Total(h, J) + n
         /\ Add(h, k, n)[k] = h[k] + n
         /\ \A j \in 1 .. J : j # k => Add(h, k, n)[j] = h[j]
         /\ n = 0 => Add(h, k, n) = h
<1>1. Add(h, k, n) \in [1 .. J -> Int]
  BY DEF Add
<1>2. \A j \in 1 .. J : Add(h, k, n)[j] = IF j = k THEN h[k] + n ELSE h[j]
  BY DEF Add
<1> DEFINE a == Add(h, k, n)
<1>3. a \in [1 .. J -> Int] /\ \A j \in 1 .. J : a[j] = IF j = k THEN h[k] + n ELSE h[j]
  BY <1>1, <1>2
<1> HIDE DEF a
<1>4. Total(a, J) = Total(h, J) + n
  <2>1. CASE J = 2
    BY <1>3, <2>1 DEF Total
  <2>2. CASE J = 3
    BY <1>3, <2>2 DEF Total
  <2>3. CASE J = 5
    BY <1>3, <2>3 DEF Total
  <2> QED BY <2>1, <2>2, <2>3 DEF Sizes
<1>5. n = 0 => a = h
  <2>1. J \in Nat /\ \A j \in 1 .. J : h[j] \in Int
    BY DEF Sizes
  <2> QED BY <1>3, <2>1
<1> QED BY <1>2, <1>3, <1>4, <1>5 DEF a

(***************************************************************************)
(* The numbers given                                                       *)
(***************************************************************************)

(* The judgements of a request, of which there are `J`.                    *)
IsRequest(i, J) ==
  /\ J \in Sizes
  /\ i.given \in [1 .. J -> Nat \cup {None}]
  /\ i.total \in Nat
  /\ i.misses \in 0 .. i.total

(* The numbers given, nothing for the missing ones.                        *)
Amounts(i) == [k \in Judgements(i) |-> IF i.given[k] = None THEN 0 ELSE i.given[k]]

LEMMA RequestParts ==
  ASSUME NEW i, NEW J, IsRequest(i, J)
  PROVE  /\ Judgements(i) = 1 .. J /\ Lowest(i) = J /\ J \in Nat
         /\ Remain(i) \in Nat
         /\ Amounts(i) \in [1 .. J -> Nat]
         /\ Missing(i) \in SUBSET (1 .. J)
         /\ \A k \in 1 .. J : Amounts(i)[k] = IF k \in Missing(i) THEN 0 ELSE i.given[k]
<1>1. J \in Nat /\ Judgements(i) = 1 .. J /\ Lowest(i) = J
  BY DEF IsRequest, Sizes, Judgements, Lowest
<1>2. Remain(i) \in Nat
  BY DEF IsRequest, Remain
<1>3. Amounts(i) \in [1 .. J -> Nat]
  BY <1>1 DEF IsRequest, Amounts
<1>4. \A k \in 1 .. J : k \in Missing(i) <=> i.given[k] = None
  BY <1>1 DEF Missing
<1> QED BY <1>1, <1>2, <1>3, <1>4 DEF Missing, Amounts

(* Taking w after a total of W, of R altogether.                           *)
LEMMA TakeStep ==
  ASSUME NEW R \in Nat, NEW W \in Nat, NEW w \in Nat
  PROVE  /\ Least(W, R) \in 0 .. R
         /\ Least(W, R) + Least(w, R - Least(W, R)) = Least(W + w, R)
         /\ Least(W + w, R) - Least(W, R) \in Nat
         /\ Least(W + w, R) - Least(W, R) <= w
         /\ W + w <= R => Least(W + w, R) - Least(W, R) = w
BY DEF Least

(* The order of the judgements or the reverse one.                         *)
IsOrder(order, J) ==
  /\ order \in [1 .. J -> 1 .. J]
  /\ \/ \A k \in 1 .. J : order[k] = k
     \/ \A k \in 1 .. J : order[k] = J + 1 - k

(* It is its own inverse.                                                  *)
LEMMA OrderOfOrder ==
  ASSUME NEW J \in Nat, NEW order, IsOrder(order, J), NEW k \in 1 .. J
  PROVE  order[k] \in 1 .. J /\ order[order[k]] = k
<1>1. CASE \A j \in 1 .. J : order[j] = j
  BY <1>1 DEF IsOrder
<1>2. CASE \A j \in 1 .. J : order[j] = J + 1 - j
  <2>1. order[k] = J + 1 - k /\ J + 1 - k \in 1 .. J
    BY <1>2
  <2>2. order[J + 1 - k] = J + 1 - (J + 1 - k)
    BY <1>2, <2>1
  <2> QED BY <2>1, <2>2
<1> QED BY <1>1, <1>2 DEF IsOrder

(* Clamped to what is left, in either order, they add up to what was given *)
(* or to all there is, and each is kept if they fit.                       *)
LEMMA ClampIs ==
  ASSUME NEW i, NEW J, IsRequest(i, J), NEW order, IsOrder(order, J)
  PROVE  /\ Clamp(i, order) \in [1 .. J -> Nat]
         /\ Total(Clamp(i, order), J) = Least(Total(Amounts(i), J), Remain(i))
         /\ \A k \in 1 .. J : Clamp(i, order)[k] <= Amounts(i)[k]
         /\ Total(Amounts(i), J) <= Remain(i) => Clamp(i, order) = Amounts(i)
<1> DEFINE R == Remain(i)
           a == Amounts(i)
           w == [n \in 1 .. J |-> a[order[n]]]
           take(n, t) == IF i.given[order[n]] = None THEN 0 ELSE Least(i.given[order[n]], R - t)
           Follows(u) == u = [n \in 0 .. J |-> IF n = 0 THEN 0 ELSE u[n - 1] + take(n, u[n - 1])]
           used == CHOOSE u : Follows(u)
           step == [n \in 1 .. J |-> [t \in 0 .. R |-> t + take(n, t)]]
<1>1. /\ J \in Nat /\ J \in Sizes /\ R \in Nat /\ a \in [1 .. J -> Nat]
      /\ Judgements(i) = 1 .. J /\ Lowest(i) = J
  BY RequestParts DEF IsRequest
<1>2. ASSUME NEW n \in 1 .. J, NEW t \in 0 .. R
      PROVE  take(n, t) = Least(w[n], R - t) /\ t + take(n, t) \in 0 .. R
  <2>1. order[n] \in 1 .. J /\ i.given[order[n]] \in Nat \cup {None}
    BY <1>1, OrderOfOrder DEF IsRequest
  <2>2. w[n] = IF i.given[order[n]] = None THEN 0 ELSE i.given[order[n]]
    BY <1>1, <2>1 DEF Amounts
  <2>3. take(n, t) = Least(w[n], R - t)
    <3>1. Least(0, R - t) = 0
      BY <1>1 DEF Least
    <3> HIDE DEF w, R
    <3> QED BY <2>2, <3>1
  <2>4. w[n] \in Nat
    BY <1>1, <2>1
  <2> HIDE DEF take, w, R
  <2> QED BY <1>1, <2>3, <2>4 DEF Least
<1> HIDE DEF R, a
<1>3. w \in [1 .. J -> Nat]
  BY <1>1, OrderOfOrder
<1> HIDE DEF take, w
<1>4. Follows(used)
  <2>1. step \in [1 .. J -> [0 .. R -> 0 .. R]] /\ 0 \in 0 .. R
    BY <1>1, <1>2
  <2>2. \A n \in 1 .. J, t \in 0 .. R : step[n][t] = t + take(n, t)
    OBVIOUS
  <2> HIDE DEF step
  <2>3. PICK u : Iterates(u, J, 0 .. R, 0, step)
    BY <1>1, <2>1, RecursionExists
  <2>4. u \in [0 .. J -> 0 .. R] /\ u[0] = 0 /\ \A n \in 1 .. J : u[n] = step[n][u[n - 1]]
    BY <2>3 DEF Iterates
  <2>6. \A n \in 1 .. J : u[n] = u[n - 1] + take(n, u[n - 1])
    <3>1. \A n \in 1 .. J : n - 1 \in 0 .. J
      BY <1>1
    <3> QED BY <2>2, <2>4, <3>1
  <2>5. Follows(u)
    BY <1>1, <2>4, <2>6
  <2> HIDE DEF Follows
  <2> QED BY <2>5
<1> HIDE DEF used, step
<1>5. used[0] = 0 /\ \A n \in 1 .. J : used[n] = used[n - 1] + take(n, used[n - 1])
  <2>1. used = [n \in 0 .. J |-> IF n = 0 THEN 0 ELSE used[n - 1] + take(n, used[n - 1])]
    BY <1>4
  <2>2. 0 \in 0 .. J /\ \A n \in 1 .. J : n \in 0 .. J /\ n # 0
    BY <1>1
  <2> QED BY <2>1, <2>2
<1>6. Clamp(i, order) = [k \in 1 .. J |-> used[order[k]] - used[order[k] - 1]]
  BY <1>1 DEF Clamp, used, Follows, take, R
<1> HIDE DEF Follows
<1>7. PICK W : IsTotal(W, J, w)
  BY <1>1, <1>3, TotalExists
<1>8. W \in [0 .. J -> Nat] /\ W[0] = 0 /\ \A n \in 1 .. J : W[n] = W[n - 1] + w[n]
  BY <1>1, <1>3, <1>7, TotalIsNatural, ZenonT(40)
<1>9. \A n \in 0 .. J : used[n] = Least(W[n], R)
  <2> DEFINE S == {n \in 0 .. J : used[n] = Least(W[n], R)}
  <2>1. 0 \in S
    BY <1>1, <1>5, <1>8 DEF Least
  <2>2. ASSUME NEW n \in 1 .. J, n - 1 \in S PROVE n \in S
    <3> DEFINE V == W[n - 1]
               x == w[n]
    <3>1. used[n - 1] = Least(V, R) /\ V \in Nat /\ W[n] = V + x /\ x \in Nat
      BY <1>3, <1>8, <2>2
    <3> HIDE DEF V, x
    <3>2. Least(V, R) \in 0 .. R /\ Least(V, R) + Least(x, R - Least(V, R)) = Least(V + x, R)
      BY <1>1, <3>1, TakeStep
    <3>3. used[n] = used[n - 1] + Least(x, R - used[n - 1])
      BY <1>2, <1>5, <3>1, <3>2 DEF x
    <3> QED BY <3>1, <3>2, <3>3
  <2> HIDE DEF S
  <2>3. \A n \in 0 .. J : n \in S
    BY <1>1, <2>1, <2>2, IntervalIsReached
  <2> QED BY <2>3 DEF S
<1> DEFINE c == Clamp(i, order)
<1>10. ASSUME NEW k \in 1 .. J
       PROVE  /\ c[k] = Least(W[order[k]], R) - Least(W[order[k] - 1], R)
              /\ c[k] \in Nat /\ c[k] <= a[k]
              /\ W[J] <= R => c[k] = a[k]
  <2>1. order[k] \in 1 .. J /\ order[k] - 1 \in 0 .. J /\ w[order[k]] = a[k]
    BY <1>1, OrderOfOrder DEF w
  <2>2. c[k] = Least(W[order[k]], R) - Least(W[order[k] - 1], R)
    BY <1>6, <1>9, <2>1
  <2>3. W[order[k]] <= W[J]
    <3>1. order[k] \in 0 .. J /\ J \in order[k] .. J
      BY <1>1, <2>1
    <3> QED BY <1>1, <1>3, <1>8, <3>1, TotalGrows
  <2>4. /\ W[order[k]] = W[order[k] - 1] + a[k] /\ a[k] \in Nat
        /\ W[order[k] - 1] \in Nat /\ W[J] \in Nat
    <3>1. W[order[k]] = W[order[k] - 1] + w[order[k]]
      BY <1>8, <2>1
    <3>2. J \in 0 .. J
      BY <1>1
    <3> QED BY <1>1, <1>8, <2>1, <3>1, <3>2
  <2> DEFINE V == W[order[k] - 1]
             x == a[k]
  <2>5. /\ Least(V + x, R) - Least(V, R) \in Nat
        /\ Least(V + x, R) - Least(V, R) <= x
        /\ V + x <= R => Least(V + x, R) - Least(V, R) = x
    <3>1. V \in Nat /\ x \in Nat
      BY <2>4
    <3> HIDE DEF V, x
    <3> QED BY <1>1, <3>1, TakeStep
  <2>6. W[J] <= R => V + x <= R
    BY <1>1, <2>3, <2>4
  <2>7. c[k] = Least(V + x, R) - Least(V, R)
    BY <2>2, <2>4
  <2> HIDE DEF c, V, x
  <2> QED BY <2>2, <2>5, <2>6, <2>7 DEF x
<1>11. c \in [1 .. J -> Nat]
  BY <1>6, <1>10
<1>12. Total(c, J) = Least(W[J], R) /\ W[J] = Total(a, J)
  <2>1. c \in [1 .. J -> Int] /\ \A k \in 1 .. J : c[k] = used[order[k]] - used[order[k] - 1]
    BY <1>6, <1>11
  <2>2. \A n \in 0 .. J : used[n] \in Int /\ W[n] \in Int
    BY <1>1, <1>8, <1>9 DEF Least
  <2>3. used[J] = Least(W[J], R) /\ used[0] = 0 /\ W[0] = 0
    BY <1>1, <1>5, <1>8, <1>9
  <2>4. \A n \in 1 .. J : W[n] = W[n - 1] + a[order[n]]
    BY <1>8 DEF w
  <2> HIDE DEF c
  <2>5. CASE J = 2
    <3>1. \/ order[1] = 1 /\ order[2] = 2
          \/ order[1] = 2 /\ order[2] = 1
      BY <2>5 DEF IsOrder
    <3>2. a[1] \in Int /\ a[2] \in Int
      BY <1>1, <2>5
    <3>3. W[1] = W[0] + a[order[1]] /\ W[2] = W[1] + a[order[2]]
      BY <2>4, <2>5
    <3>4. c[1] = used[order[1]] - used[order[1] - 1] /\ c[2] = used[order[2]] - used[order[2] - 1]
      BY <2>1, <2>5
    <3>5. used[0] \in Int /\ used[1] \in Int /\ used[2] \in Int
      BY <2>2, <2>5
    <3>6. W[2] = Total(a, J)
      BY <2>3, <2>5, <3>1, <3>2, <3>3 DEF Total
    <3>7. Total(c, J) = used[2]
      BY <2>3, <2>5, <3>1, <3>4, <3>5 DEF Total
    <3> QED BY <2>3, <2>5, <3>6, <3>7
  <2>6. CASE J = 3
    <3>1. \/ order[1] = 1 /\ order[2] = 2 /\ order[3] = 3
          \/ order[1] = 3 /\ order[2] = 2 /\ order[3] = 1
      BY <2>6 DEF IsOrder
    <3>2. a[1] \in Int /\ a[2] \in Int /\ a[3] \in Int
      BY <1>1, <2>6
    <3>3. W[1] = W[0] + a[order[1]] /\ W[2] = W[1] + a[order[2]] /\ W[3] = W[2] + a[order[3]]
      BY <2>4, <2>6
    <3>4. c[1] = used[order[1]] - used[order[1] - 1] /\ c[2] = used[order[2]] - used[order[2] - 1] /\ c[3] = used[order[3]] - used[order[3] - 1]
      BY <2>1, <2>6
    <3>5. used[0] \in Int /\ used[1] \in Int /\ used[2] \in Int /\ used[3] \in Int
      BY <2>2, <2>6
    <3>6. W[3] = Total(a, J)
      BY <2>3, <2>6, <3>1, <3>2, <3>3 DEF Total
    <3>7. Total(c, J) = used[3]
      BY <2>3, <2>6, <3>1, <3>4, <3>5 DEF Total
    <3> QED BY <2>3, <2>6, <3>6, <3>7
  <2>7. CASE J = 5
    <3>1. \/ order[1] = 1 /\ order[2] = 2 /\ order[3] = 3 /\ order[4] = 4 /\ order[5] = 5
          \/ order[1] = 5 /\ order[2] = 4 /\ order[3] = 3 /\ order[4] = 2 /\ order[5] = 1
      BY <2>7 DEF IsOrder
    <3>2. a[1] \in Int /\ a[2] \in Int /\ a[3] \in Int /\ a[4] \in Int /\ a[5] \in Int
      BY <1>1, <2>7
    <3>3. W[1] = W[0] + a[order[1]] /\ W[2] = W[1] + a[order[2]] /\ W[3] = W[2] + a[order[3]] /\ W[4] = W[3] + a[order[4]] /\ W[5] = W[4] + a[order[5]]
      BY <2>4, <2>7
    <3>4. c[1] = used[order[1]] - used[order[1] - 1] /\ c[2] = used[order[2]] - used[order[2] - 1] /\ c[3] = used[order[3]] - used[order[3] - 1] /\ c[4] = used[order[4]] - used[order[4] - 1] /\ c[5] = used[order[5]] - used[order[5] - 1]
      BY <2>1, <2>7
    <3>5. used[0] \in Int /\ used[1] \in Int /\ used[2] \in Int /\ used[3] \in Int /\ used[4] \in Int /\ used[5] \in Int
      BY <2>2, <2>7
    <3>6. W[5] = Total(a, J)
      BY <2>3, <2>7, <3>1, <3>2, <3>3, SMTT(30) DEF Total
    <3>7. Total(c, J) = used[5]
      <4>1. CASE order[1] = 1 /\ order[2] = 2 /\ order[3] = 3 /\ order[4] = 4 /\ order[5] = 5
        <5>1. /\ c[1] = used[1] - used[0] /\ c[2] = used[2] - used[1] /\ c[3] = used[3] - used[2]
              /\ c[4] = used[4] - used[3] /\ c[5] = used[5] - used[4]
          BY <3>4, <4>1
        <5> QED BY <2>3, <2>7, <3>5, <5>1 DEF Total
      <4>2. CASE order[1] = 5 /\ order[2] = 4 /\ order[3] = 3 /\ order[4] = 2 /\ order[5] = 1
        <5>1. /\ c[1] = used[5] - used[4] /\ c[2] = used[4] - used[3] /\ c[3] = used[3] - used[2]
              /\ c[4] = used[2] - used[1] /\ c[5] = used[1] - used[0]
          BY <3>4, <4>2
        <5> QED BY <2>3, <2>7, <3>5, <5>1 DEF Total
      <4> QED BY <3>1, <4>1, <4>2
    <3> QED BY <2>3, <2>7, <3>6, <3>7
  <2> QED BY <1>1, <2>5, <2>6, <2>7 DEF Sizes
<1>13. W[J] <= R => c = a
  BY <1>1, <1>10, <1>11
<1> QED BY <1>10, <1>11, <1>12, <1>13 DEF R, a

LEMMA Orders ==
  ASSUME NEW i, NEW J, IsRequest(i, J)
  PROVE  IsOrder(BestFirst(i), J) /\ IsOrder(ByPriority(i), J)
<1>1. J \in Nat /\ Judgements(i) = 1 .. J /\ Lowest(i) = J
  BY RequestParts
<1>2. IsOrder(BestFirst(i), J)
  BY <1>1 DEF BestFirst, IsOrder
<1>3. IsOrder([k \in Judgements(i) |-> Lowest(i) + 1 - k], J)
  BY <1>1 DEF IsOrder
<1> QED BY <1>2, <1>3, Zenon DEF ByPriority

(* The first and the last of some judgements exist, are among them ...     *)
LEMMA EndsExist ==
  ASSUME NEW ks \in SUBSET (1 .. 5), ks # {}
  PROVE  (\E x \in ks : \A y \in ks : x <= y) /\ (\E x \in ks : \A y \in ks : x >= y)
<1>1. \E x \in ks : \A y \in ks : x <= y
  <2>1. ks \in SUBSET Nat
    OBVIOUS
  <2> QED BY <2>1, SmallestExists
<1>2. \E x \in ks : \A y \in ks : x >= y
  <2> DEFINE back == {5 - y : y \in ks}
  <2>1. back \in SUBSET Nat /\ back # {}
    <3>1. \A y \in ks : y \in 1 .. 5 /\ 5 - y \in Nat
      OBVIOUS
    <3>2. PICK y \in ks : TRUE
      OBVIOUS
    <3>3. 5 - y \in back
      BY <3>2
    <3> QED BY <3>1, <3>3
  <2>2. PICK m \in back : \A y \in back : m <= y
    BY <2>1, SmallestExists
  <2>3. PICK x \in ks : m = 5 - x
    BY <2>2
  <2>4. ASSUME NEW y \in ks PROVE x >= y
    <3>1. m <= 5 - y
      BY <2>2
    <3> QED BY <2>3, <3>1
  <2> QED BY <2>4
<1> QED BY <1>1, <1>2

LEMMA EndsAreIn ==
  ASSUME NEW ks \in SUBSET (1 .. 5), ks # {}
  PROVE  Min(ks) \in ks /\ Max(ks) \in ks /\ \A i : Preferred(i, ks) \in ks
<1>1. \E x \in ks : \A y \in ks : x <= y
  BY EndsExist
<1>2. \E x \in ks : \A y \in ks : x >= y
  BY EndsExist
<1>3. Min(ks) \in ks
  BY <1>1 DEF Min
<1>4. Max(ks) \in ks
  BY <1>2 DEF Max
<1> QED BY <1>3, <1>4 DEF Preferred

(* ... and bound the others.                                               *)
LEMMA EndsBound ==
  ASSUME NEW ks \in SUBSET (1 .. 5), ks # {}
  PROVE  \A y \in ks : Min(ks) <= y /\ y <= Max(ks)
<1>1. \E x \in ks : \A y \in ks : x <= y
  BY EndsExist
<1>2. \E x \in ks : \A y \in ks : x >= y
  BY EndsExist
<1>3. \A y \in ks : Min(ks) <= y
  BY <1>1 DEF Min
<1>4. \A y \in ks : Max(ks) >= y
  BY <1>2 DEF Max
<1>5. Min(ks) \in Int /\ Max(ks) \in Int /\ \A y \in ks : y \in Int
  <2>1. Min(ks) \in ks /\ Max(ks) \in ks
    BY EndsAreIn
  <2>2. \A y \in ks : y \in Int
    OBVIOUS
  <2> QED BY <2>1, <2>2
<1> QED BY <1>3, <1>4, <1>5

LEMMA PreferredIs ==
  ASSUME NEW i, NEW J, IsRequest(i, J)
  PROVE  /\ Preferred(i, Judgements(i)) \in 1 .. J
         /\ Missing(i) # {} => Preferred(i, Missing(i)) \in Missing(i)
         /\ Missing(i) # {} => Min(Missing(i)) \in Missing(i) /\ Max(Missing(i)) \in Missing(i)
         /\ LastResort(i) \in 1 .. J
<1>1. J \in {2, 3, 5} /\ Judgements(i) = 1 .. J /\ Missing(i) \in SUBSET (1 .. J) /\ Lowest(i) = J
  BY RequestParts DEF IsRequest, Sizes
<1>2. 1 .. J \in SUBSET (1 .. 5) /\ 1 .. J # {} /\ Missing(i) \in SUBSET (1 .. 5)
  BY <1>1
<1>3. LastResort(i) = J \/ LastResort(i) = 1
  BY <1>1 DEF LastResort
<1>4. LastResort(i) \in 1 .. J
  BY <1>1, <1>3
<1>5. Preferred(i, 1 .. J) \in 1 .. J
  BY <1>2, EndsAreIn
<1>6. ASSUME Missing(i) # {}
      PROVE  /\ Preferred(i, Missing(i)) \in Missing(i)
             /\ Min(Missing(i)) \in Missing(i) /\ Max(Missing(i)) \in Missing(i)
  BY <1>2, <1>6, EndsAreIn
<1> QED BY <1>1, <1>4, <1>5, <1>6

(***************************************************************************)
(* What generators promise                                                 *)
(***************************************************************************)

(* Hit results that keep the numbers given, if these fit and leave one to  *)
(* be generated.                                                           *)
Keeps(i, J, hits) ==
  /\ hits \in [1 .. J -> Nat]
  /\ Missing(i) # {} /\ Total(Amounts(i), J) <= Remain(i) =>
       \A k \in 1 .. J : k \notin Missing(i) => hits[k] = i.given[k]

AddsUp(i, J, hits) == Total(hits, J) = Remain(i)

(* A request with all numbers given that add up already.                   *)
Settled(i, J) == Missing(i) = {} /\ Total(i.given, J) = Remain(i)

LEMMA SettledAmounts ==
  ASSUME NEW i, NEW J, IsRequest(i, J)
  PROVE  /\ Missing(i) = {} => Amounts(i) = i.given /\ i.given \in [1 .. J -> Nat]
         /\ Settled(i, J) => Total(Amounts(i), J) = Remain(i)
<1>1. ASSUME Missing(i) = {} PROVE Amounts(i) = i.given /\ i.given \in [1 .. J -> Nat]
  <2>1. Judgements(i) = 1 .. J /\ i.given \in [1 .. J -> Nat \cup {None}]
    BY RequestParts DEF IsRequest
  <2>2. \A k \in 1 .. J : i.given[k] # None
    BY <1>1, <2>1 DEF Missing
  <2>3. Amounts(i) = [k \in 1 .. J |-> i.given[k]]
    BY <2>1, <2>2 DEF Amounts
  <2> QED BY <2>1, <2>2, <2>3
<1> QED BY <1>1 DEF Settled

(* Clamping keeps what fits.                                               *)
LEMMA ClampKeeps ==
  ASSUME NEW i, NEW J, IsRequest(i, J), NEW order, IsOrder(order, J)
  PROVE  /\ Keeps(i, J, Clamp(i, order))
         /\ Total(Clamp(i, order), J) \in 0 .. Remain(i)
         /\ Settled(i, J) => Clamp(i, order) = i.given
<1>1. /\ Clamp(i, order) \in [1 .. J -> Nat]
      /\ Total(Clamp(i, order), J) = Least(Total(Amounts(i), J), Remain(i))
      /\ Total(Amounts(i), J) <= Remain(i) => Clamp(i, order) = Amounts(i)
  BY ClampIs
<1>2. Remain(i) \in Nat /\ J \in Sizes /\ Amounts(i) \in [1 .. J -> Nat]
  BY RequestParts DEF IsRequest
<1>3. Total(Amounts(i), J) \in Nat
  BY <1>2, SMTT(30) DEF Total, Sizes
<1>4. Keeps(i, J, Clamp(i, order))
  BY <1>1, RequestParts DEF Keeps
<1>5. Total(Clamp(i, order), J) \in 0 .. Remain(i)
  BY <1>1, <1>2, <1>3 DEF Least
<1>6. Settled(i, J) => Clamp(i, order) = i.given
  <2>1. ASSUME Settled(i, J) PROVE Clamp(i, order) = i.given
    <3>1. Total(Amounts(i), J) = Remain(i) /\ Missing(i) = {}
      BY <2>1, SettledAmounts DEF Settled
    <3> QED BY <1>1, <1>2, <3>1, SettledAmounts
  <2> QED BY <2>1
<1> QED BY <1>4, <1>5, <1>6

(* Adding to a missing judgement, or to any when none is missing, keeps    *)
(* what was given.                                                         *)
LEMMA AddKeeps ==
  ASSUME NEW i, NEW J, IsRequest(i, J), NEW hits, Keeps(i, J, hits),
         NEW k \in 1 .. J, Missing(i) = {} \/ k \in Missing(i),
         NEW n \in Int, hits[k] + n >= 0
  PROVE  /\ Keeps(i, J, Add(hits, k, n))
         /\ Total(Add(hits, k, n), J) = Total(hits, J) + n
         /\ n = 0 => Add(hits, k, n) = hits
<1>1. J \in Sizes /\ hits \in [1 .. J -> Int]
  BY DEF IsRequest, Keeps
<1>2. /\ Add(hits, k, n) \in [1 .. J -> Int]
      /\ Total(Add(hits, k, n), J) = Total(hits, J) + n
      /\ Add(hits, k, n)[k] = hits[k] + n
      /\ \A j \in 1 .. J : j # k => Add(hits, k, n)[j] = hits[j]
      /\ n = 0 => Add(hits, k, n) = hits
  BY <1>1, AddTotal
<1>3. \A j \in 1 .. J : Add(hits, k, n)[j] \in Nat
  <2>1. \A j \in 1 .. J : hits[j] \in Nat
    BY DEF Keeps
  <2>2. hits[k] + n \in Nat
    BY <2>1
  <2> QED BY <1>2, <2>1, <2>2
<1>4. Keeps(i, J, Add(hits, k, n))
  BY <1>2, <1>3 DEF Keeps
<1> QED BY <1>2, <1>4

LEMMA TotalIs ==
  ASSUME NEW i, NEW J, IsRequest(i, J), NEW hits, Keeps(i, J, hits)
  PROVE  /\ Total(hits, J) \in Nat /\ SumFunction(hits) = Total(hits, J)
         /\ Left(i, hits) = Remain(i) - Total(hits, J)
         /\ \A k \in 1 .. J : hits[k] <= Total(hits, J)
<1>1. J \in Sizes /\ hits \in [1 .. J -> Nat] /\ hits \in [1 .. J -> Int]
  BY DEF IsRequest, Keeps
<1>2. Total(hits, J) \in Nat /\ \A k \in 1 .. J : hits[k] <= Total(hits, J)
  <2>1. CASE J = 2
    BY <1>1, <2>1 DEF Total
  <2>2. CASE J = 3
    BY <1>1, <2>2 DEF Total
  <2>3. CASE J = 5
    BY <1>1, <2>3 DEF Total
  <2> QED BY <1>1, <2>1, <2>2, <2>3 DEF Sizes
<1>3. SumFunction(hits) = Total(hits, J)
  BY <1>1, SumIsTotal
<1> QED BY <1>2, <1>3 DEF Left

(***************************************************************************)
(* IgnoreAccuracy and what completes hit results                           *)
(***************************************************************************)
LEMMA IgnoreAccuracyAddsUp ==
  ASSUME NEW i, NEW J, IsRequest(i, J)
  PROVE  /\ Keeps(i, J, IgnoreAccuracy(i)) /\ AddsUp(i, J, IgnoreAccuracy(i))
         /\ Settled(i, J) => IgnoreAccuracy(i) = i.given
<1> DEFINE hits == Clamp(i, ByPriority(i))
           rest == IF Missing(i) = {} THEN Judgements(i) ELSE Missing(i)
           k == Preferred(i, rest)
           n == Left(i, hits)
<1>1. IgnoreAccuracy(i) = Add(hits, k, n)
  BY DEF IgnoreAccuracy
<1>2. /\ Keeps(i, J, hits) /\ Total(hits, J) \in 0 .. Remain(i)
      /\ Settled(i, J) => hits = i.given
  BY Orders, ClampKeeps
<1>3. k \in 1 .. J /\ (Missing(i) = {} \/ k \in Missing(i)) /\ Remain(i) \in Nat
  BY PreferredIs, RequestParts
<1> HIDE DEF hits, rest, k
<1>4. n = Remain(i) - Total(hits, J) /\ n \in Nat
  BY <1>2, <1>3, TotalIs
<1> HIDE DEF n
<1>5. hits[k] + n >= 0
  BY <1>2, <1>3, <1>4 DEF Keeps
<1>6. /\ Keeps(i, J, Add(hits, k, n))
      /\ Total(Add(hits, k, n), J) = Total(hits, J) + n
      /\ n = 0 => Add(hits, k, n) = hits
  BY <1>2, <1>3, <1>4, <1>5, AddKeeps
<1>7. Total(hits, J) + n = Remain(i)
  BY <1>2, <1>3, <1>4
<1>8. Settled(i, J) => n = 0
  BY <1>2, <1>3, <1>4 DEF Settled
<1> QED BY <1>1, <1>2, <1>6, <1>7, <1>8 DEF AddsUp

LEMMA CompletedAddsUp ==
  ASSUME NEW i, NEW J, IsRequest(i, J)
  PROVE  /\ Keeps(i, J, Completed(i)) /\ Total(Completed(i), J) \in 0 .. Remain(i)
         /\ Missing(i) # {} => AddsUp(i, J, Completed(i))
         /\ Missing(i) = {} => Total(Completed(i), J) = Least(Total(Amounts(i), J), Remain(i))
         /\ Missing(i) = {} /\ Total(i.given, J) <= Remain(i) => Completed(i) = i.given
<1> DEFINE hits == Clamp(i, BestFirst(i))
           k == Preferred(i, Missing(i))
           n == Left(i, hits)
<1>1. Completed(i) = IF Missing(i) = {} THEN hits ELSE Add(hits, k, n)
  BY DEF Completed
<1>2. /\ Keeps(i, J, hits) /\ Total(hits, J) \in 0 .. Remain(i)
      /\ Total(hits, J) = Least(Total(Amounts(i), J), Remain(i))
      /\ Total(Amounts(i), J) <= Remain(i) => hits = Amounts(i)
  BY Orders, ClampKeeps, ClampIs
<1> HIDE DEF hits
<1>3. CASE Missing(i) = {}
  BY <1>1, <1>2, <1>3, SettledAmounts
<1>4. CASE Missing(i) # {}
  <2>1. k \in Missing(i) /\ k \in 1 .. J /\ Remain(i) \in Nat
    BY <1>4, PreferredIs, RequestParts
  <2> HIDE DEF k
  <2>2. n = Remain(i) - Total(hits, J) /\ n \in Nat
    BY <1>2, <2>1, TotalIs
  <2> HIDE DEF n
  <2>3. hits[k] + n >= 0
    BY <1>2, <2>1, <2>2 DEF Keeps
  <2>4. /\ Keeps(i, J, Add(hits, k, n))
        /\ Total(Add(hits, k, n), J) = Total(hits, J) + n
    BY <1>2, <2>1, <2>2, <2>3, AddKeeps
  <2>5. Total(hits, J) + n = Remain(i)
    BY <1>2, <2>1, <2>2
  <2> QED BY <1>1, <1>4, <2>1, <2>4, <2>5 DEF AddsUp
<1> QED BY <1>3, <1>4

(* Hits that are left over complete them; hits that are too many stay.     *)
LEMMA FillsAddUp ==
  ASSUME NEW i, NEW J, IsRequest(i, J), NEW hits, Keeps(i, J, hits)
  PROVE  /\ Total(hits, J) <= Remain(i) =>
              /\ Keeps(i, J, FillUp(i, hits)) /\ AddsUp(i, J, FillUp(i, hits))
         /\ Total(hits, J) = Remain(i) => FillUp(i, hits) = hits
         /\ \A k \in 1 .. J : Missing(i) = {} \/ k \in Missing(i) =>
              LET filled == Add(hits, k, Greatest(0, Left(i, hits)))
              IN  /\ Keeps(i, J, filled)
                  /\ Total(hits, J) <= Remain(i) => AddsUp(i, J, filled)
                  /\ Total(hits, J) >= Remain(i) => filled = hits
<1>1. /\ Total(hits, J) \in Nat /\ Left(i, hits) = Remain(i) - Total(hits, J)
      /\ Remain(i) \in Nat
  BY TotalIs, RequestParts
<1> DEFINE T == Total(hits, J)
<1>2. ASSUME NEW k \in 1 .. J, Missing(i) = {} \/ k \in Missing(i), NEW n \in Nat
      PROVE  /\ Keeps(i, J, Add(hits, k, n))
             /\ Total(Add(hits, k, n), J) = T + n
             /\ n = 0 => Add(hits, k, n) = hits
  <2>1. hits[k] + n >= 0
    BY DEF Keeps
  <2> QED BY <1>2, <2>1, AddKeeps
<1> HIDE DEF T
<1>3. ASSUME T <= Remain(i)
      PROVE  /\ Keeps(i, J, FillUp(i, hits)) /\ AddsUp(i, J, FillUp(i, hits))
             /\ T = Remain(i) => FillUp(i, hits) = hits
  <2> DEFINE k == IF Missing(i) = {} THEN LastResort(i) ELSE Preferred(i, Missing(i))
  <2>1. k \in 1 .. J /\ (Missing(i) = {} \/ k \in Missing(i))
    BY PreferredIs, RequestParts
  <2>2. FillUp(i, hits) = Add(hits, k, Left(i, hits))
    BY DEF FillUp
  <2> HIDE DEF k
  <2>3. Left(i, hits) \in Nat /\ T + Left(i, hits) = Remain(i) /\ (T = Remain(i) => Left(i, hits) = 0)
    BY <1>1, <1>3 DEF T
  <2> QED BY <1>2, <2>1, <2>2, <2>3 DEF AddsUp
<1>4. ASSUME NEW k \in 1 .. J, Missing(i) = {} \/ k \in Missing(i)
      PROVE  LET filled == Add(hits, k, Greatest(0, Left(i, hits)))
             IN  /\ Keeps(i, J, filled)
                 /\ T <= Remain(i) => AddsUp(i, J, filled)
                 /\ T >= Remain(i) => filled = hits
  <2> DEFINE n == Greatest(0, Left(i, hits))
  <2>1. n \in Nat /\ (T <= Remain(i) => T + n = Remain(i)) /\ (T >= Remain(i) => n = 0)
    BY <1>1 DEF Greatest, T
  <2> HIDE DEF n
  <2>2. /\ Keeps(i, J, Add(hits, k, n))
        /\ T <= Remain(i) => AddsUp(i, J, Add(hits, k, n))
        /\ T >= Remain(i) => Add(hits, k, n) = hits
    BY <1>2, <1>4, <2>1 DEF AddsUp
  <2> QED BY <2>2 DEF n
<1>5. T = Remain(i) => T <= Remain(i)
  BY <1>1
<1> QED BY <1>3, <1>4, <1>5 DEF T

(***************************************************************************)
(* Fast                                                                    *)
(***************************************************************************)

(* A request with an accuracy, whose judgements are worth less and less.   *)
IsScored(i, J) ==
  /\ IsRequest(i, J)
  /\ i.acc \in Nat /\ i.tick_score \in Nat /\ i.tick_max \in Nat
  /\ i.weight \in [1 .. J -> Nat]
  /\ i.unit \in Nat \ {0}
  /\ \A k \in 1 .. J : k < J => Increase(i, k) \in Nat \ {0}

(* Rounding in the three ways gives whole numbers, rounding down the least.*)
LEMMA Rounding ==
  ASSUME NEW n \in Int, NEW d \in Nat \ {0}
  PROVE  /\ Floor(n, d) \in Int /\ Ceil(n, d) \in Int /\ RoundTiesEven(n, d) \in Int
         /\ Floor(n, d) <= Ceil(n, d)
<1> DEFINE q == n \div d
           p == (-n) \div d
<1>1. q \in Int /\ p \in Int
  OBVIOUS
<1> DEFINE u == n % d
           v == (-n) % d
<1>2. n = d * q + u /\ u \in 0 .. d - 1
  OBVIOUS
<1>3. -n = d * p + v /\ v \in 0 .. d - 1
  <2>1. -n \in Int
    OBVIOUS
  <2> QED BY <2>1
<1> DEFINE x == d * q
           y == d * p
<1> HIDE DEF q, p, u, v
<1>4. d * (q + p) <= 0
  <2>1. x \in Int /\ y \in Int /\ d * (q + p) = x + y
    BY <1>1
  <2>2. n = x + u /\ -n = y + v
    BY <1>2, <1>3
  <2> HIDE DEF x, y
  <2>3. x + y <= 0
    BY <1>2, <1>3, <2>1, <2>2
  <2> QED BY <2>1, <2>3
<1>5. q + p <= 0
  <2> SUFFICES ASSUME q + p >= 1 PROVE FALSE
    BY <1>1
  <2> DEFINE r == q + p
  <2>1. r \in Int /\ r >= 1
    BY <1>1
  <2>2. d * r <= 0
    BY <1>4
  <2> HIDE DEF r
  <2>3. d * r >= d
    BY <2>1
  <2> QED BY <2>1, <2>2, <2>3
<1>6. q <= -p
  BY <1>1, <1>5
<1>7. 2 * n + d \in Int /\ 2 * d \in Nat \ {0}
  OBVIOUS
<1>8. (2 * n + d) \div (2 * d) \in Int
  BY <1>7
<1>9. RoundTiesEven(n, d) \in Int
  BY <1>8 DEF RoundTiesEven
<1> QED BY <1>1, <1>6, <1>9 DEF q, p, Floor, Ceil

LEMMA ScoreIsInt ==
  ASSUME NEW i, NEW J, IsScored(i, J), NEW hits \in [1 .. J -> Int]
  PROVE  /\ ScoreOf(i, hits) \in Int /\ AccMax(i) \in Nat
         /\ i.acc * AccMax(i) - AccSteps * (ScoreOf(i, hits) + i.tick_score) \in Int
         /\ Distance(i, hits) \in Nat
<1>1. J \in Sizes /\ Judgements(i) = 1 .. J /\ i.total \in Nat /\ 1 \in 1 .. J
  <2>1. IsRequest(i, J)
    BY DEF IsScored
  <2>2. J \in Sizes /\ Judgements(i) = 1 .. J /\ i.total \in Nat
    BY <2>1, RequestParts DEF IsRequest
  <2> QED BY <2>2 DEF Sizes
<1> DEFINE h == [k \in 1 .. J |-> i.weight[k] * hits[k]]
<1>2. \A k \in 1 .. J : i.weight[k] \in Nat /\ hits[k] \in Int
  BY DEF IsScored
<1>3. h \in [1 .. J -> Int]
  BY <1>2
<1>4. ScoreOf(i, hits) = SumFunction(h)
  BY <1>1 DEF ScoreOf
<1> HIDE DEF h
<1>5. ScoreOf(i, hits) \in Int
  BY <1>1, <1>3, <1>4, SumIsTotal
<1>6. i.weight[1] \in Nat /\ i.acc \in Nat /\ i.tick_score \in Nat /\ i.tick_max \in Nat
  BY <1>1, <1>2 DEF IsScored
<1>7. AccMax(i) \in Nat
  BY <1>1, <1>6, SMTT(30) DEF AccMax
<1>8. i.acc * AccMax(i) - AccSteps * (ScoreOf(i, hits) + i.tick_score) \in Int
  BY <1>5, <1>6, <1>7, AccStepsAssumption
<1> QED BY <1>5, <1>7, <1>8 DEF Distance

(* What the judgements after k add up to.                                  *)
LEMMA RestAfter ==
  ASSUME NEW J \in Sizes, NEW h \in [1 .. J -> Nat]
  PROVE  /\ \A k \in 0 .. J : SumFunctionOnSet(h, k + 1 .. J) \in Nat
         /\ SumFunctionOnSet(h, J + 1 .. J) = 0
         /\ SumFunctionOnSet(h, 1 .. J) = Total(h, J)
         /\ \A k \in 1 .. J : SumFunctionOnSet(h, k .. J) = h[k] + SumFunctionOnSet(h, k + 1 .. J)
<1> DEFINE P(k) == Part(h, k .. J, 1) + Part(h, k .. J, 2) + Part(h, k .. J, 3)
                   + Part(h, k .. J, 4) + Part(h, k .. J, 5)
<1>1. J \in {2, 3, 5}
  BY DEF Sizes
<1>2. ASSUME NEW k \in 1 .. J + 1 PROVE SumFunctionOnSet(h, k .. J) = P(k)
  <2>1. k .. J \in SUBSET (1 .. 5) /\ \A j \in k .. J : h[j] \in Int
    BY <1>1
  <2> QED BY <2>1, SumOf
<1>3. ASSUME NEW k \in 1 .. J + 1
      PROVE  /\ P(k) = (IF k <= 1 THEN h[1] ELSE 0) + (IF k <= 2 THEN h[2] ELSE 0)
                       + (IF k <= 3 /\ 3 <= J THEN h[3] ELSE 0)
                       + (IF k <= 4 /\ 4 <= J THEN h[4] ELSE 0) + (IF k <= 5 /\ 5 <= J THEN h[5] ELSE 0)
  BY <1>1 DEF Part
<1> HIDE DEF P
<1>4. \A k \in 1 .. J : h[k] \in Nat
  OBVIOUS
<1>5. CASE J = 2
  <2>1. P(1) = h[1] + h[2] /\ P(2) = h[2] /\ P(3) = 0 /\ h[1] \in Nat /\ h[2] \in Nat
    BY <1>3, <1>4, <1>5
  <2>2. \A k \in 1 .. 3 : k \in {1, 2, 3}
    OBVIOUS
  <2>3. \A k \in 1 .. J + 1 : P(k) \in Nat
    BY <1>5, <2>1, <2>2
  <2>4. P(J + 1) = 0 /\ P(1) = Total(h, J) /\ \A k \in 1 .. J : P(k) = h[k] + P(k + 1)
    BY <1>5, <2>1 DEF Total
  <2> QED BY <1>1, <1>2, <2>3, <2>4
<1>6. CASE J = 3
  <2>1. /\ P(1) = h[1] + h[2] + h[3] /\ P(2) = h[2] + h[3] /\ P(3) = h[3] /\ P(4) = 0
        /\ h[1] \in Nat /\ h[2] \in Nat /\ h[3] \in Nat
    BY <1>3, <1>4, <1>6
  <2>2. \A k \in 1 .. 4 : k \in {1, 2, 3, 4}
    OBVIOUS
  <2>3. \A k \in 1 .. J + 1 : P(k) \in Nat
    BY <1>6, <2>1, <2>2
  <2>4. P(J + 1) = 0 /\ P(1) = Total(h, J) /\ \A k \in 1 .. J : P(k) = h[k] + P(k + 1)
    BY <1>6, <2>1 DEF Total
  <2> QED BY <1>1, <1>2, <2>3, <2>4
<1>7. CASE J = 5
  <2>1. /\ P(1) = h[1] + h[2] + h[3] + h[4] + h[5] /\ P(2) = h[2] + h[3] + h[4] + h[5]
        /\ P(3) = h[3] + h[4] + h[5] /\ P(4) = h[4] + h[5] /\ P(5) = h[5] /\ P(6) = 0
        /\ h[1] \in Nat /\ h[2] \in Nat /\ h[3] \in Nat /\ h[4] \in Nat /\ h[5] \in Nat
    BY <1>3, <1>4, <1>7
  <2>2. \A k \in 1 .. 6 : k \in {1, 2, 3, 4, 5, 6}
    OBVIOUS
  <2>3. \A k \in 1 .. J + 1 : P(k) \in Nat
    BY <1>7, <2>1, <2>2
  <2>4. P(J + 1) = 0 /\ P(1) = Total(h, J) /\ \A k \in 1 .. J : P(k) = h[k] + P(k + 1)
    BY <1>7, <2>1 DEF Total
  <2> QED BY <1>1, <1>2, <2>3, <2>4
<1> QED BY <1>1, <1>5, <1>6, <1>7

(* Spending greedily never takes the room of the numbers given, and leaves *)
(* nothing over if the lowest judgement is missing.                        *)
LEMMA SpendAddsUp ==
  ASSUME NEW i, NEW J, IsScored(i, J),
         NEW prelim \in [1 .. J -> Nat], Total(prelim, J) <= Remain(i)
  PROVE  /\ Spend(i, prelim) \in [1 .. J -> Nat]
         /\ Total(Spend(i, prelim), J) \in 0 .. Remain(i)
         /\ J \in Missing(i) => Total(Spend(i, prelim), J) = Remain(i)
         /\ \A k \in 1 .. J : k \notin Missing(i) /\ prelim[k] = i.given[k]
                              => Spend(i, prelim)[k] = i.given[k]
<1> DEFINE R == Remain(i)
           Rest(k) == SumFunctionOnSet(prelim, k + 1 .. J)
           target == RoundTiesEven(
                       Greatest(0, i.acc * AccMax(i) - AccSteps * (ScoreOf(i, prelim) + i.tick_score)),
                       AccSteps * i.unit)
           baseline == (i.weight[Lowest(i)] \div i.unit) * Left(i, prelim)
           start == ToGain(target, baseline)
           amount(k, b) == IF i.given[k] # None THEN i.given[k]
                           ELSE IF k = Lowest(i) THEN R
                           ELSE b.delta \div Increase(i, k)
           take(k, b) == Least(Room(i, prelim, b.used, k), amount(k, b))
           after(k, b) == [ used  |-> b.used + take(k, b),
                            delta |-> IF i.given[k] # None THEN b.delta
                                      ELSE SaturatingSub(b.delta, Increase(i, k) * take(k, b)) ]
           States == [used : Int, delta : Nat]
           first == [used |-> 0, delta |-> start]
           Follows(s) == s = [k \in 0 .. J |-> IF k = 0 THEN first ELSE after(k, s[k - 1])]
           step == CHOOSE s : Follows(s)
<1>1. /\ J \in Sizes /\ J \in Nat /\ R \in Nat /\ Judgements(i) = 1 .. J /\ Lowest(i) = J
      /\ IsRequest(i, J)
  BY RequestParts DEF IsScored, IsRequest
<1>2. start \in Nat
  <2>1. target \in Int
    <3> DEFINE n == Greatest(0, i.acc * AccMax(i) - AccSteps * (ScoreOf(i, prelim) + i.tick_score))
               d == AccSteps * i.unit
    <3>1. n \in Int
      <4>1. prelim \in [1 .. J -> Int]
        OBVIOUS
      <4>2. i.acc * AccMax(i) - AccSteps * (ScoreOf(i, prelim) + i.tick_score) \in Int
        BY <4>1, ScoreIsInt
      <4> QED BY <4>2 DEF Greatest
    <3>2. d \in Nat \ {0}
      BY AccStepsAssumption DEF IsScored
    <3> HIDE DEF n, d
    <3>3. RoundTiesEven(n, d) \in Int
      BY <3>1, <3>2, Rounding
    <3> QED BY <3>3 DEF n, d
  <2>2. baseline \in Int
    <3>1. i.weight[J] \in Nat /\ i.unit \in Nat \ {0}
      BY <1>1 DEF IsScored, Sizes
    <3>2. i.weight[J] \div i.unit \in Int
      BY <3>1
    <3>3. Left(i, prelim) \in Int
      <4>1. prelim \in [1 .. J -> Int]
        OBVIOUS
      <4>2. SumFunction(prelim) \in Int
        BY <1>1, <4>1, SumIsTotal
      <4> QED BY <1>1, <4>2 DEF Left
    <3> QED BY <1>1, <3>2, <3>3
  <2> HIDE DEF target, baseline
  <2> QED BY <2>1, <2>2 DEF ToGain, SaturatingSub
<1> HIDE DEF start
<1>3. /\ \A k \in 0 .. J : Rest(k) \in Nat
      /\ Rest(J) = 0 /\ Rest(0) = Total(prelim, J)
      /\ \A k \in 1 .. J : Rest(k - 1) = prelim[k] + Rest(k)
  <2>1. /\ \A k \in 0 .. J : SumFunctionOnSet(prelim, k + 1 .. J) \in Nat
        /\ SumFunctionOnSet(prelim, J + 1 .. J) = 0
        /\ SumFunctionOnSet(prelim, 1 .. J) = Total(prelim, J)
        /\ \A k \in 1 .. J : SumFunctionOnSet(prelim, k .. J)
                             = prelim[k] + SumFunctionOnSet(prelim, k + 1 .. J)
    BY <1>1, RestAfter
  <2>2. 0 + 1 = 1 /\ \A k \in 1 .. J : (k - 1) + 1 = k
    BY <1>1
  <2> QED BY <2>1, <2>2
<1>4. \A k \in 1 .. J : \A u : Room(i, prelim, u, k) = R - u - Rest(k)
  BY <1>1 DEF Room
<1> HIDE DEF R, Rest
<1>5. ASSUME NEW k \in 1 .. J, NEW b \in States
      PROVE  /\ amount(k, b) \in Nat /\ take(k, b) = Least(R - b.used - Rest(k), amount(k, b))
             /\ take(k, b) \in Int /\ after(k, b) \in States
  <2>1. b.used \in Int /\ b.delta \in Nat
    OBVIOUS
  <2>2. i.given[k] = None \/ i.given[k] \in Nat
    BY <1>1 DEF IsRequest
  <2>3. k # J => Increase(i, k) \in Nat \ {0}
    BY <1>1 DEF IsScored
  <2>4. k # J => b.delta \div Increase(i, k) \in Nat
    <3> DEFINE d == Increase(i, k)
               n == b.delta
    <3>1. k # J => d \in Nat \ {0} /\ n \in Nat
      BY <2>1, <2>3
    <3> HIDE DEF d, n
    <3>2. k # J => n \div d \in Nat
      BY <3>1
    <3> QED BY <3>2 DEF d, n
  <2>5. amount(k, b) \in Nat
    BY <1>1, <2>2, <2>4
  <2>6. take(k, b) = Least(R - b.used - Rest(k), amount(k, b))
    BY <1>4
  <2> HIDE DEF amount
  <2>7. take(k, b) \in Int
    BY <1>1, <1>3, <2>1, <2>5, <2>6 DEF Least
  <2>8. Increase(i, k) \in Int
    <3>1. k = J => Increase(i, k) = 0 \div i.unit
      <4>1. i.weight[J] \in Nat
        BY <1>1 DEF IsScored, Sizes
      <4>2. i.weight[J] - i.weight[J] = 0
        BY <4>1
      <4> QED BY <1>1, <4>2 DEF Increase
    <3>2. 0 \div i.unit \in Int
      BY DEF IsScored
    <3> QED BY <2>3, <3>1, <3>2
  <2> HIDE DEF take
  <2>9. Increase(i, k) * take(k, b) \in Int
    BY <2>7, <2>8
  <2>10. SaturatingSub(b.delta, Increase(i, k) * take(k, b)) \in Nat
    BY <2>1, <2>9 DEF SaturatingSub
  <2>11. after(k, b) \in States
    BY <2>1, <2>7, <2>10
  <2> QED BY <2>5, <2>6, <2>7, <2>11 DEF take
<1> HIDE DEF amount, take
<1>6. Follows(step)
  <2> DEFINE f == [k \in 1 .. J |-> [b \in States |-> after(k, b)]]
  <2>1. f \in [1 .. J -> [States -> States]] /\ first \in States
    BY <1>2, <1>5
  <2>2. \A k \in 1 .. J, b \in States : f[k][b] = after(k, b)
    OBVIOUS
  <2> HIDE DEF f, after, first, States
  <2>3. PICK s : Iterates(s, J, States, first, f)
    BY <1>1, <2>1, RecursionExists
  <2>4. s \in [0 .. J -> States] /\ s[0] = first /\ \A k \in 1 .. J : s[k] = f[k][s[k - 1]]
    BY <2>3 DEF Iterates
  <2>5. \A k \in 1 .. J : s[k] = after(k, s[k - 1])
    <3>1. \A k \in 1 .. J : k - 1 \in 0 .. J
      BY <1>1
    <3> QED BY <2>2, <2>4, <3>1
  <2>6. Follows(s)
    BY <1>1, <2>4, <2>5
  <2> HIDE DEF Follows
  <2> QED BY <2>6
<1>7. Spend(i, prelim) = [k \in 1 .. J |-> step[k].used - step[k - 1].used]
  BY <1>1 DEF Spend, step, Follows, first, after, take, amount, start, R
<1> HIDE DEF step
<1>8. step[0] = first /\ \A k \in 1 .. J : step[k] = after(k, step[k - 1])
  <2>1. 0 \in 0 .. J /\ \A k \in 1 .. J : k \in 0 .. J /\ k # 0
    BY <1>1
  <2> HIDE DEF after, first
  <2> QED BY <1>6, <2>1
<1> HIDE DEF Follows
<1> DEFINE Fits(k) == /\ step[k] \in States
                      /\ step[k].used >= 0 /\ step[k].used + Rest(k) <= R
           taken(k) == step[k].used - step[k - 1].used
<1>9. Fits(0)
  <2>1. first \in States /\ first.used = 0
    BY <1>2
  <2>2. Rest(0) <= R /\ Rest(0) \in Nat
    BY <1>1, <1>3 DEF R
  <2> HIDE DEF first, States
  <2> QED BY <1>8, <2>1, <2>2
<1>10. ASSUME NEW k \in 1 .. J, Fits(k - 1)
       PROVE  /\ Fits(k) /\ taken(k) \in Nat
              /\ k \notin Missing(i) /\ prelim[k] = i.given[k] => taken(k) = i.given[k]
              /\ k = J /\ J \in Missing(i) => step[J].used = R
  <2> DEFINE b == step[k - 1]
             u == step[k - 1].used
             room == R - u - Rest(k)
             a == amount(k, b)
  <2>1. b \in States /\ u \in Int /\ u >= 0 /\ u + Rest(k - 1) <= R
    BY <1>10
  <2>2. Rest(k) \in Nat /\ Rest(k - 1) = prelim[k] + Rest(k) /\ prelim[k] \in Nat
    BY <1>1, <1>3
  <2>3. room \in Nat /\ prelim[k] <= room
    <3> DEFINE r == Rest(k)
               q == Rest(k - 1)
               p == prelim[k]
    <3>1. r \in Nat /\ q = p + r /\ p \in Nat /\ u \in Int /\ u + q <= R /\ R \in Nat
      BY <1>1, <2>1, <2>2
    <3> HIDE DEF r, q, p, u, b
    <3>2. R - u - r \in Nat /\ p <= R - u - r
      BY <3>1
    <3> QED BY <3>2 DEF r, p
  <2>4. step[k] = after(k, b)
    BY <1>8
  <2>5. a \in Nat /\ take(k, b) = Least(room, a) /\ after(k, b) \in States
    BY <1>5, <2>1
  <2>6. step[k].used = u + Least(room, a) /\ step[k] \in States
    BY <2>4, <2>5
  <2>7. k \notin Missing(i) => a = i.given[k]
    BY <1>1 DEF amount, Missing
  <2>8. k = J /\ J \in Missing(i) => a = R
    BY <1>1 DEF amount, Missing
  <2> HIDE DEF a, u, b
  <2>9. Least(room, a) \in Nat /\ Least(room, a) <= room /\ (a <= room => Least(room, a) = a)
        /\ (room <= a => Least(room, a) = room)
    BY <2>3, <2>5 DEF Least
  <2> DEFINE got == Least(room, a)
  <2> HIDE DEF got
  <2>10. taken(k) = got /\ got \in Nat
    BY <2>1, <2>6, <2>9 DEF got, u
  <2>11. Fits(k)
    BY <1>1, <2>1, <2>2, <2>6, <2>9, SMTT(30) DEF got
  <2>12. k \notin Missing(i) /\ prelim[k] = i.given[k] => taken(k) = i.given[k]
    BY <2>3, <2>7, <2>9, <2>10 DEF got
  <2>13. k = J /\ J \in Missing(i) => step[J].used = R
    <3>1. k = J => Rest(k) = 0
      BY <1>3
    <3> QED BY <1>1, <2>1, <2>6, <2>8, <2>9, <3>1
  <2> QED BY <2>10, <2>11, <2>12, <2>13
<1>11. \A k \in 0 .. J : Fits(k)
  <2> DEFINE S == {k \in 0 .. J : Fits(k)}
  <2> HIDE DEF Fits
  <2>1. 0 \in S /\ \A k \in 1 .. J : k - 1 \in S => k \in S
    BY <1>1, <1>9, <1>10
  <2> HIDE DEF S
  <2>2. \A k \in 0 .. J : k \in S
    BY <1>1, <2>1, IntervalIsReached
  <2> QED BY <2>2 DEF S
<1>12. /\ \A k \in 1 .. J : taken(k) \in Nat
       /\ \A k \in 1 .. J : k \notin Missing(i) /\ prelim[k] = i.given[k] => taken(k) = i.given[k]
       /\ J \in Missing(i) => step[J].used = R
  <2>1. \A k \in 1 .. J : k - 1 \in 0 .. J
    BY <1>1
  <2>2. J \in 1 .. J
    BY <1>1 DEF Sizes
  <2> HIDE DEF Fits, taken
  <2> QED BY <1>10, <1>11, <2>1, <2>2
<1> DEFINE sp == Spend(i, prelim)
<1>13. sp \in [1 .. J -> Nat] /\ \A k \in 1 .. J : sp[k] = taken(k)
  BY <1>7, <1>12
<1>14. Total(sp, J) = step[J].used
  <2>1. \A k \in 0 .. J : step[k].used \in Int
    BY <1>11
  <2>2. step[0].used = 0
    BY <1>8
  <2>3. \A k \in 1 .. J : sp[k] = step[k].used - step[k - 1].used
    BY <1>13
  <2> HIDE DEF sp
  <2>4. CASE J = 2
    <3>1. sp[1] = step[1].used - step[0].used /\ sp[2] = step[2].used - step[1].used
      BY <2>3, <2>4
    <3>2. step[1].used \in Int /\ step[2].used \in Int
      BY <2>1, <2>4
    <3> QED BY <2>2, <2>4, <3>1, <3>2 DEF Total
  <2>5. CASE J = 3
    <3>1. sp[1] = step[1].used - step[0].used /\ sp[2] = step[2].used - step[1].used
          /\ sp[3] = step[3].used - step[2].used
      BY <2>3, <2>5
    <3>2. step[1].used \in Int /\ step[2].used \in Int /\ step[3].used \in Int
      BY <2>1, <2>5
    <3> QED BY <2>2, <2>5, <3>1, <3>2 DEF Total
  <2>6. CASE J = 5
    <3>1. sp[1] = step[1].used - step[0].used /\ sp[2] = step[2].used - step[1].used
          /\ sp[3] = step[3].used - step[2].used /\ sp[4] = step[4].used - step[3].used
          /\ sp[5] = step[5].used - step[4].used
      BY <2>3, <2>6
    <3>2. step[1].used \in Int /\ step[2].used \in Int /\ step[3].used \in Int
          /\ step[4].used \in Int /\ step[5].used \in Int
      BY <2>1, <2>6
    <3> QED BY <2>2, <2>6, <3>1, <3>2 DEF Total
  <2> QED BY <1>1, <2>4, <2>5, <2>6 DEF Sizes
<1>15. step[J].used \in 0 .. R
  <2>1. Fits(J) /\ Rest(J) = 0
    BY <1>1, <1>3, <1>11
  <2> QED BY <1>1, <2>1
<1> QED BY <1>12, <1>13, <1>14, <1>15 DEF R

LEMMA GreedyAddsUp ==
  ASSUME NEW i, NEW J, IsScored(i, J)
  PROVE  /\ Keeps(i, J, Greedy(i)) /\ Total(Greedy(i), J) \in 0 .. Remain(i)
         /\ J \in Missing(i) => AddsUp(i, J, Greedy(i))
<1> DEFINE prelim == Clamp(i, BestFirst(i))
<1>1. IsRequest(i, J)
  BY DEF IsScored
<1>2. prelim \in [1 .. J -> Nat] /\ Total(prelim, J) \in 0 .. Remain(i) /\ Keeps(i, J, prelim)
  BY <1>1, Orders, ClampKeeps, ClampIs
<1>3. Greedy(i) = Spend(i, prelim) /\ Remain(i) \in Nat
  BY <1>1, RequestParts DEF Greedy
<1> HIDE DEF prelim
<1>4. Total(prelim, J) <= Remain(i)
  BY <1>2, <1>3
<1>5. prelim \in [1 .. J -> Nat]
  BY <1>2
<1>6. /\ Spend(i, prelim) \in [1 .. J -> Nat]
      /\ Total(Spend(i, prelim), J) \in 0 .. Remain(i)
      /\ J \in Missing(i) => Total(Spend(i, prelim), J) = Remain(i)
      /\ \A k \in 1 .. J : k \notin Missing(i) /\ prelim[k] = i.given[k]
                           => Spend(i, prelim)[k] = i.given[k]
  BY <1>4, <1>5, SpendAddsUp, Zenon
<1> QED BY <1>2, <1>3, <1>6 DEF Keeps, AddsUp

(***************************************************************************)
(* Closest                                                                 *)
(***************************************************************************)

(* Of numbered distances one is the first that none is less than.          *)
LEMMA FirstLeastIs ==
  ASSUME NEW D \in SUBSET Nat, D # {}, NEW distance \in [D -> Nat]
  PROVE  /\ FirstLeast(distance) \in D
         /\ \A x \in D : distance[FirstLeast(distance)] <= distance[x]
<1> DEFINE far == {distance[x] : x \in DOMAIN distance}
           least == Min(far)
           best == {x \in DOMAIN distance : distance[x] = least}
<1>1. far \in SUBSET Nat /\ far # {} /\ DOMAIN distance = D
  OBVIOUS
<1>2. \A S \in SUBSET Nat : S # {} => Min(S) \in S /\ \A y \in S : Min(S) <= y
  <2> SUFFICES ASSUME NEW S \in SUBSET Nat, S # {}
               PROVE  Min(S) \in S /\ \A y \in S : Min(S) <= y
    OBVIOUS
  <2>1. \E x \in S : \A y \in S : x <= y
    BY SmallestExists
  <2> QED BY <2>1 DEF Min
<1> HIDE DEF far
<1>3. least \in far /\ \A y \in far : least <= y
  BY <1>1, <1>2
<1> HIDE DEF least
<1>4. best \in SUBSET Nat /\ best # {}
  BY <1>1, <1>3 DEF far
<1>5. Min(best) \in best
  BY <1>2, <1>4
<1>6. FirstLeast(distance) = Min(best)
  BY DEF FirstLeast, least, far
<1>7. \A x \in D : distance[x] \in far
  BY <1>1 DEF far
<1> QED BY <1>1, <1>3, <1>5, <1>6, <1>7

(* The first closest of numbered hit results is one of them.               *)
AreNumbered(i, J, D, hits) ==
  /\ IsScored(i, J) /\ D \in SUBSET Nat /\ D # {}
  /\ DOMAIN hits = D /\ \A x \in D : hits[x] \in [1 .. J -> Int]

LEMMA FirstClosestIs ==
  ASSUME NEW i, NEW J, NEW D, NEW hits, AreNumbered(i, J, D, hits)
  PROVE  \E x \in D : FirstClosest(i, hits) = hits[x]
<1>0. /\ IsScored(i, J) /\ D \in SUBSET Nat /\ D # {}
      /\ DOMAIN hits = D /\ \A x \in D : hits[x] \in [1 .. J -> Int]
  BY DEF AreNumbered
<1> DEFINE distance == [x \in DOMAIN hits |-> Distance(i, hits[x])]
<1>1. distance \in [D -> Nat]
  BY <1>0, ScoreIsInt
<1>2. FirstLeast(distance) \in D
  BY <1>0, <1>1, FirstLeastIs
<1> QED BY <1>0, <1>2 DEF FirstClosest

(* The ends of what is tried, clamped to the rest, are in order.           *)
LEMMA ClampedEnds ==
  ASSUME NEW rest \in Nat, NEW a \in Int, NEW b \in Int, a <= b
  PROVE  /\ Least(rest, Greatest(0, a)) \in 0 .. rest /\ Least(rest, Greatest(0, b)) \in 0 .. rest
         /\ Least(rest, Greatest(0, a)) <= Least(rest, Greatest(0, b))
BY DEF Least, Greatest

LEMMA AddToMissing ==
  ASSUME NEW i, NEW J, IsRequest(i, J), NEW hits, Keeps(i, J, hits),
         NEW k \in 1 .. J, k \in Missing(i), NEW n \in Int, hits[k] + n >= 0
  PROVE  /\ Keeps(i, J, Add(hits, k, n)) /\ Add(hits, k, n) \in [1 .. J -> Int]
         /\ Total(Add(hits, k, n), J) = Total(hits, J) + n
         /\ Add(hits, k, n)[k] = hits[k] + n
<1>1. /\ Keeps(i, J, Add(hits, k, n))
      /\ Total(Add(hits, k, n), J) = Total(hits, J) + n
  BY AddKeeps
<1>2. J \in Sizes /\ hits \in [1 .. J -> Int]
  BY DEF IsRequest, Keeps
<1>3. Add(hits, k, n) \in [1 .. J -> Int] /\ Add(hits, k, n)[k] = hits[k] + n
  BY <1>2, AddTotal
<1> QED BY <1>1, <1>3

(* What the others leave, shared by two missing judgements.                *)
LEMMA ShareAddsUp ==
  ASSUME NEW i, NEW J, IsRequest(i, J), NEW fixed, Keeps(i, J, fixed),
         NEW rest \in Nat, Total(fixed, J) + rest = Remain(i),
         NEW hi \in 1 .. J, NEW lo \in 1 .. J, hi \in Missing(i), lo \in Missing(i)
  PROVE  LET all   == Add(fixed, lo, rest)
             tried(x) == Add(Add(all, lo, -x), hi, x)
         IN  /\ all \in [1 .. J -> Int]
             /\ \A x \in 0 .. rest :
                  /\ Keeps(i, J, tried(x)) /\ AddsUp(i, J, tried(x))
                  /\ tried(x) \in [1 .. J -> Int]
<1> DEFINE all == Add(fixed, lo, rest)
<1>1. Total(fixed, J) \in Int /\ \A k \in 1 .. J : fixed[k] \in Nat
  <2>1. Total(fixed, J) \in Nat
    BY TotalIs, Zenon
  <2> QED BY <2>1 DEF Keeps
<1>2. /\ Keeps(i, J, all) /\ all \in [1 .. J -> Int]
      /\ Total(all, J) = Remain(i) /\ all[lo] = fixed[lo] + rest
  <2>1. fixed[lo] + rest >= 0 /\ rest \in Int
    BY <1>1
  <2> QED BY <2>1, AddToMissing
<1> HIDE DEF all
<1>3. ASSUME NEW x \in 0 .. rest
      PROVE  /\ Keeps(i, J, Add(Add(all, lo, -x), hi, x))
             /\ AddsUp(i, J, Add(Add(all, lo, -x), hi, x))
             /\ Add(Add(all, lo, -x), hi, x) \in [1 .. J -> Int]
  <2> DEFINE m == -x
             less == Add(all, lo, m)
  <2>1. m \in Int /\ all[lo] + m >= 0 /\ m + x = 0
    BY <1>1, <1>2
  <2> HIDE DEF m
  <2>2. Keeps(i, J, less) /\ Total(less, J) = Remain(i) + m
    <3>1. Keeps(i, J, less) /\ Total(less, J) = Total(all, J) + m
      <4>1. Keeps(i, J, all)
        BY <1>2
      <4>2. m \in Int /\ all[lo] + m >= 0
        BY <2>1
      <4> QED BY <4>1, <4>2, AddToMissing
    <3> QED BY <1>2, <3>1
  <2> HIDE DEF less
  <2>3. x \in Int /\ less[hi] + x >= 0
    BY <2>2 DEF Keeps
  <2>4. /\ Keeps(i, J, Add(less, hi, x)) /\ Add(less, hi, x) \in [1 .. J -> Int]
        /\ Total(Add(less, hi, x), J) = Total(less, J) + x
    BY <2>2, <2>3, AddToMissing
  <2>5. Total(less, J) + x = Remain(i)
    BY <1>1, <2>1, <2>2
  <2> QED BY <2>4, <2>5 DEF less, m, AddsUp
<1> QED BY <1>2, <1>3 DEF all

(* Solving for two missing judgements keeps the others and adds up.        *)
LEMMA SolveAddsUp ==
  ASSUME NEW i, NEW J, IsScored(i, J),
         NEW fixed, Keeps(i, J, fixed), Total(fixed, J) <= Remain(i),
         NEW hi \in 1 .. J, NEW lo \in 1 .. J, hi \in Missing(i), lo \in Missing(i),
         i.weight[hi] > i.weight[lo]
  PROVE  Keeps(i, J, Solve(i, fixed, hi, lo)) /\ AddsUp(i, J, Solve(i, fixed, hi, lo))
<1> DEFINE rest     == Left(i, fixed)
           all      == Add(fixed, lo, rest)
           n        == i.acc * AccMax(i) - AccSteps * (ScoreOf(i, all) + i.tick_score)
           d        == AccSteps * (i.weight[hi] - i.weight[lo])
           from     == Least(rest, Greatest(0, Floor(n, d)))
           to       == Least(rest, Greatest(0, Ceil(n, d)))
           tried(x) == Add(Add(all, lo, -x), hi, x)
           hits     == [x \in from .. to |-> tried(x)]
<1>1. IsRequest(i, J) /\ J \in Sizes /\ Remain(i) \in Nat
  BY RequestParts DEF IsScored, IsRequest
<1>2. rest \in Nat /\ Total(fixed, J) + rest = Remain(i)
  <2>1. /\ Total(fixed, J) \in Nat /\ Left(i, fixed) = Remain(i) - Total(fixed, J)
    BY <1>1, TotalIs, Zenon
  <2> QED BY <1>1, <2>1
<1> HIDE DEF rest
<1>3. /\ all \in [1 .. J -> Int]
      /\ \A x \in 0 .. rest :
           Keeps(i, J, tried(x)) /\ AddsUp(i, J, tried(x)) /\ tried(x) \in [1 .. J -> Int]
  BY <1>1, <1>2, ShareAddsUp
<1> HIDE DEF all
<1>4. from \in 0 .. rest /\ to \in 0 .. rest /\ from <= to
  <2>1. n \in Int
    BY <1>3, ScoreIsInt
  <2>2. d \in Nat \ {0}
    <3>1. i.weight[hi] \in Nat /\ i.weight[lo] \in Nat
      BY DEF IsScored
    <3> QED BY <3>1, AccStepsAssumption
  <2> HIDE DEF n, d
  <2>3. Floor(n, d) \in Int /\ Ceil(n, d) \in Int /\ Floor(n, d) <= Ceil(n, d)
    BY <2>1, <2>2, Rounding
  <2> QED BY <1>2, <2>3, ClampedEnds
<1>5. Solve(i, fixed, hi, lo) = FirstClosest(i, hits)
  BY DEF Solve, rest, all
<1> HIDE DEF from, to
<1>6. ASSUME NEW x \in from .. to
      PROVE  Keeps(i, J, tried(x)) /\ AddsUp(i, J, tried(x)) /\ tried(x) \in [1 .. J -> Int]
  <2>1. x \in 0 .. rest
    BY <1>2, <1>4
  <2> QED BY <1>3, <2>1
<1> HIDE DEF tried
<1>7. from .. to \in SUBSET Nat /\ from .. to # {} /\ DOMAIN hits = from .. to
  <2>1. from \in Nat /\ to \in Nat /\ from <= to
    BY <1>2, <1>4
  <2>2. from \in from .. to /\ from .. to \in SUBSET Nat
    BY <2>1
  <2> QED BY <2>2
<1>8. \A x \in from .. to : hits[x] = tried(x)
  OBVIOUS
<1> HIDE DEF hits
<1>9. \E x \in from .. to : FirstClosest(i, hits) = hits[x]
  <2> DEFINE D == from .. to
  <2>1. D \in SUBSET Nat /\ D # {} /\ DOMAIN hits = D
    BY <1>7
  <2>2. \A x \in D : hits[x] \in [1 .. J -> Int]
    BY <1>6, <1>8
  <2> HIDE DEF D
  <2>3. \E x \in D : FirstClosest(i, hits) = hits[x]
    <3>1. AreNumbered(i, J, D, hits)
      BY <2>1, <2>2 DEF AreNumbered
    <3> QED BY <3>1, FirstClosestIs
  <2> QED BY <2>3 DEF D
<1> QED BY <1>5, <1>6, <1>8, <1>9

(***************************************************************************)
(* How many are missing                                                    *)
(***************************************************************************)

(* Counting the elements of a set of numbers up to 5.                      *)
One(S, k) == IF k \in S THEN 1 ELSE 0

LEMMA CountOf ==
  ASSUME NEW S \in SUBSET (1 .. 5)
  PROVE  Cardinality(S) = One(S, 1) + One(S, 2) + One(S, 3) + One(S, 4) + One(S, 5)
<1> DEFINE Up(k) == S \cap (1 .. k)
<1>1. IsFiniteSet({}) /\ Cardinality({}) = 0
  BY FS_EmptySet
<1>2. ASSUME NEW k \in 1 .. 5, NEW j \in 0 .. 4, k = j + 1, IsFiniteSet(Up(j))
      PROVE  IsFiniteSet(Up(k)) /\ Cardinality(Up(k)) = Cardinality(Up(j)) + One(S, k)
  <2>1. CASE k \in S
    <3>1. Up(k) = Up(j) \cup {k} /\ k \notin Up(j)
      BY <1>2, <2>1
    <3> HIDE DEF Up
    <3>2. IsFiniteSet(Up(k)) /\ Cardinality(Up(k)) = Cardinality(Up(j)) + 1
      BY <1>2, <3>1, FS_AddElement
    <3> QED BY <2>1, <3>2 DEF One
  <2>2. CASE k \notin S
    <3>1. Up(k) = Up(j)
      BY <1>2, <2>2
    <3> HIDE DEF Up
    <3>2. Cardinality(Up(j)) \in Nat
      BY <1>2, FS_CardinalityType
    <3> QED BY <1>2, <2>2, <3>1, <3>2 DEF One
  <2> QED BY <2>1, <2>2
<1>3. Up(0) = {} /\ Up(5) = S
  <2>1. 1 .. 0 = {}
    OBVIOUS
  <2>2. S \cap (1 .. 5) = S
    OBVIOUS
  <2> QED BY <2>1, <2>2
<1> HIDE DEF Up
<1>4. IsFiniteSet(Up(0)) /\ Cardinality(Up(0)) = 0
  BY <1>1, <1>3
<1>5. IsFiniteSet(Up(1)) /\ Cardinality(Up(1)) = One(S, 1)
  <2>1. 0 + One(S, 1) = One(S, 1)
    BY DEF One
  <2> QED BY <1>2, <1>4, <2>1
<1>6. IsFiniteSet(Up(2)) /\ Cardinality(Up(2)) = One(S, 1) + One(S, 2)
  BY <1>2, <1>5
<1>7. IsFiniteSet(Up(3)) /\ Cardinality(Up(3)) = One(S, 1) + One(S, 2) + One(S, 3)
  BY <1>2, <1>6
<1>8. IsFiniteSet(Up(4)) /\ Cardinality(Up(4)) = One(S, 1) + One(S, 2) + One(S, 3) + One(S, 4)
  BY <1>2, <1>7
<1>9. Cardinality(Up(5)) = One(S, 1) + One(S, 2) + One(S, 3) + One(S, 4) + One(S, 5)
  BY <1>2, <1>8
<1> QED BY <1>3, <1>9

(* What the number of missing judgements says about them.                  *)
LEMMA MissingCounts ==
  ASSUME NEW i, NEW J, IsRequest(i, J)
  PROVE  /\ Cardinality(Missing(i)) \in Nat
         /\ Cardinality(Missing(i)) = 0 <=> Missing(i) = {}
         /\ Cardinality(Missing(i)) > 1 =>
              /\ Min(Missing(i)) \in Missing(i) /\ Max(Missing(i)) \in Missing(i)
              /\ Min(Missing(i)) < Max(Missing(i))
         /\ Cardinality(Missing(i)) = 2 => Missing(i) = {Min(Missing(i)), Max(Missing(i))}
         /\ J = 2 /\ Cardinality(Missing(i)) > 1 => Missing(i) = 1 .. 2
         /\ J = 3 /\ Cardinality(Missing(i)) > 2 => Missing(i) = 1 .. 3
         /\ Missing(i) \in SUBSET (1 .. 2) => Cardinality(Missing(i)) <= 2
<1> DEFINE S == Missing(i)
<1>1. J \in {2, 3, 5} /\ S \in SUBSET (1 .. J)
  BY RequestParts DEF IsRequest, Sizes
<1>2. S \in SUBSET (1 .. 5)
  BY <1>1
<1> HIDE DEF S
<1>3. Cardinality(S) = One(S, 1) + One(S, 2) + One(S, 3) + One(S, 4) + One(S, 5)
  BY <1>2, CountOf
<1>4. Cardinality(S) \in Nat /\ (Cardinality(S) = 0 <=> S = {})
  BY <1>2, <1>3 DEF One
<1>5. S # {} => Min(S) \in S /\ Max(S) \in S
  BY <1>2, EndsAreIn
<1>6. ASSUME Cardinality(S) > 1
      PROVE  /\ Min(S) \in S /\ Max(S) \in S /\ Min(S) < Max(S)
             /\ Cardinality(S) = 2 => S = {Min(S), Max(S)}
  <2>1. Min(S) \in S /\ Max(S) \in S
    BY <1>4, <1>5, <1>6
  <2>2. (\A y \in S : Min(S) <= y) /\ (\A y \in S : Max(S) >= y)
    BY <1>2, <2>1, EndsBound
  <2> DEFINE a == Min(S)
             b == Max(S)
  <2>3. a \in S /\ b \in S /\ a \in 1 .. 5 /\ b \in 1 .. 5 /\ (\A y \in S : a <= y /\ y <= b)
    BY <1>2, <2>1, <2>2
  <2> HIDE DEF a, b
  <2>4. a # b
    BY <1>3, <1>6, <2>3 DEF One
  <2>5. Cardinality(S) = 2 => S = {a, b}
    <3>1. ASSUME NEW c \in S, c # a, c # b PROVE Cardinality(S) >= 3
      <4>1. c \in 1 .. 5 /\ a < c /\ c < b
        BY <1>2, <2>3, <3>1
      <4>2. \A k \in 1 .. 5 : One(S, k) >= 0 /\ (k \in S => One(S, k) = 1) /\ One(S, k) \in Nat
        BY DEF One
      <4>3. One(S, a) = 1 /\ One(S, b) = 1 /\ One(S, c) = 1
        BY <2>3, <4>1, <4>2
      <4> QED BY <1>3, <2>3, <4>1, <4>2, <4>3
    <3> SUFFICES ASSUME Cardinality(S) = 2 PROVE S = {a, b}
      OBVIOUS
    <3>2. \A c \in S : c = a \/ c = b
      <4>1. ~(Cardinality(S) >= 3)
        OBVIOUS
      <4> QED BY <3>1, <4>1
    <3> QED BY <2>3, <3>2
  <2>6. a < b
    BY <2>3, <2>4
  <2> QED BY <2>1, <2>5, <2>6 DEF a, b
<1>7. J = 2 /\ Cardinality(S) > 1 => S = 1 .. 2
  <2> SUFFICES ASSUME J = 2, Cardinality(S) > 1 PROVE S = 1 .. 2
    OBVIOUS
  <2>1. 3 \notin S /\ 4 \notin S /\ 5 \notin S
    BY <1>1
  <2>2. 1 \in S /\ 2 \in S
    BY <1>3, <2>1 DEF One
  <2>3. \A k \in S : k = 1 \/ k = 2
    BY <1>1
  <2>4. 1 .. 2 = {1, 2}
    OBVIOUS
  <2> QED BY <2>2, <2>3, <2>4
<1>8. J = 3 /\ Cardinality(S) > 2 => S = 1 .. 3
  <2> SUFFICES ASSUME J = 3, Cardinality(S) > 2 PROVE S = 1 .. 3
    OBVIOUS
  <2>1. 4 \notin S /\ 5 \notin S
    BY <1>1
  <2>2. 1 \in S /\ 2 \in S /\ 3 \in S
    BY <1>3, <2>1 DEF One
  <2>3. \A k \in S : k = 1 \/ k = 2 \/ k = 3
    BY <1>1
  <2>4. 1 .. 3 = {1, 2, 3}
    OBVIOUS
  <2> QED BY <2>2, <2>3, <2>4
<1>9. S \in SUBSET (1 .. 2) => Cardinality(S) <= 2
  BY <1>3 DEF One
<1> QED BY <1>4, <1>6, <1>7, <1>8, <1>9 DEF S

(***************************************************************************)
(* osu!taiko and osu!standard                                              *)
(***************************************************************************)

(* Whatever a judgement is worth, the next one is worth less.              *)
Decreasing(i, J) == \A k, l \in 1 .. J : k < l => i.weight[k] > i.weight[l]

(* Hit results that are generated without more hits than there are.        *)
Generates(i, J, hits) ==
  /\ Keeps(i, J, hits)
  /\ Total(hits, J) \in 0 .. Remain(i)
  /\ Settled(i, J) => hits = i.given

LEMMA CompletedGenerates ==
  ASSUME NEW i, NEW J, IsRequest(i, J)
  PROVE  Generates(i, J, Completed(i))
<1>1. Keeps(i, J, Completed(i)) /\ Total(Completed(i), J) \in 0 .. Remain(i)
  BY CompletedAddsUp
<1>2. ASSUME Settled(i, J) PROVE Completed(i) = i.given
  <2>1. Missing(i) = {} /\ Total(i.given, J) <= Remain(i)
    BY <1>2, RequestParts DEF Settled
  <2> QED BY <2>1, CompletedAddsUp
<1> QED BY <1>1, <1>2 DEF Generates

LEMMA GreedyGenerates ==
  ASSUME NEW i, NEW J, IsScored(i, J), Missing(i) # {}
  PROVE  Generates(i, J, Greedy(i))
BY GreedyAddsUp DEF Generates, Settled

(* Two zeros, or three, with x in front, and what they keep.               *)
LEMMA NoneAddsUp ==
  ASSUME NEW i, NEW J, IsRequest(i, J), Missing(i) = 1 .. J,
         NEW h \in [1 .. J -> Nat]
  PROVE  Keeps(i, J, h) /\ ~Settled(i, J)
<1>1. 1 \in 1 .. J
  BY DEF IsRequest, Sizes
<1> QED BY <1>1 DEF Keeps, Settled

LEMMA TaikoAddsUp ==
  ASSUME NEW i, IsScored(i, 2), Decreasing(i, 2), NEW hits \in {TaikoFast(i), TaikoClosest(i)}
  PROVE  /\ Generates(i, 2, hits)
         /\ Missing(i) # {} => AddsUp(i, 2, hits)
         /\ Missing(i) = {} => hits = Completed(i)
<1>1. IsRequest(i, 2) /\ Remain(i) \in Nat
  BY RequestParts DEF IsScored
<1>2. Generates(i, 2, Completed(i)) /\ (Missing(i) # {} => AddsUp(i, 2, Completed(i)))
  BY <1>1, CompletedGenerates, CompletedAddsUp
<1>3. /\ Cardinality(Missing(i)) \in Nat
      /\ Missing(i) = {} => Cardinality(Missing(i)) <= 1
      /\ ~(Cardinality(Missing(i)) <= 1) => Missing(i) = 1 .. 2
  <2>1. /\ Cardinality(Missing(i)) \in Nat
        /\ Cardinality(Missing(i)) = 0 <=> Missing(i) = {}
        /\ Cardinality(Missing(i)) > 1 => Missing(i) = 1 .. 2
    BY <1>1, MissingCounts
  <2> QED BY <2>1
<1>4. CASE Cardinality(Missing(i)) <= 1
  BY <1>2, <1>4 DEF TaikoFast, TaikoClosest
<1>5. CASE ~(Cardinality(Missing(i)) <= 1)
  <2>1. Missing(i) = 1 .. 2 /\ Missing(i) # {} /\ 1 \in Missing(i) /\ 2 \in Missing(i)
    BY <1>3, <1>5
  <2>2. Generates(i, 2, Greedy(i)) /\ AddsUp(i, 2, Greedy(i))
    BY <2>1, GreedyGenerates, GreedyAddsUp
  <2>3. Generates(i, 2, Solve(i, <<0, 0>>, 1, 2)) /\ AddsUp(i, 2, Solve(i, <<0, 0>>, 1, 2))
    <3>1. <<0, 0>> \in [1 .. 2 -> Nat] /\ Total(<<0, 0>>, 2) = 0
      BY DEF Total
    <3>2. Keeps(i, 2, <<0, 0>>) /\ ~Settled(i, 2)
      BY <1>1, <2>1, <3>1, NoneAddsUp
    <3>3. i.weight[1] > i.weight[2] /\ Total(<<0, 0>>, 2) <= Remain(i)
      BY <1>1, <3>1 DEF Decreasing
    <3>4. Keeps(i, 2, Solve(i, <<0, 0>>, 1, 2)) /\ AddsUp(i, 2, Solve(i, <<0, 0>>, 1, 2))
      BY <2>1, <3>2, <3>3, SolveAddsUp
    <3> QED BY <1>1, <3>2, <3>4 DEF Generates, AddsUp
  <2> QED BY <1>3, <1>5, <2>1, <2>2, <2>3 DEF TaikoFast, TaikoClosest
<1> QED BY <1>4, <1>5

LEMMA OsuAllAddsUp ==
  ASSUME NEW i, IsScored(i, 3), Decreasing(i, 3), Missing(i) = 1 .. 3
  PROVE  Generates(i, 3, OsuClosestOfAll(i))
<1> DEFINE target == i.acc * AccMax(i) - AccSteps * i.tick_score
           min300 == Greatest(0, Floor(target - AccSteps * 50 * Remain(i), AccSteps * 250))
           max300 == Least(Remain(i), 1 + Greatest(0, Ceil(target, AccSteps * 300)))
           hits == [x \in min300 .. max300 |-> Solve(i, <<x, 0, 0>>, 2, 3)]
<1>1. IsRequest(i, 3) /\ Remain(i) \in Nat /\ ~Settled(i, 3)
  <2>1. IsRequest(i, 3) /\ <<0, 0, 0>> \in [1 .. 3 -> Nat]
    BY DEF IsScored
  <2> QED BY <2>1, RequestParts, NoneAddsUp
<1>2. min300 \in Nat /\ max300 \in 0 .. Remain(i)
  <2>1. i.acc \in Nat /\ AccMax(i) \in Nat /\ i.tick_score \in Nat /\ AccSteps \in Nat \ {0}
    <3>1. <<0, 0, 0>> \in [1 .. 3 -> Int]
      OBVIOUS
    <3> QED BY <3>1, ScoreIsInt, AccStepsAssumption DEF IsScored
  <2>2. target \in Int
    BY <2>1
  <2>3. target - AccSteps * 50 * Remain(i) \in Int /\ AccSteps * 250 \in Nat \ {0} /\ AccSteps * 300 \in Nat \ {0}
    BY <1>1, <2>1, <2>2
  <2> HIDE DEF target
  <2>4. Floor(target - AccSteps * 50 * Remain(i), AccSteps * 250) \in Int
        /\ Ceil(target, AccSteps * 300) \in Int
    BY <2>2, <2>3, Rounding, ZenonT(40)
  <2> QED BY <1>1, <2>4 DEF Greatest, Least
<1>3. OsuClosestOfAll(i) = IF min300 > max300 THEN <<0, 0, Remain(i)>> ELSE FirstClosest(i, hits)
  BY DEF OsuClosestOfAll
<1> HIDE DEF min300, max300
<1>4. ASSUME NEW h, Keeps(i, 3, h), AddsUp(i, 3, h) PROVE Generates(i, 3, h)
  BY <1>1, <1>4 DEF Generates, AddsUp
<1>5. CASE min300 > max300
  <2>1. <<0, 0, Remain(i)>> \in [1 .. 3 -> Nat]
    BY <1>1
  <2>2. AddsUp(i, 3, <<0, 0, Remain(i)>>)
    BY <1>1 DEF AddsUp, Total
  <2>3. Keeps(i, 3, <<0, 0, Remain(i)>>)
    BY <1>1, <2>1, NoneAddsUp
  <2> QED BY <1>3, <1>4, <1>5, <2>2, <2>3
<1>6. CASE ~(min300 > max300)
  <2> DEFINE D == min300 .. max300
  <2>1. D \in SUBSET Nat /\ D # {} /\ DOMAIN hits = D /\ \A x \in D : x \in 0 .. Remain(i)
    <3>1. min300 \in D
      BY <1>1, <1>2, <1>6
    <3> QED BY <1>1, <1>2, <3>1
  <2>2. ASSUME NEW x \in D
        PROVE  /\ Keeps(i, 3, hits[x]) /\ AddsUp(i, 3, hits[x]) /\ hits[x] \in [1 .. 3 -> Int]
    <3> DEFINE fixed == <<x, 0, 0>>
    <3>1. fixed \in [1 .. 3 -> Nat] /\ Total(fixed, 3) = x /\ x <= Remain(i)
      BY <1>1, <2>1 DEF Total
    <3>2. hits[x] = Solve(i, fixed, 2, 3)
      OBVIOUS
    <3> HIDE DEF fixed, hits
    <3>3. Keeps(i, 3, fixed) /\ Total(fixed, 3) <= Remain(i)
      BY <1>1, <3>1, NoneAddsUp
    <3>4. i.weight[2] > i.weight[3] /\ 2 \in Missing(i) /\ 3 \in Missing(i)
      BY DEF Decreasing
    <3>5. Keeps(i, 3, Solve(i, fixed, 2, 3)) /\ AddsUp(i, 3, Solve(i, fixed, 2, 3))
      BY <3>3, <3>4, SolveAddsUp
    <3> QED BY <3>2, <3>5 DEF Keeps
  <2> HIDE DEF D, hits
  <2>3. \E x \in D : FirstClosest(i, hits) = hits[x]
    <3>1. D \in SUBSET Nat /\ D # {} /\ DOMAIN hits = D
      BY <2>1
    <3> DEFINE J == 3
    <3>2. \A x \in D : hits[x] \in [1 .. J -> Int]
      BY <2>2
    <3>3. IsScored(i, J)
      OBVIOUS
    <3> HIDE DEF J
    <3>4. AreNumbered(i, J, D, hits)
      BY <3>1, <3>2, <3>3 DEF AreNumbered
    <3> QED BY <3>4, FirstClosestIs
  <2> QED BY <1>3, <1>4, <1>6, <2>2, <2>3
<1> QED BY <1>5, <1>6

LEMMA OsuAddsUp ==
  ASSUME NEW i, IsScored(i, 3), Decreasing(i, 3), NEW hits \in {OsuFast(i), OsuClosest(i)}
  PROVE  Generates(i, 3, hits)
<1>1. IsRequest(i, 3) /\ Remain(i) \in Nat
  BY RequestParts DEF IsScored
<1>2. Generates(i, 3, Completed(i))
  BY <1>1, CompletedGenerates
<1>3. /\ Cardinality(Missing(i)) \in Nat
      /\ Cardinality(Missing(i)) = 0 <=> Missing(i) = {}
      /\ Cardinality(Missing(i)) > 1 =>
           /\ Min(Missing(i)) \in Missing(i) /\ Max(Missing(i)) \in Missing(i)
           /\ Min(Missing(i)) < Max(Missing(i))
      /\ Cardinality(Missing(i)) > 2 => Missing(i) = 1 .. 3
  BY <1>1, MissingCounts
<1>4. Generates(i, 3, OsuFast(i))
  <2> DEFINE h == IF Cardinality(Missing(i)) <= 1 THEN Completed(i) ELSE Greedy(i)
  <2>1. Generates(i, 3, h)
    <3>1. ~(Cardinality(Missing(i)) <= 1) => Missing(i) # {}
      BY <1>3
    <3> QED BY <1>2, <3>1, GreedyGenerates
  <2>2. OsuFast(i) = FillUp(i, h)
    BY DEF OsuFast
  <2> HIDE DEF h
  <2>3. Keeps(i, 3, h) /\ Total(h, 3) <= Remain(i) /\ (Settled(i, 3) => h = i.given)
    BY <1>1, <2>1 DEF Generates
  <2>4. Keeps(i, 3, FillUp(i, h)) /\ AddsUp(i, 3, FillUp(i, h))
    BY <1>1, <2>3, FillsAddUp
  <2>5. Total(h, 3) = Remain(i) => FillUp(i, h) = h
    BY <1>1, <2>3, FillsAddUp
  <2>6. Settled(i, 3) => Total(h, 3) = Remain(i)
    BY <2>3 DEF Settled
  <2> QED BY <1>1, <2>2, <2>3, <2>4, <2>5, <2>6 DEF Generates, AddsUp
<1>5. Generates(i, 3, OsuClosest(i))
  <2>1. CASE Cardinality(Missing(i)) <= 1
    BY <1>2, <2>1, <1>3 DEF OsuClosest
  <2>2. CASE Cardinality(Missing(i)) = 2
    <3> DEFINE fixed == Clamp(i, BestFirst(i))
               hi == Min(Missing(i))
               lo == Max(Missing(i))
    <3>1. hi \in Missing(i) /\ lo \in Missing(i) /\ hi < lo /\ Missing(i) # {}
      BY <1>3, <2>2
    <3>2. hi \in 1 .. 3 /\ lo \in 1 .. 3
      BY <1>1, <3>1, RequestParts
    <3>3. i.weight[hi] > i.weight[lo]
      BY <3>1, <3>2 DEF Decreasing
    <3>4. Keeps(i, 3, fixed) /\ Total(fixed, 3) \in 0 .. Remain(i)
      BY <1>1, Orders, ClampKeeps
    <3>5. OsuClosest(i) = Solve(i, fixed, hi, lo)
      BY <2>2 DEF OsuClosest
    <3> HIDE DEF fixed, hi, lo
    <3>6. Total(fixed, 3) <= Remain(i)
      BY <1>1, <3>4
    <3>7. Keeps(i, 3, Solve(i, fixed, hi, lo)) /\ AddsUp(i, 3, Solve(i, fixed, hi, lo))
      BY <3>1, <3>2, <3>3, <3>4, <3>6, SolveAddsUp
    <3> QED BY <1>1, <3>1, <3>5, <3>7 DEF Generates, AddsUp, Settled
  <2>3. CASE Cardinality(Missing(i)) > 2
    <3>1. OsuClosest(i) = OsuClosestOfAll(i)
      BY <1>3, <2>3 DEF OsuClosest
    <3> QED BY <1>3, <2>3, <3>1, OsuAllAddsUp
  <2> QED BY <1>3, <2>1, <2>2, <2>3
<1> QED BY <1>4, <1>5

(***************************************************************************)
(* osu!mania                                                               *)
(***************************************************************************)

(* What judgements are worth in osu!mania.                                 *)
IsMania(i) ==
  /\ IsScored(i, 5)
  /\ i.weight \in {<<60, 60, 40, 20, 10>>, <<61, 60, 40, 20, 10>>}

LEMMA ManiaFastAddsUp ==
  ASSUME NEW i, IsScored(i, 5)
  PROVE  Generates(i, 5, ManiaFast(i))
<1>1. IsRequest(i, 5) /\ Remain(i) \in Nat
  BY RequestParts DEF IsScored
<1>2. CASE Missing(i) = {}
  <2>1. ManiaFast(i) = Clamp(i, BestFirst(i))
    <3>1. Cardinality(Missing(i)) # 1
      BY <1>1, <1>2, MissingCounts
    <3> QED BY <1>2, <3>1 DEF ManiaFast
  <2> DEFINE h == Clamp(i, BestFirst(i))
  <2>2. Keeps(i, 5, h) /\ Total(h, 5) \in 0 .. Remain(i) /\ (Settled(i, 5) => h = i.given)
    BY <1>1, Orders, ClampKeeps
  <2> QED BY <2>1, <2>2 DEF Generates
<1>3. CASE Missing(i) # {} /\ Cardinality(Missing(i)) = 1
  BY <1>1, <1>3, CompletedGenerates DEF ManiaFast
<1>4. CASE Missing(i) # {} /\ Cardinality(Missing(i)) # 1
  <2>1. ManiaFast(i) = FillUp(i, Greedy(i))
    BY <1>4 DEF ManiaFast
  <2> DEFINE h == Greedy(i)
  <2>2. Keeps(i, 5, h) /\ Total(h, 5) <= Remain(i)
    BY <1>1, <1>4, GreedyGenerates DEF Generates
  <2> HIDE DEF h
  <2>3. Keeps(i, 5, FillUp(i, h)) /\ AddsUp(i, 5, FillUp(i, h))
    BY <1>1, <2>2, FillsAddUp
  <2> QED BY <1>1, <1>4, <2>1, <2>3 DEF h, Generates, AddsUp, Settled
<1> QED BY <1>2, <1>3, <1>4

(* Two judgements share what is left for them.                             *)
LEMMA SplitIs ==
  ASSUME NEW remain \in Nat, NEW target \in Int, NEW hi \in Nat, NEW lo \in Nat, hi > lo
  PROVE  /\ Split(remain, target, hi, lo)[1] \in Nat /\ Split(remain, target, hi, lo)[2] \in Nat
         /\ Split(remain, target, hi, lo)[1] + Split(remain, target, hi, lo)[2] = remain
<1> DEFINE n == target - lo * remain
           d == hi - lo
           x == Least(remain, Greatest(0, RoundTiesEven(n, d)))
<1>1. n \in Int /\ d \in Nat \ {0}
  OBVIOUS
<1>2. Split(remain, target, hi, lo) = <<x, remain - x>>
  BY DEF Split
<1> HIDE DEF n, d
<1>3. RoundTiesEven(n, d) \in Int
  BY <1>1, Rounding
<1>4. x \in 0 .. remain
  BY <1>3 DEF Least, Greatest
<1> HIDE DEF x
<1>5. x \in Nat /\ remain - x \in Nat /\ x + (remain - x) = remain
  BY <1>4
<1> QED BY <1>2, <1>5

(* ... as do three.                                                        *)
LEMMA LastThreeIs ==
  ASSUME NEW remain \in Nat, NEW target \in Int
  PROVE  \E x, y, z \in Nat : LastThree(remain, target) = <<x, y, z>> /\ x + y + z = remain
<1> DEFINE min200 == Greatest(0, Floor(target - 20 * remain, 20))
           max200 == Least(remain, Greatest(0, Ceil(target, 40)) + 1)
           s(x) == Split(SaturatingSub(remain, x), target - 40 * x, 20, 10)
           hits(x) == <<x, s(x)[1], s(x)[2]>>
           D == min200 .. max200
           dist == [x \in D |-> Abs(40 * hits(x)[1] + 20 * hits(x)[2] + 10 * hits(x)[3] - target)]
<1>1. min200 \in Nat /\ max200 \in 0 .. remain
  <2>1. Floor(target - 20 * remain, 20) \in Int /\ Ceil(target, 40) \in Int
    <3>1. target - 20 * remain \in Int /\ 20 \in Nat \ {0} /\ 40 \in Nat \ {0}
      OBVIOUS
    <3> QED BY <3>1, Rounding
  <2> QED BY <2>1 DEF Greatest, Least
<1>2. LastThree(remain, target)
        = IF min200 > max200 THEN <<0, 0, remain>> ELSE hits(FirstLeast(dist))
  BY DEF LastThree
<1> HIDE DEF min200, max200
<1>3. ASSUME NEW x \in 0 .. remain
      PROVE  \E y, z \in Nat : hits(x) = <<x, y, z>> /\ x + y + z = remain
  <2> DEFINE r == SaturatingSub(remain, x)
             t == target - 40 * x
  <2>1. r = remain - x /\ r \in Nat /\ t \in Int /\ 20 \in Nat /\ 10 \in Nat /\ 20 > 10
    BY DEF SaturatingSub
  <2> HIDE DEF r, t
  <2>2. /\ Split(r, t, 20, 10)[1] \in Nat /\ Split(r, t, 20, 10)[2] \in Nat
        /\ Split(r, t, 20, 10)[1] + Split(r, t, 20, 10)[2] = r
    BY <2>1, SplitIs
  <2>3. s(x) = Split(r, t, 20, 10)
    BY DEF r, t
  <2> HIDE DEF s
  <2>4. s(x)[1] \in Nat /\ s(x)[2] \in Nat /\ x + s(x)[1] + s(x)[2] = remain
    BY <2>1, <2>2, <2>3
  <2> QED BY <2>4
<1> HIDE DEF s
<1>4. CASE min200 > max200
  <2>1. LastThree(remain, target) = <<0, 0, remain>> /\ 0 + 0 + remain = remain
    BY <1>2, <1>4
  <2> QED BY <2>1
<1>5. CASE ~(min200 > max200)
  <2>1. D \in SUBSET Nat /\ D # {} /\ \A x \in D : x \in 0 .. remain
    <3>1. min200 \in D
      BY <1>1, <1>5
    <3> QED BY <1>1, <3>1
  <2>2. ASSUME NEW x \in D
        PROVE  Abs(40 * hits(x)[1] + 20 * hits(x)[2] + 10 * hits(x)[3] - target) \in Nat
    <3>1. PICK y \in Nat, z \in Nat : hits(x) = <<x, y, z>>
      BY <1>3, <2>1
    <3>2. hits(x)[1] \in Int /\ hits(x)[2] \in Int /\ hits(x)[3] \in Int
      BY <2>1, <3>1
    <3> QED BY <3>2 DEF Abs
  <2>3. dist \in [D -> Nat]
    BY <2>2
  <2> HIDE DEF D, dist, hits
  <2>4. FirstLeast(dist) \in D
    BY <2>1, <2>3, FirstLeastIs
  <2> DEFINE p == FirstLeast(dist)
  <2>5. p \in 0 .. remain /\ p \in Nat
    BY <2>1, <2>4
  <2>6. LastThree(remain, target) = hits(p)
    BY <1>2, <1>5
  <2> HIDE DEF p
  <2>7. PICK y \in Nat, z \in Nat : hits(p) = <<p, y, z>> /\ p + y + z = remain
    BY <1>3, <2>5
  <2> QED BY <2>5, <2>6, <2>7
<1> QED BY <1>4, <1>5

(* What is given of the last three is kept, and unless all is they add up. *)
Or0(n) == IF n = None THEN 0 ELSE n

IsLastThree(n200, n100, n50, remain, h) ==
  /\ \E x, y, z \in Nat : h = <<x, y, z>>
  /\ n200 # None => h[1] = n200
  /\ n100 # None => h[2] = n100
  /\ n50 # None => h[3] = n50
  /\ n200 = None \/ n100 = None \/ n50 = None => h[1] + h[2] + h[3] = remain

LEMMA OptimizeLastThreeIs ==
  ASSUME NEW n200, n200 \in Nat \cup {None}, NEW n100, n100 \in Nat \cup {None},
         NEW n50, n50 \in Nat \cup {None},
         NEW remain, remain \in Nat, NEW target, target \in Int,
         Or0(n200) + Or0(n100) + Or0(n50) <= remain
  PROVE  IsLastThree(n200, n100, n50, remain, OptimizeLastThree(n200, n100, n50, remain, target))
<1> DEFINE g == OptimizeLastThree(n200, n100, n50, remain, target)
<1> SUFFICES ASSUME NEW h, h = g
             PROVE  /\ \E x, y, z \in Nat : h = <<x, y, z>>
                    /\ n200 # None => h[1] = n200
                    /\ n100 # None => h[2] = n100
                    /\ n50 # None => h[3] = n50
                    /\ n200 = None \/ n100 = None \/ n50 = None => h[1] + h[2] + h[3] = remain
  BY DEF IsLastThree
<1>1. ASSUME NEW n \in Nat, n <= remain, NEW w \in Nat, NEW hi \in Nat, NEW lo \in Nat, hi > lo
      PROVE  LET s == Split(SaturatingSub(remain, n), target - w * n, hi, lo)
             IN  s[1] \in Nat /\ s[2] \in Nat /\ n + s[1] + s[2] = remain
  <2> DEFINE r == SaturatingSub(remain, n)
             t == target - w * n
  <2>1. r = remain - n /\ r \in Nat /\ t \in Int
    BY <1>1 DEF SaturatingSub
  <2> HIDE DEF r, t
  <2>2. /\ Split(r, t, hi, lo)[1] \in Nat /\ Split(r, t, hi, lo)[2] \in Nat
        /\ Split(r, t, hi, lo)[1] + Split(r, t, hi, lo)[2] = r
    BY SMTT(30), <1>1, <2>1, SplitIs
  <2> DEFINE s == Split(r, t, hi, lo)
  <2> HIDE DEF s
  <2>3. s[1] \in Nat /\ s[2] \in Nat /\ n + s[1] + s[2] = remain
    BY <2>1, <2>2 DEF s
  <2> QED BY <2>3 DEF s, r, t
<1>2. CASE n200 # None /\ n100 # None /\ n50 # None
  BY <1>2 DEF OptimizeLastThree
<1>3. CASE n200 # None /\ n100 # None /\ n50 = None
  <2>1. n200 \in Nat /\ n100 \in Nat /\ n200 + n100 <= remain
    BY <1>3 DEF Or0
  <2>2. h = <<n200, n100, remain - (n200 + n100)>>
    BY <1>3, <2>1 DEF OptimizeLastThree, SaturatingSub
  <2>3. remain - (n200 + n100) \in Nat
    BY <2>1
  <2> QED BY <1>3, <2>1, <2>2, <2>3
<1>4. CASE n200 # None /\ n100 = None /\ n50 # None
  <2>1. n200 \in Nat /\ n50 \in Nat /\ n200 + n50 <= remain
    BY <1>4 DEF Or0
  <2>2. h = <<n200, remain - (n200 + n50), n50>>
    BY <1>4, <2>1 DEF OptimizeLastThree, SaturatingSub
  <2>3. remain - (n200 + n50) \in Nat
    BY <2>1
  <2> QED BY <1>4, <2>1, <2>2, <2>3
<1>5. CASE n200 = None /\ n100 # None /\ n50 # None
  <2>1. n100 \in Nat /\ n50 \in Nat /\ n100 + n50 <= remain
    BY <1>5 DEF Or0
  <2>2. h = <<remain - (n100 + n50), n100, n50>>
    BY <1>5, <2>1 DEF OptimizeLastThree, SaturatingSub
  <2>3. remain - (n100 + n50) \in Nat
    BY <2>1
  <2> QED BY <1>5, <2>1, <2>2, <2>3
<1>6. CASE n200 # None /\ n100 = None /\ n50 = None
  <2> DEFINE s == Split(SaturatingSub(remain, n200), target - 40 * n200, 20, 10)
  <2>1. n200 \in Nat /\ n200 <= remain
    BY <1>6 DEF Or0
  <2>2. h = <<n200, s[1], s[2]>>
    BY <1>6 DEF OptimizeLastThree
  <2>3. s[1] \in Nat /\ s[2] \in Nat /\ n200 + s[1] + s[2] = remain
    BY <1>1, <2>1
  <2> HIDE DEF s
  <2>4. s[1] \in Nat /\ s[2] \in Nat /\ n200 + s[1] + s[2] = remain
    BY <2>1, <2>3
  <2> DEFINE a == s[1]
             b == s[2]
  <2>5. h = <<n200, a, b>> /\ a \in Nat /\ b \in Nat
    BY <2>2, <2>4
  <2>6. h[1] + h[2] + h[3] = remain
    BY <2>1, <2>4, <2>5
  <2> HIDE DEF a, b
  <2> QED BY <1>6, <2>1, <2>5, <2>6
<1>7. CASE n200 = None /\ n100 # None /\ n50 = None
  <2> DEFINE s == Split(SaturatingSub(remain, n100), target - 20 * n100, 40, 10)
  <2>1. n100 \in Nat /\ n100 <= remain
    BY <1>7 DEF Or0
  <2>2. h = <<s[1], n100, s[2]>>
    BY <1>7 DEF OptimizeLastThree
  <2>3. s[1] \in Nat /\ s[2] \in Nat /\ n100 + s[1] + s[2] = remain
    BY <1>1, <2>1
  <2> HIDE DEF s
  <2>4. s[1] \in Nat /\ s[2] \in Nat /\ s[1] + n100 + s[2] = remain
    BY <2>1, <2>3
  <2> DEFINE a == s[1]
             b == s[2]
  <2>5. h = <<a, n100, b>> /\ a \in Nat /\ b \in Nat
    BY <2>2, <2>4
  <2>6. h[1] + h[2] + h[3] = remain
    BY <2>1, <2>4, <2>5
  <2> HIDE DEF a, b
  <2> QED BY <1>7, <2>1, <2>5, <2>6
<1>8. CASE n200 = None /\ n100 = None /\ n50 # None
  <2> DEFINE s == Split(SaturatingSub(remain, n50), target - 10 * n50, 40, 20)
  <2>1. n50 \in Nat /\ n50 <= remain
    BY <1>8 DEF Or0
  <2>2. h = <<s[1], s[2], n50>>
    BY <1>8 DEF OptimizeLastThree
  <2>3. s[1] \in Nat /\ s[2] \in Nat /\ n50 + s[1] + s[2] = remain
    BY <1>1, <2>1
  <2> HIDE DEF s
  <2>4. s[1] \in Nat /\ s[2] \in Nat /\ s[1] + s[2] + n50 = remain
    BY <2>1, <2>3
  <2> DEFINE a == s[1]
             b == s[2]
  <2>5. h = <<a, b, n50>> /\ a \in Nat /\ b \in Nat
    BY <2>2, <2>4
  <2>6. h[1] + h[2] + h[3] = remain
    BY <2>1, <2>4, <2>5
  <2> HIDE DEF a, b
  <2> QED BY <1>8, <2>1, <2>5, <2>6
<1>9. CASE n200 = None /\ n100 = None /\ n50 = None
  <2>1. h = LastThree(remain, target)
    BY <1>9 DEF OptimizeLastThree
  <2>2. \E x, y, z \in Nat : h = <<x, y, z>> /\ x + y + z = remain
    BY <2>1, LastThreeIs
  <2> QED BY <1>9, <2>2
<1> QED BY <1>2, <1>3, <1>4, <1>5, <1>6, <1>7, <1>8, <1>9

(* The numbers tried for a judgement lie within the room, there is one, and*)
(* a given number that fits is the only one.                               *)
AreTried(T, given, room, target, remain, low, w) ==
  /\ T = Tried(given, room, target, remain, <<low, w>>)
  /\ given \in Nat \cup {None} /\ remain \in Nat /\ room \in 0 .. remain
  /\ target \in Int /\ w \in {60, 61} /\ low = w - 10

LEMMA TriedIs ==
  ASSUME NEW T, NEW given, NEW room, NEW target, NEW remain, NEW low, NEW w,
         AreTried(T, given, room, target, remain, low, w)
  PROVE  T \in SUBSET (0 .. room) /\ T # {} /\ (given # None /\ given <= room => T = {given})
<1>0. /\ T = Tried(given, room, target, remain, <<low, w>>)
      /\ given \in Nat \cup {None} /\ remain \in Nat /\ room \in 0 .. remain
      /\ target \in Int /\ w \in {60, 61} /\ low = w - 10
  BY DEF AreTried
<1>1. CASE given # None
  <2>1. T = {Least(given, room)} /\ given \in Nat
    BY <1>0, <1>1 DEF Tried
  <2>2. Least(given, room) \in 0 .. room /\ (given <= room => Least(given, room) = given)
    BY <1>0, <2>1 DEF Least
  <2> QED BY <1>0, <2>1, <2>2
<1>2. CASE given = None
  <2> DEFINE u == Floor(target - 10 * remain, low)
             v == Ceil(target, w)
             lo == Least(room, Greatest(0, u))
             hi == Least(room, Greatest(0, v) + 1)
  <2>1. T = lo .. hi
    BY <1>0, <1>2 DEF Tried
  <2>2. u \in Int /\ (w - 10) * u <= target - 10 * remain
    <3>1. CASE w = 60
      BY <1>0, <3>1 DEF Floor
    <3>2. CASE w = 61
      BY <1>0, <3>2 DEF Floor
    <3> QED BY <1>0, <3>1, <3>2
  <2>3. v \in Int /\ w * v >= target
    <3>1. CASE w = 60
      BY <1>0, <3>1 DEF Ceil
    <3>2. CASE w = 61
      BY <1>0, <3>2 DEF Ceil
    <3> QED BY <1>0, <3>1, <3>2
  <2> HIDE DEF u, v
  <2>4. lo \in 0 .. room /\ hi \in 0 .. room
    BY <1>0, <2>2, <2>3 DEF Least, Greatest
  <2>5. lo <= hi
    <3> SUFFICES ASSUME lo > hi PROVE FALSE
      BY <1>0, <2>4
    <3>1. hi < room /\ hi >= 1 /\ v + 1 <= hi /\ hi < u /\ u >= lo
      BY <1>0, <2>2, <2>3, <2>4 DEF Least, Greatest
    <3>2. v + 2 <= u /\ v + 1 < remain
      BY <1>0, <2>2, <2>3, <2>4, <3>1
    <3>3. CASE w = 60
      BY <1>0, <2>2, <2>3, <3>2, <3>3
    <3>4. CASE w = 61
      BY <1>0, <2>2, <2>3, <3>2, <3>4
    <3> QED BY <1>0, <3>3, <3>4
  <2>6. lo \in lo .. hi /\ lo .. hi \in SUBSET (0 .. room)
    BY <1>0, <2>4, <2>5
  <2> HIDE DEF lo, hi
  <2> QED BY <1>0, <1>2, <2>1, <2>6
<1> QED BY <1>0, <1>1, <1>2

(* The target of the search and how far hit results are from it.           *)
LEMMA NearIsInt ==
  ASSUME NEW i, IsScored(i, 5)
  PROVE  /\ TargetScore(i) \in Int
         /\ \A h \in [1 .. 5 -> Int] : Abs(ScoreOf(i, h) - TargetScore(i)) \in Nat
<1>1. TargetScore(i) \in Int
  <2>1. i.acc * AccMax(i) \in Int
    <3>1. <<0, 0, 0, 0, 0>> \in [1 .. 5 -> Int]
      OBVIOUS
    <3>2. i.acc \in Nat /\ AccMax(i) \in Nat
      BY <3>1, ScoreIsInt DEF IsScored
    <3> QED BY <3>2
  <2> QED BY <2>1, AccStepsAssumption, Rounding DEF TargetScore
<1>2. ASSUME NEW h \in [1 .. 5 -> Int] PROVE Abs(ScoreOf(i, h) - TargetScore(i)) \in Nat
  <2>1. ScoreOf(i, h) \in Int
    BY ScoreIsInt
  <2> QED BY <1>1, <2>1 DEF Abs
<1> QED BY <1>1, <1>2

(* The nearest of numbered hit results is one of them, ...                 *)
LEMMA FirstNearestIs ==
  ASSUME NEW i, IsScored(i, 5), NEW D \in SUBSET Nat, D # {},
         NEW hits, DOMAIN hits = D, \A x \in D : hits[x] \in [1 .. 5 -> Int]
  PROVE  \E x \in D : FirstNearest(i, hits) = hits[x]
<1> DEFINE distance == [x \in DOMAIN hits |-> Abs(ScoreOf(i, hits[x]) - TargetScore(i))]
<1>1. distance \in [D -> Nat]
  BY NearIsInt
<1>2. FirstLeast(distance) \in D
  BY <1>1, FirstLeastIs
<1> QED BY <1>2 DEF FirstNearest

(* ... as is the nearest of those of pairs.                                *)
LEMMA NearestPairIs ==
  ASSUME NEW i, IsScored(i, 5), NEW P \in SUBSET (Nat \X Nat), P # {},
         NEW hits, DOMAIN hits = P, \A p \in P : hits[p] \in [1 .. 5 -> Int]
  PROVE  \E p \in P : NearestPair(i, hits) = hits[p]
<1> DEFINE dist == [p \in P |-> Abs(ScoreOf(i, hits[p]) - TargetScore(i))]
           far == {dist[p] : p \in P}
           least == Min(far)
           best == {p \in P : dist[p] = least}
           IsFirst(p) == \A q \in best : p[1] < q[1] \/ (p[1] = q[1] /\ p[2] <= q[2])
<1>1. dist \in [P -> Nat]
  BY NearIsInt
<1>2. NearestPair(i, hits) = hits[CHOOSE p \in best : IsFirst(p)]
  BY DEF NearestPair
<1> HIDE DEF dist
<1>3. far \in SUBSET Nat /\ far # {}
  BY <1>1
<1> HIDE DEF far
<1>4. least \in far
  <2>1. \E x \in far : \A y \in far : x <= y
    BY <1>3, SmallestExists
  <2> QED BY <2>1 DEF Min
<1> HIDE DEF least
<1>5. best \in SUBSET P /\ best # {}
  BY <1>4 DEF far
<1> HIDE DEF best
<1>6. \E p \in best : IsFirst(p)
  <2> DEFINE rows == {p[1] : p \in best}
  <2>1. rows \in SUBSET Nat /\ rows # {}
    BY <1>5
  <2>2. PICK r \in rows : \A y \in rows : r <= y
    BY <2>1, SmallestExists
  <2> DEFINE columns == {p[2] : p \in {q \in best : q[1] = r}}
  <2>3. columns \in SUBSET Nat /\ columns # {}
    BY <1>5
  <2>4. PICK c \in columns : \A y \in columns : c <= y
    BY <2>3, SmallestExists
  <2>5. PICK p \in best : p[1] = r /\ p[2] = c
    BY <2>4
  <2>6. ASSUME NEW q \in best PROVE p[1] < q[1] \/ (p[1] = q[1] /\ p[2] <= q[2])
    <3>1. r <= q[1] /\ (q[1] = r => c <= q[2]) /\ q[1] \in Nat /\ r \in Nat
      BY <1>5, <2>1, <2>2, <2>4
    <3> QED BY <2>5, <3>1
  <2> QED BY <2>6
<1>7. (CHOOSE p \in best : IsFirst(p)) \in best
  <2> HIDE DEF IsFirst
  <2> QED BY <1>6
<1> QED BY <1>2, <1>5, <1>7

(* Closest keeps what was given unless it is the 300s and the 320s are its *)
(* own choice.                                                             *)
KeepsMost(i, hits) ==
  /\ hits \in [1 .. 5 -> Nat]
  /\ Missing(i) # {} /\ Total(Amounts(i), 5) <= Remain(i) =>
       \A k \in 1 .. 5 : k \notin Missing(i) /\ ~(i.given[1] = None /\ k = 2) => hits[k] = i.given[k]

(* What is given of the last three judgements is more than there is left   *)
(* to hit; then it is kept, and there are too many hits.                   *)
TooMany(i) == Cardinality(Missing(i)) > 2 /\ Remain(i) > 0 /\ Given(i, 3 .. 5) > Remain(i)

KeepsLast(i, hits) ==
  /\ Total(hits, 5) > Remain(i)
  /\ \A k \in 3 .. 5 : k \notin Missing(i) => hits[k] = i.given[k]

(* What is given of some judgements is the sum of their amounts.           *)
LEMMA GivenIs ==
  ASSUME NEW i, IsRequest(i, 5)
  PROVE  /\ Given(i, Judgements(i)) = Total(Amounts(i), 5)
         /\ Given(i, 3 .. 5) = Amounts(i)[3] + Amounts(i)[4] + Amounts(i)[5]
         /\ Total(Amounts(i), 5) \in Nat
         /\ \A k \in 1 .. 5 : Amounts(i)[k] = Or0(i.given[k])
<1>1. /\ Judgements(i) = 1 .. 5 /\ Amounts(i) \in [1 .. 5 -> Nat]
      /\ i.given \in [1 .. 5 -> Nat \cup {None}]
  BY RequestParts DEF IsRequest
<1>2. Amounts(i) = [k \in 1 .. 5 |-> Or0(i.given[k])]
  BY <1>1 DEF Amounts, Or0
<1>3. Given(i, Judgements(i)) = SumFunction(Amounts(i))
  BY <1>1 DEF Given, Amounts
<1>4. Amounts(i) \in [1 .. 5 -> Int] /\ 5 \in Sizes
  BY <1>1 DEF Sizes
<1>5. SumFunction(Amounts(i)) = Total(Amounts(i), 5)
  BY <1>4, SumIsTotal
<1>6. Total(Amounts(i), 5) \in Nat
  BY <1>1 DEF Total
<1>7. Given(i, 3 .. 5) = Amounts(i)[3] + Amounts(i)[4] + Amounts(i)[5]
  <2> DEFINE D == 3 .. 5
             f == [k \in D |-> Or0(i.given[k])]
  <2>1. Given(i, D) = SumFunctionOnSet(f, D)
    <3>1. DOMAIN f = D
      OBVIOUS
    <3>2. Given(i, D) = SumFunction(f)
      BY DEF Given, Or0
    <3> HIDE DEF f
    <3> QED BY <3>1, <3>2 DEF SumFunction
  <2>2. D \in SUBSET (1 .. 5)
    OBVIOUS
  <2>3. \A k \in D : f[k] = Amounts(i)[k] /\ f[k] \in Int
    BY <1>1, <1>2
  <2> HIDE DEF f, D
  <2>4. SumFunctionOnSet(f, D) = Part(f, D, 1) + Part(f, D, 2) + Part(f, D, 3) + Part(f, D, 4) + Part(f, D, 5)
    BY <2>2, <2>3, SumOf
  <2>5. /\ Part(f, D, 1) = 0 /\ Part(f, D, 2) = 0 /\ Part(f, D, 3) = Amounts(i)[3]
        /\ Part(f, D, 4) = Amounts(i)[4] /\ Part(f, D, 5) = Amounts(i)[5]
    BY <2>3 DEF Part, D
  <2>6. Amounts(i)[3] \in Nat /\ Amounts(i)[4] \in Nat /\ Amounts(i)[5] \in Nat
    BY <1>1
  <2>7. Given(i, D) = Amounts(i)[3] + Amounts(i)[4] + Amounts(i)[5]
    BY <2>1, <2>4, <2>5, <2>6
  <2> QED BY <2>7 DEF D
<1> QED BY <1>1, <1>2, <1>3, <1>5, <1>6, <1>7

(* Two missing judgements share what is left.                              *)
LEMMA TwoMissingAddsUp ==
  ASSUME NEW i, IsMania(i), Cardinality(Missing(i)) = 2, Total(Amounts(i), 5) <= Remain(i)
  PROVE  Keeps(i, 5, OptimizeTwoMissing(i)) /\ AddsUp(i, 5, OptimizeTwoMissing(i))
<1> DEFINE hi == Min(Missing(i))
           lo == Max(Missing(i))
           rest == Remain(i) - Given(i, Judgements(i))
           fixed == Amounts(i)
           n == TargetScore(i) - ScoreOf(i, fixed) - i.weight[lo] * rest
           d == i.weight[hi] - i.weight[lo]
           clamp(x) == Least(rest, Greatest(0, x))
           tried == IF d = 0 THEN <<rest \div 2>>
                    ELSE <<0, clamp(Floor(n, d)), clamp(Ceil(n, d)), rest>>
           share(x) == Add(Add(fixed, hi, x), lo, rest - x)
           hits == [j \in DOMAIN tried |-> share(tried[j])]
<1>1. IsScored(i, 5) /\ IsRequest(i, 5) /\ Remain(i) \in Nat
  BY RequestParts DEF IsMania, IsScored
<1>2. /\ hi \in Missing(i) /\ lo \in Missing(i) /\ hi < lo /\ hi \in 1 .. 5 /\ lo \in 1 .. 5
  BY <1>1, MissingCounts, RequestParts
<1>3. rest \in Nat /\ Total(fixed, 5) + rest = Remain(i) /\ Total(fixed, 5) \in Nat
  BY <1>1, GivenIs
<1>4. Keeps(i, 5, fixed) /\ fixed \in [1 .. 5 -> Int]
  <2>1. fixed \in [1 .. 5 -> Nat] /\ \A k \in 1 .. 5 : k \notin Missing(i) => fixed[k] = i.given[k]
    BY ZenonT(40), <1>1, RequestParts
  <2> HIDE DEF fixed
  <2> QED BY <2>1 DEF Keeps
<1>5. OptimizeTwoMissing(i) = FirstNearest(i, hits)
  BY DEF OptimizeTwoMissing, Amounts
<1> HIDE DEF hi, lo, rest, fixed
<1>6. ASSUME NEW x \in 0 .. rest
      PROVE  Keeps(i, 5, share(x)) /\ AddsUp(i, 5, share(x)) /\ share(x) \in [1 .. 5 -> Int]
  <2> DEFINE m == rest - x
             more == Add(fixed, hi, x)
  <2>1. x \in Int /\ m \in Int /\ m >= 0 /\ x >= 0 /\ x + m = rest
    BY <1>3
  <2> HIDE DEF m
  <2>2. Keeps(i, 5, more) /\ Total(more, 5) = Total(fixed, 5) + x
    <3>1. fixed[hi] + x >= 0
      BY <1>2, <1>4, <2>1 DEF Keeps
    <3>2. Keeps(i, 5, fixed) /\ hi \in 1 .. 5 /\ hi \in Missing(i)
      BY <1>2, <1>4
    <3> QED BY <1>1, <2>1, <3>1, <3>2, AddToMissing
  <2> HIDE DEF more
  <2>3. /\ Keeps(i, 5, Add(more, lo, m)) /\ Add(more, lo, m) \in [1 .. 5 -> Int]
        /\ Total(Add(more, lo, m), 5) = Total(more, 5) + m
    <3>1. more[lo] + m >= 0
      BY <1>2, <2>1, <2>2 DEF Keeps
    <3> DEFINE J == 5
    <3>2. IsRequest(i, J) /\ Keeps(i, J, more) /\ lo \in 1 .. J /\ lo \in Missing(i) /\ m \in Int
      BY <1>1, <1>2, <2>1, <2>2
    <3> HIDE DEF J
    <3>3. /\ Keeps(i, J, Add(more, lo, m)) /\ Add(more, lo, m) \in [1 .. J -> Int]
          /\ Total(Add(more, lo, m), J) = Total(more, J) + m
      BY <3>1, <3>2, AddToMissing
    <3> QED BY <3>3 DEF J
  <2>4. Total(more, 5) + m = Remain(i)
    BY <1>1, <1>3, <2>1, <2>2
  <2> QED BY <2>3, <2>4 DEF more, m, AddsUp
<1> HIDE DEF share
<1>7. /\ DOMAIN tried \in SUBSET Nat /\ DOMAIN tried # {}
      /\ \A j \in DOMAIN tried : tried[j] \in 0 .. rest
  <2>1. d \in Nat /\ i.weight[lo] \in Nat
    <3>1. i.weight[hi] \in Nat /\ i.weight[lo] \in Nat /\ i.weight[hi] >= i.weight[lo]
      <4>1. CASE i.weight = <<60, 60, 40, 20, 10>>
        BY <1>2, <4>1
      <4>2. CASE i.weight = <<61, 60, 40, 20, 10>>
        BY <1>2, <4>2
      <4> QED BY <4>1, <4>2 DEF IsMania
    <3> QED BY <3>1
  <2>2. n \in Int
    <3>1. TargetScore(i) \in Int /\ ScoreOf(i, fixed) \in Int
      BY <1>1, <1>4, NearIsInt, ScoreIsInt
    <3> QED BY <1>3, <2>1, <3>1
  <2> HIDE DEF n, d
  <2>3. CASE d = 0
    <3>1. tried = <<rest \div 2>> /\ rest \div 2 \in 0 .. rest
      BY <1>3, <2>3
    <3> QED BY <3>1
  <2>4. CASE d # 0
    <3>1. Floor(n, d) \in Int /\ Ceil(n, d) \in Int
      BY <2>1, <2>2, <2>4, Rounding
    <3>2. clamp(Floor(n, d)) \in 0 .. rest /\ clamp(Ceil(n, d)) \in 0 .. rest /\ 0 \in 0 .. rest /\ rest \in 0 .. rest
      BY <1>3, <3>1 DEF Least, Greatest
    <3>3. tried = <<0, clamp(Floor(n, d)), clamp(Ceil(n, d)), rest>>
      BY <2>4
    <3> HIDE DEF tried, clamp
    <3>4. DOMAIN tried = 1 .. 4
      BY <3>3
    <3>5. \A j \in 1 .. 4 : tried[j] \in 0 .. rest
      BY <3>2, <3>3
    <3>6. 1 \in 1 .. 4
      OBVIOUS
    <3> QED BY <3>4, <3>5, <3>6
  <2> QED BY <2>3, <2>4
<1> HIDE DEF tried
<1>8. DOMAIN hits = DOMAIN tried /\ \A j \in DOMAIN tried : hits[j] = share(tried[j])
  OBVIOUS
<1> HIDE DEF hits
<1>9. \A j \in DOMAIN tried : hits[j] \in [1 .. 5 -> Int]
  BY <1>6, <1>7, <1>8
<1>10. \E j \in DOMAIN tried : FirstNearest(i, hits) = hits[j]
  <2>1. DOMAIN tried \in SUBSET Nat /\ DOMAIN tried # {} /\ DOMAIN hits = DOMAIN tried
    BY <1>7, <1>8
  <2> QED BY <1>1, <1>9, <2>1, FirstNearestIs
<1> QED BY <1>5, <1>6, <1>7, <1>8, <1>10

LEMMA TwoAndThree ==
  ASSUME NEW p1 \in Nat, NEW p2 \in Nat, NEW x \in Nat, NEW y \in Nat, NEW z \in Nat
  PROVE  <<p1, p2>> \o <<x, y, z>> = <<p1, p2, x, y, z>>
<1>1. <<p1, p2>> \in Seq(Nat) /\ Len(<<p1, p2>>) = 2 /\ <<x, y, z>> \in Seq(Nat) /\ Len(<<x, y, z>>) = 3
  OBVIOUS
<1> DEFINE f == <<p1, p2>> \o <<x, y, z>>
           g == <<p1, p2, x, y, z>>
<1>2. \A k \in 1 .. 5 : f[k] = g[k]
  BY <1>1
<1>3. f \in Seq(Nat) /\ Len(f) = 5
  BY <1>1
<1>4. DOMAIN f = 1 .. 5 /\ f = [k \in 1 .. 5 |-> f[k]]
  <2> HIDE DEF f
  <2> QED BY <1>3
<1>5. g \in [1 .. 5 -> Nat]
  OBVIOUS
<1> HIDE DEF f, g
<1>6. f = g
  BY <1>2, <1>4, <1>5
<1> QED BY <1>6 DEF f, g

(* With three or more missing, every pair that is tried leaves room for    *)
(* what is given of the last three, and these take what the pair leaves.   *)
LEMMA ThreeMissingAddsUp ==
  ASSUME NEW i, IsMania(i), Cardinality(Missing(i)) > 2
  PROVE  /\ KeepsMost(i, OptimizeThreePlusMissing(i))
         /\ Given(i, 3 .. 5) <= Remain(i) => AddsUp(i, 5, OptimizeThreePlusMissing(i))
         /\ Given(i, 3 .. 5) > Remain(i) => KeepsLast(i, OptimizeThreePlusMissing(i))
<1> DEFINE R == Remain(i)
           T == TargetScore(i)
           w == i.weight[1]
           kept == Given(i, 3 .. 5)
           room(remain) == SaturatingSub(remain, kept)
           first == Tried(i.given[1], room(R), T, R, <<w - 10, w>>)
           second(x) == Tried(i.given[2], room(R - x), T - w * x, R - x, <<50, 60>>)
           pairs == {p \in first \X (0 .. R) : p[2] \in second(p[1])}
           last(p) == OptimizeLastThree(i.given[3], i.given[4], i.given[5], R - p[1] - p[2],
                                        T - w * p[1] - 60 * p[2])
           hits == [p \in pairs |-> <<p[1], p[2]>> \o last(p)]
           asGiven == [k \in 1 .. 5 |-> IF i.given[k] # None THEN i.given[k]
                                        ELSE IF k = 5 THEN R ELSE 0]
           a == Amounts(i)
<1>1. IsScored(i, 5) /\ IsRequest(i, 5) /\ R \in Nat /\ T \in Int /\ w \in {60, 61}
  <2>1. IsScored(i, 5) /\ IsRequest(i, 5)
    BY DEF IsMania, IsScored
  <2> QED BY <2>1, RequestParts, NearIsInt DEF IsMania
<1>2. /\ kept = a[3] + a[4] + a[5] /\ Total(a, 5) \in Nat
      /\ \A k \in 1 .. 5 : a[k] = Or0(i.given[k])
      /\ \A k \in 1 .. 5 : a[k] \in Nat /\ i.given[k] \in Nat \cup {None}
  <2>1. kept = a[3] + a[4] + a[5] /\ Total(a, 5) \in Nat /\ \A k \in 1 .. 5 : a[k] = Or0(i.given[k])
    BY <1>1, GivenIs
  <2>2. \A k \in 1 .. 5 : a[k] \in Nat
    <3>1. a \in [1 .. 5 -> Nat]
      BY ZenonT(40), <1>1, RequestParts
    <3> HIDE DEF a
    <3> QED BY <3>1
  <2>3. \A k \in 1 .. 5 : i.given[k] \in Nat \cup {None}
    BY <1>1 DEF IsRequest
  <2> QED BY <2>1, <2>2, <2>3
<1>3. OptimizeThreePlusMissing(i) = IF R < kept THEN asGiven ELSE NearestPair(i, hits)
  BY DEF OptimizeThreePlusMissing
<1>4. kept \in Nat /\ Total(a, 5) = a[1] + a[2] + kept
  BY <1>2 DEF Total
<1> HIDE DEF kept, R, T, w, a
<1>5. CASE R < kept
  <2>1. asGiven \in [1 .. 5 -> Nat]
    BY <1>1, <1>2
  <2>2. a[1] \in Nat /\ a[2] \in Nat
    BY <1>2
  <2>3. ~(Total(a, 5) <= R) /\ ~(kept <= R)
    BY <1>1, <1>4, <1>5, <2>2
  <2>4. \A k \in 1 .. 5 : k \notin Missing(i) <=> i.given[k] # None
    BY <1>1, RequestParts DEF Missing
  <2>5. \A k \in 3 .. 5 : k \notin Missing(i) => asGiven[k] = i.given[k]
    BY <2>4
  <2> DEFINE h == asGiven
  <2>6. /\ \A k \in 1 .. 5 : h[k] \in Nat
        /\ h[3] >= a[3] /\ h[4] >= a[4] /\ h[5] >= a[5]
        /\ a[3] \in Nat /\ a[4] \in Nat /\ a[5] \in Nat
    <3>1. \A k \in 1 .. 5 : h[k] \in Nat
      BY <2>1
    <3>2. ASSUME NEW k \in 3 .. 5 PROVE h[k] >= a[k]
      <4>1. k \in 1 .. 5 /\ a[k] \in Nat /\ h[k] \in Nat /\ a[k] = Or0(i.given[k])
        BY <1>2, <3>1
      <4>2. CASE i.given[k] # None
        <5>1. h[k] = i.given[k]
          BY <4>1, <4>2
        <5> HIDE DEF h
        <5> QED BY <4>1, <4>2, <5>1 DEF Or0
      <4>3. CASE i.given[k] = None
        <5>1. a[k] = 0
          BY <4>1, <4>3 DEF Or0
        <5> HIDE DEF h
        <5> QED BY <4>1, <5>1
      <4> QED BY <4>2, <4>3
    <3> QED BY <1>2, <3>1, <3>2
  <2> HIDE DEF h
  <2>7. Total(h, 5) > R
    <3>1. h[1] \in Nat /\ h[2] \in Nat /\ h[3] \in Nat /\ h[4] \in Nat /\ h[5] \in Nat
      BY <2>6
    <3>2. Total(h, 5) = h[1] + h[2] + h[3] + (h[4] + h[5])
      BY DEF Total
    <3> QED BY <1>1, <1>2, <1>5, <2>6, <3>1, <3>2
  <2>8. KeepsLast(i, h) /\ KeepsMost(i, h)
    BY <2>1, <2>3, <2>5, <2>7 DEF KeepsLast, KeepsMost, a, R, h
  <2> QED BY <1>3, <1>5, <2>3, <2>8 DEF R, kept, h
<1>6. CASE ~(R < kept)
  <2>1. room(R) = R - kept /\ room(R) \in 0 .. R
    BY <1>1, <1>4, <1>6 DEF SaturatingSub
  <2>2. /\ first \in SUBSET (0 .. R - kept) /\ first # {}
        /\ i.given[1] # None /\ i.given[1] <= R - kept => first = {i.given[1]}
    <3> DEFINE g == i.given[1]
               q == room(R)
    <3>1. g \in Nat \cup {None} /\ q \in 0 .. R /\ q = R - kept
      BY <1>2, <2>1
    <3> DEFINE low == w - 10
               S == first
    <3>2. S = Tried(g, q, T, R, <<low, w>>) /\ low = w - 10
      OBVIOUS
    <3> HIDE DEF g, q, first, second, low, S
    <3>3. S \in SUBSET (0 .. q) /\ S # {} /\ (g # None /\ g <= q => S = {g})
      <4>1. AreTried(S, g, q, T, R, low, w)
        BY <1>1, <3>1, <3>2 DEF AreTried
      <4> QED BY <4>1, TriedIs
    <3> QED BY <3>1, <3>3 DEF g, S
  <2>3. ASSUME NEW x \in 0 .. R - kept
        PROVE  /\ second(x) \in SUBSET (0 .. R - x - kept) /\ second(x) # {}
               /\ i.given[2] # None /\ i.given[2] <= R - x - kept => second(x) = {i.given[2]}
    <3> DEFINE r == R - x
               t == T - w * x
               v == 60
               q == room(r)
               g == i.given[2]
    <3>1. r \in Nat /\ t \in Int /\ room(r) = r - kept /\ room(r) \in 0 .. r
      BY <1>1, <1>4, <1>6 DEF SaturatingSub
    <3> DEFINE low == v - 10
               S == second(x)
    <3>2. S = Tried(g, q, t, r, <<low, v>>) /\ low = v - 10 /\ v \in {60, 61}
      OBVIOUS
    <3>3. g \in Nat \cup {None} /\ q \in 0 .. r /\ q = R - x - kept
      BY <1>2, <3>1
    <3> HIDE DEF r, t, v, q, g, low, S, first, second
    <3>4. S \in SUBSET (0 .. q) /\ S # {} /\ (g # None /\ g <= q => S = {g})
      <4>1. AreTried(S, g, q, t, r, low, v)
        BY <3>1, <3>2, <3>3 DEF AreTried
      <4> QED BY <4>1, TriedIs
    <3> QED BY <3>3, <3>4 DEF g, S
  <2> HIDE DEF first, second
  <2>4. ASSUME NEW p \in pairs
        PROVE  /\ p[1] \in first /\ p[2] \in second(p[1])
               /\ p[1] \in Nat /\ p[2] \in Nat /\ p[1] + p[2] <= R - kept
    <3>1. p[1] \in first /\ p[2] \in second(p[1])
      OBVIOUS
    <3>2. p[1] \in 0 .. R - kept
      BY <2>2, <3>1
    <3>3. p[2] \in 0 .. R - p[1] - kept
      BY <2>3, <3>1, <3>2
    <3> QED BY <1>1, <1>4, <3>1, <3>2, <3>3
  <2>5. pairs \in SUBSET (Nat \X Nat) /\ pairs # {}
    <3>1. PICK x \in first : x \in 0 .. R - kept
      BY <2>2
    <3>2. PICK y \in second(x) : y \in 0 .. R - x - kept
      BY <2>3, <3>1
    <3>3. y \in 0 .. R /\ x \in Nat
      BY <1>1, <1>4, <3>1, <3>2
    <3>4. <<x, y>> \in pairs
      BY <3>1, <3>2, <3>3
    <3>5. first \in SUBSET Nat /\ 0 .. R \in SUBSET Nat
      BY <2>2
    <3> QED BY <3>4, <3>5
  <2>6. ASSUME NEW p \in pairs
        PROVE  /\ \E x, y, z \in Nat : last(p) = <<x, y, z>>
               /\ i.given[3] # None => last(p)[1] = i.given[3]
               /\ i.given[4] # None => last(p)[2] = i.given[4]
               /\ i.given[5] # None => last(p)[3] = i.given[5]
               /\ last(p)[1] + last(p)[2] + last(p)[3] = R - p[1] - p[2]
    <3> DEFINE r == R - p[1] - p[2]
               t == T - w * p[1] - 60 * p[2]
    <3>1. r \in Nat /\ t \in Int /\ Or0(i.given[3]) + Or0(i.given[4]) + Or0(i.given[5]) <= r
      BY <1>1, <1>2, <1>4, <2>4
    <3>2. last(p) = OptimizeLastThree(i.given[3], i.given[4], i.given[5], r, t)
      OBVIOUS
    <3>3. i.given[3] \in Nat \cup {None} /\ i.given[4] \in Nat \cup {None} /\ i.given[5] \in Nat \cup {None}
      BY <1>2
    <3>4. i.given[3] = None \/ i.given[4] = None \/ i.given[5] = None
      <4> SUFFICES ASSUME i.given[3] # None, i.given[4] # None, i.given[5] # None PROVE FALSE
        OBVIOUS
      <4>1. \A k \in 1 .. 5 : k \in Missing(i) => i.given[k] = None
        BY DEF Missing
      <4>2. Missing(i) \in SUBSET (1 .. 5)
        BY <1>1, RequestParts
      <4>3. 3 \notin Missing(i) /\ 4 \notin Missing(i) /\ 5 \notin Missing(i)
        BY <4>1
      <4>4. Missing(i) \in SUBSET (1 .. 2)
        BY <4>2, <4>3
      <4>5. Cardinality(Missing(i)) <= 2 /\ Cardinality(Missing(i)) \in Nat
        BY <1>1, <4>4, MissingCounts
      <4> QED BY <4>5
    <3> DEFINE n200 == i.given[3]
               n100 == i.given[4]
               n50  == i.given[5]
               h == OptimizeLastThree(n200, n100, n50, r, t)
    <3>5. /\ n200 \in Nat \cup {None} /\ n100 \in Nat \cup {None} /\ n50 \in Nat \cup {None}
          /\ Or0(n200) + Or0(n100) + Or0(n50) <= r
      BY <3>1, <3>3
    <3> HIDE DEF r, t, last, n200, n100, n50
    <3>6. /\ \E x, y, z \in Nat : h = <<x, y, z>>
          /\ n200 # None => h[1] = n200
          /\ n100 # None => h[2] = n100
          /\ n50 # None => h[3] = n50
          /\ n200 = None \/ n100 = None \/ n50 = None => h[1] + h[2] + h[3] = r
      <4>1. r \in Nat /\ t \in Int
        BY <3>1
      <4>2. IsLastThree(n200, n100, n50, r, h)
        BY <3>5, <4>1, OptimizeLastThreeIs
      <4> HIDE DEF h
      <4> QED BY <4>2 DEF IsLastThree
    <3>7. last(p) = h
      BY <3>2 DEF n200, n100, n50
    <3> HIDE DEF h
    <3> QED BY <3>4, <3>6, <3>7 DEF r, n200, n100, n50
  <2> HIDE DEF last
  <2>7. ASSUME NEW p \in pairs
        PROVE  /\ hits[p] \in [1 .. 5 -> Nat] /\ Total(hits[p], 5) = R
               /\ hits[p][1] = p[1] /\ hits[p][2] = p[2]
               /\ \A k \in 3 .. 5 : i.given[k] # None => hits[p][k] = i.given[k]
    <3>1. PICK x \in Nat, y \in Nat, z \in Nat : last(p) = <<x, y, z>>
      BY <2>6
    <3> DEFINE p1 == p[1]
               p2 == p[2]
    <3>2. p1 \in Nat /\ p2 \in Nat
      BY <2>4
    <3>3. hits[p] = <<p1, p2, x, y, z>>
      <4>1. hits[p] = <<p1, p2>> \o <<x, y, z>>
        BY <3>1
      <4>2. <<p1, p2>> \o <<x, y, z>> = <<p1, p2, x, y, z>>
        <5> HIDE DEF p1, p2
        <5> QED BY <3>2, TwoAndThree
      <4> QED BY <4>1, <4>2
    <3>4. x + y + z = R - p1 - p2
      BY <2>6, <3>1
    <3>5. /\ i.given[3] # None => x = i.given[3]
          /\ i.given[4] # None => y = i.given[4]
          /\ i.given[5] # None => z = i.given[5]
      BY <2>6, <3>1
    <3> HIDE DEF p1, p2, hits
    <3>6. hits[p] \in [1 .. 5 -> Nat]
      BY <3>2, <3>3
    <3>7. Total(hits[p], 5) = R
      BY <1>1, <3>2, <3>3, <3>4 DEF Total
    <3>8. \A k \in 3 .. 5 : k = 3 \/ k = 4 \/ k = 5
      OBVIOUS
    <3> QED BY <3>3, <3>5, <3>6, <3>7, <3>8 DEF p1, p2
  <2>8. \E p \in pairs : NearestPair(i, hits) = hits[p]
    <3>1. DOMAIN hits = pairs /\ \A p \in pairs : hits[p] \in [1 .. 5 -> Int]
      BY <2>7
    <3> HIDE DEF hits, pairs
    <3> QED BY <1>1, <2>5, <3>1, NearestPairIs
  <2>9. PICK p \in pairs : OptimizeThreePlusMissing(i) = hits[p]
    BY <1>3, <1>6, <2>8
  <2>10. AddsUp(i, 5, hits[p]) /\ hits[p] \in [1 .. 5 -> Nat]
    BY <2>7 DEF AddsUp, R
  <2>11. KeepsMost(i, hits[p])
    <3>1. ASSUME Total(a, 5) <= R, NEW k \in 1 .. 5, i.given[k] # None,
                 ~(i.given[1] = None /\ k = 2)
          PROVE  hits[p][k] = i.given[k]
      <4>1. p[1] \in first /\ p[2] \in second(p[1]) /\ p[1] \in 0 .. R - kept
        BY <2>2, <2>4
      <4>2. a[1] \in Nat /\ a[2] \in Nat /\ a[1] + a[2] <= R - kept
        BY <1>1, <1>2, <1>4, <3>1
      <4>3. i.given[1] # None => p[1] = i.given[1]
        <5> SUFFICES ASSUME i.given[1] # None PROVE p[1] = i.given[1]
          OBVIOUS
        <5>1. i.given[1] = a[1] /\ a[1] <= R - kept
          BY <1>1, <1>2, <1>4, <4>2 DEF Or0
        <5> QED BY <2>2, <4>1, <5>1
      <4>4. k = 2 => p[2] = i.given[2]
        <5> SUFFICES ASSUME k = 2 PROVE p[2] = i.given[2]
          OBVIOUS
        <5>1. i.given[1] = a[1] /\ i.given[2] = a[2] /\ p[1] = a[1]
          BY <1>2, <3>1, <4>3 DEF Or0
        <5>2. i.given[2] <= R - p[1] - kept
          BY <1>1, <1>4, <4>2, <5>1
        <5>3. second(p[1]) = {i.given[2]}
          BY <2>3, <3>1, <4>1, <5>2
        <5> QED BY <4>1, <5>3
      <4>5. k = 1 \/ k = 2 \/ k \in 3 .. 5
        OBVIOUS
      <4> QED BY <2>7, <3>1, <4>3, <4>4, <4>5
    <3>2. \A k \in 1 .. 5 : k \notin Missing(i) => i.given[k] # None
      BY <1>1, RequestParts DEF Missing
    <3> HIDE DEF hits, pairs
    <3> QED BY <2>10, <3>1, <3>2 DEF KeepsMost, a, R
  <2>12. ~(kept > R)
    BY <1>1, <1>4, <1>6
  <2> QED BY <2>9, <2>10, <2>11, <2>12 DEF kept, R
<1> QED BY <1>5, <1>6

(* Unless two missing judgements make it underflow, Closest gives natural  *)
(* numbers, which keep what was given and add up if that fits.             *)
LEMMA ManiaClosestAddsUp ==
  ASSUME NEW i, IsMania(i), ~Overgiven(i)
  PROVE  /\ ManiaClosest(i) \in [1 .. 5 -> Nat]
         /\ KeepsMost(i, ManiaClosest(i))
         /\ ~TooMany(i) => Total(ManiaClosest(i), 5) <= Remain(i)
         /\ TooMany(i) => KeepsLast(i, ManiaClosest(i))
         /\ Settled(i, 5) => ManiaClosest(i) = i.given
<1> DEFINE h == ManiaClosest(i)
           C == Cardinality(Missing(i))
<1>1. IsScored(i, 5) /\ IsRequest(i, 5) /\ Remain(i) \in Nat
  BY RequestParts DEF IsMania, IsScored
<1>2. /\ C \in Nat /\ (C = 0 <=> Missing(i) = {})
  BY <1>1, MissingCounts
<1>3. ASSUME Keeps(i, 5, h), Total(h, 5) \in 0 .. Remain(i), Settled(i, 5) => h = i.given
      PROVE  /\ h \in [1 .. 5 -> Nat]
             /\ KeepsMost(i, h) /\ Total(h, 5) <= Remain(i)
             /\ Settled(i, 5) => h = i.given
  <2> HIDE DEF h
  <2>1. Total(h, 5) <= Remain(i)
    BY <1>1, <1>3
  <2> QED BY <1>3, <2>1 DEF Keeps, KeepsMost
<1>4. CASE Remain(i) = 0
  <2>7. ~TooMany(i)
    BY <1>4 DEF TooMany
  <2> DEFINE z == <<0, 0, 0, 0, 0>>
  <2>1. h = z
    BY <1>4 DEF ManiaClosest
  <2>2. z \in [1 .. 5 -> Nat] /\ Total(z, 5) = 0 /\ \A k \in 1 .. 5 : z[k] = 0
    BY DEF Total
  <2>3. ASSUME Total(Amounts(i), 5) <= 0, NEW k \in 1 .. 5
        PROVE  Amounts(i)[k] = 0
    <3>1. Amounts(i) \in [1 .. 5 -> Nat]
      BY <1>1, RequestParts
    <3>2. \A j \in 1 .. 5 : Amounts(i)[j] \in Nat
      BY <3>1
    <3>3. k \in {1, 2, 3, 4, 5}
      OBVIOUS
    <3> DEFINE f == Amounts(i)
    <3>4. /\ f[1] \in Nat /\ f[2] \in Nat /\ f[3] \in Nat /\ f[4] \in Nat /\ f[5] \in Nat
          /\ f[1] + f[2] + f[3] + (f[4] + f[5]) <= 0
      BY <2>3, <3>2 DEF Total
    <3> HIDE DEF f
    <3>5. f[1] = 0 /\ f[2] = 0 /\ f[3] = 0 /\ f[4] = 0 /\ f[5] = 0
      BY SMTT(30), <3>4
    <3> QED BY <3>3, <3>5 DEF f
  <2> HIDE DEF z
  <2>4. Keeps(i, 5, z)
    <3>1. \A k \in 1 .. 5 : k \notin Missing(i) => Amounts(i)[k] = i.given[k]
      BY <1>1, RequestParts
    <3> QED BY <1>4, <2>2, <2>3, <3>1 DEF Keeps
  <2>5. Settled(i, 5) => z = i.given
    <3> SUFFICES ASSUME Settled(i, 5) PROVE z = i.given
      OBVIOUS
    <3>1. Amounts(i) = i.given /\ i.given \in [1 .. 5 -> Nat] /\ Total(Amounts(i), 5) = 0
      BY <1>1, <1>4, SettledAmounts DEF Settled
    <3>2. \A k \in 1 .. 5 : i.given[k] = 0
      BY <2>3, <3>1
    <3> QED BY <2>2, <3>1, <3>2
  <2>6. Total(z, 5) \in 0 .. Remain(i)
    BY <1>4, <2>2
  <2> HIDE DEF h
  <2> QED BY <1>3, <2>1, <2>4, <2>5, <2>6, <2>7 DEF h
<1>5. CASE Remain(i) > 0 /\ C <= 1
  <2>1. h = Completed(i)
    <3>1. ~(C = 2)
      BY <1>2, <1>5
    <3> QED BY <1>5, <3>1 DEF ManiaClosest
  <2>2. Generates(i, 5, Completed(i))
    BY <1>1, CompletedGenerates
  <2>3. ~TooMany(i)
    BY <1>2, <1>5 DEF TooMany
  <2> HIDE DEF h
  <2> QED BY <1>3, <2>1, <2>2, <2>3 DEF Generates, h
<1>6. CASE Remain(i) > 0 /\ C = 2
  <2>1. h = OptimizeTwoMissing(i)
    BY <1>6 DEF ManiaClosest
  <2>2. Total(Amounts(i), 5) <= Remain(i)
    <3>1. ~(Given(i, Judgements(i)) > Remain(i))
      BY <1>6 DEF Overgiven
    <3>2. Given(i, Judgements(i)) = Total(Amounts(i), 5) /\ Total(Amounts(i), 5) \in Nat
      BY <1>1, GivenIs
    <3> QED BY <1>1, <3>1, <3>2
  <2>3. Keeps(i, 5, h) /\ AddsUp(i, 5, h)
    BY <1>6, <2>1, <2>2, TwoMissingAddsUp
  <2>4. ~Settled(i, 5)
    BY <1>2, <1>6 DEF Settled
  <2>5. Total(h, 5) \in 0 .. Remain(i)
    BY <1>1, <2>3 DEF AddsUp
  <2>6. ~TooMany(i)
    BY <1>6 DEF TooMany
  <2> HIDE DEF h
  <2> QED BY <1>3, <2>3, <2>4, <2>5, <2>6 DEF h
<1>7. CASE Remain(i) > 0 /\ C > 2
  <2>1. h = OptimizeThreePlusMissing(i)
    <3>1. Remain(i) # 0 /\ ~(C <= 1) /\ C # 2
      BY <1>2, <1>7
    <3> QED BY <3>1 DEF ManiaClosest
  <2>2. ~Settled(i, 5)
    BY <1>2, <1>7 DEF Settled
  <2>3. /\ KeepsMost(i, h)
        /\ Given(i, 3 .. 5) <= Remain(i) => AddsUp(i, 5, h)
        /\ Given(i, 3 .. 5) > Remain(i) => KeepsLast(i, h)
    BY <1>7, <2>1, ThreeMissingAddsUp
  <2>4. AddsUp(i, 5, h) => Total(h, 5) <= Remain(i)
    BY <1>1 DEF AddsUp
  <2>5. Given(i, 3 .. 5) \in Nat
    <3>1. \A k \in 1 .. 5 : Amounts(i)[k] \in Nat
      <4>1. Amounts(i) \in [1 .. 5 -> Nat]
        BY <1>1, RequestParts
      <4> DEFINE f == Amounts(i)
      <4> HIDE DEF f
      <4> QED BY <4>1 DEF f
    <3> QED BY <1>1, <3>1, GivenIs
  <2>6. /\ TooMany(i) => Given(i, 3 .. 5) > Remain(i)
        /\ ~TooMany(i) => Given(i, 3 .. 5) <= Remain(i)
    BY <1>1, <1>7, <2>5 DEF TooMany
  <2>7. h \in [1 .. 5 -> Nat]
    BY <2>3 DEF KeepsMost
  <2> HIDE DEF h
  <2> QED BY <2>2, <2>3, <2>4, <2>6, <2>7 DEF h
<1> QED BY <1>1, <1>2, <1>4, <1>5, <1>6, <1>7

(***************************************************************************)
(* Attributes                                                              *)
(***************************************************************************)
IsAttributes(m, a) == a \in [AttrFields[m] -> Nat]

(* Counts of objects are natural numbers.                                  *)
LEMMA CalculatedCounts ==
  ASSUME NEW m \in Modes, NEW passed \in Nat
  PROVE  IsAttributes(m, Calculated(m, passed))
<1> DEFINE n == Least(passed, Len(Beatmap[m]))
<1>1. Beatmap[m] \in Seq([AttrFields[m] -> Nat])
  BY BeatmapAssumption
<1>2. n \in Nat /\ \A k \in 1 .. n : Beatmap[m][k] \in [AttrFields[m] -> Nat]
  <2>1. Len(Beatmap[m]) \in Nat /\ \A k \in 1 .. Len(Beatmap[m]) : Beatmap[m][k] \in [AttrFields[m] -> Nat]
    BY <1>1
  <2>2. n \in Nat /\ n <= Len(Beatmap[m])
    BY <2>1 DEF Least
  <2> HIDE DEF n
  <2> QED BY <2>1, <2>2
<1> HIDE DEF n
<1>3. ASSUME NEW f \in AttrFields[m]
      PROVE  LET upTo[k \in 0 .. n] == IF k = 0 THEN 0 ELSE upTo[k - 1] + Beatmap[m][k][f]
             IN  upTo[n] \in Nat
  <2> DEFINE w == [k \in 1 .. n |-> Beatmap[m][k][f]]
             Counts(u) == u = [k \in 0 .. n |-> IF k = 0 THEN 0 ELSE u[k - 1] + Beatmap[m][k][f]]
             upTo == CHOOSE u : Counts(u)
  <2>1. w \in [1 .. n -> Nat]
    BY <1>2
  <2>2. \E u : IsTotal(u, n, w)
    <3> HIDE DEF w
    <3> QED BY <1>2, <2>1, TotalExists
  <2>3. \A u : IsTotal(u, n, w) <=> Counts(u)
    <3> TAKE u
    <3>1. \A k \in 0 .. n : (IF k = 0 THEN 0 ELSE u[k - 1] + w[k])
                              = (IF k = 0 THEN 0 ELSE u[k - 1] + Beatmap[m][k][f])
      <4> SUFFICES ASSUME NEW k \in 0 .. n, k # 0 PROVE w[k] = Beatmap[m][k][f]
        OBVIOUS
      <4>1. k \in 1 .. n
        BY <1>2
      <4> QED BY <4>1
    <3> HIDE DEF w
    <3> QED BY <3>1 DEF IsTotal
  <2>4. Counts(upTo)
    <3> HIDE DEF Counts, w
    <3> QED BY <2>2, <2>3
  <2>5. IsTotal(upTo, n, w)
    <3> HIDE DEF Counts, w, upTo
    <3> QED BY <2>3, <2>4
  <2>6. upTo \in [0 .. n -> Nat]
    <3> HIDE DEF Counts, w, upTo
    <3> QED BY <1>2, <2>1, <2>5, TotalIsNatural
  <2>7. upTo[n] \in Nat
    <3> HIDE DEF upTo
    <3> QED BY <1>2, <2>6
  <2> QED BY <2>7
<1> QED BY <1>3 DEF Calculated, IsAttributes, n

(***************************************************************************)
(* The Inspect structs                                                     *)
(***************************************************************************)

(* What is asked for, as the generators require it.                        *)
LEMMA OptionsParts ==
  ASSUME NEW m, NEW p, IsOptions(m, p)
  PROVE  /\ p.given \in [1 .. JudgementsOf[m] -> MaybeNat] /\ p.misses \in MaybeNat
         /\ p.combo \in MaybeNat /\ p.acc \in (0 .. AccSteps) \cup {None}
         /\ p.best_case \in BOOLEAN /\ p.passed \in Nat /\ p.ticks \in [1 .. 3 -> MaybeNat]
         /\ p.generator \in {None, "Closest", "Fast", "IgnoreAccuracy"}
         /\ p.lazer \in BOOLEAN /\ p.classic \in BOOLEAN
BY DEF IsOptions

LEMMA CatchHasFour ==
  ASSUME NEW p, IsOptions("catch", p)
  PROVE  p.given \in [1 .. 4 -> MaybeNat]
<1>1. JudgementsOf["catch"] = 4
  BY DEF JudgementsOf
<1> DEFINE k == JudgementsOf["catch"]
<1> HIDE DEF k
<1>2. p.given \in [1 .. k -> MaybeNat]
  BY OptionsParts DEF k
<1> QED BY <1>1, <1>2 DEF k

LEMMA TotalsAreNatural ==
  ASSUME NEW m \in Modes, NEW a, IsAttributes(m, a), NEW p, IsOptions(m, p)
  PROVE  /\ TotalHits(m, a, p) \in Nat
         /\ InspectMisses(m, a, p) \in 0 .. TotalHits(m, a, p)
         /\ MaxCombo(m, a) \in Nat
<1>1. m \in {"osu", "taiko", "catch", "mania"} /\ p.passed \in Nat /\ p.misses \in MaybeNat
  BY OptionsParts, ModesAssumption
<1>2. TotalHits(m, a, p) \in Nat /\ MaxCombo(m, a) \in Nat
  <2>1. CASE m = "osu"
    <3>1. a.objects \in Nat /\ a.sliders \in Nat /\ a.large \in Nat
      BY <2>1 DEF IsAttributes, AttrFields
    <3> QED BY <1>1, <2>1, <3>1 DEF TotalHits, MaxCombo, Least
  <2>2. CASE m = "taiko"
    <3>1. a.hits \in Nat
      BY <2>2 DEF IsAttributes, AttrFields
    <3> QED BY <1>1, <2>2, <3>1 DEF TotalHits, MaxCombo, Least
  <2>3. CASE m = "catch"
    <3>1. a.fruits \in Nat /\ a.droplets \in Nat
      BY <2>3 DEF IsAttributes, AttrFields
    <3> QED BY <1>1, <2>3, <3>1 DEF TotalHits, MaxCombo
  <2>4. CASE m = "mania"
    <3>1. a.objects \in Nat /\ a.holds \in Nat
      BY <2>4 DEF IsAttributes, AttrFields
    <3> QED BY <1>1, <2>4, <3>1 DEF TotalHits, MaxCombo, Least
  <2> QED BY <1>1, <2>1, <2>2, <2>3, <2>4
<1>3. InspectMisses(m, a, p) \in 0 .. TotalHits(m, a, p)
  <2> DEFINE t == TotalHits(m, a, p)
  <2>1. t \in Nat /\ (p.misses = None \/ p.misses \in Nat)
    BY <1>1, <1>2 DEF MaybeNat
  <2>2. InspectMisses(m, a, p) = IF p.misses = None THEN 0 ELSE Least(p.misses, t)
    BY DEF InspectMisses
  <2> HIDE DEF t
  <2>3. InspectMisses(m, a, p) \in 0 .. t
    BY <2>1, <2>2 DEF Least
  <2> QED BY <2>3 DEF t
<1> QED BY <1>2, <1>3

LEMMA TicksAreNatural ==
  ASSUME NEW a, IsAttributes("osu", a), NEW p, IsOptions("osu", p)
  PROVE  /\ \A t \in 1 .. 3 : MaxTicks(a, p)[t] \in Nat
         /\ TickHits(a, p) \in [1 .. 3 -> Nat]
         /\ \A t \in 1 .. 3 : TickHits(a, p)[t] <= MaxTicks(a, p)[t]
<1>1. \A t \in 1 .. 3 : MaxTicks(a, p)[t] \in Nat
  <2>1. a.objects \in Nat /\ a.sliders \in Nat /\ a.large \in Nat
    BY DEF IsAttributes, AttrFields
  <2>2. p.lazer \in BOOLEAN /\ p.classic \in BOOLEAN
    BY OptionsParts
  <2>3. \A t \in 1 .. 3 : t = 1 \/ t = 2 \/ t = 3
    OBVIOUS
  <2>4. CASE ~p.lazer
    <3>1. MaxTicks(a, p) = <<0, 0, 0>>
      BY <2>4 DEF MaxTicks
    <3> QED BY <2>3, <3>1
  <2>5. CASE p.lazer /\ ~p.classic
    <3>1. MaxTicks(a, p) = <<a.large, 0, a.sliders>>
      BY <2>5 DEF MaxTicks
    <3> QED BY <2>1, <2>3, <3>1
  <2>6. CASE p.lazer /\ p.classic
    <3>1. MaxTicks(a, p) = <<a.sliders + a.large, a.sliders, 0>>
      BY <2>6 DEF MaxTicks
    <3>2. a.sliders + a.large \in Nat
      BY <2>1
    <3> QED BY <2>1, <2>3, <3>1, <3>2
  <2> QED BY <2>2, <2>4, <2>5, <2>6
<1>2. \A t \in 1 .. 3 : p.ticks[t] = None \/ p.ticks[t] \in Nat
  BY OptionsParts DEF MaybeNat
<1>3. ASSUME NEW t \in 1 .. 3
      PROVE  TickHits(a, p)[t] \in Nat /\ TickHits(a, p)[t] <= MaxTicks(a, p)[t]
  <2>1. TickHits(a, p)[t] = IF p.ticks[t] = None THEN MaxTicks(a, p)[t]
                            ELSE Least(p.ticks[t], MaxTicks(a, p)[t])
    BY DEF TickHits
  <2> QED BY <1>1, <1>2, <2>1 DEF Least
<1>4. TickHits(a, p) \in [1 .. 3 -> Nat]
  <2>1. TickHits(a, p) = [t \in 1 .. 3 |-> TickHits(a, p)[t]]
    BY DEF TickHits
  <2> QED BY <1>3, <2>1
<1> QED BY <1>1, <1>3, <1>4

(* Requests of the modes that share their generators.                      *)
LEMMA InspectAsks ==
  ASSUME NEW m \in Modes \ {"catch"}, NEW a, IsAttributes(m, a), NEW p, IsOptions(m, p)
  PROVE  LET i == Inspect(m, a, p)
             J == JudgementsOf[m]
         IN  /\ IsRequest(i, J)
             /\ i.given = p.given /\ i.acc = p.acc /\ i.best_case = p.best_case
             /\ i.total = TotalHits(m, a, p) /\ i.misses = InspectMisses(m, a, p)
             /\ Remain(i) = TotalHits(m, a, p) - InspectMisses(m, a, p)
<1> DEFINE i == Inspect(m, a, p)
           J == JudgementsOf[m]
<1>1. /\ i.given = p.given /\ i.acc = p.acc /\ i.best_case = p.best_case
      /\ i.total = TotalHits(m, a, p) /\ i.misses = InspectMisses(m, a, p)
  BY DEF Inspect
<1>2. J \in Sizes /\ p.given \in [1 .. J -> Nat \cup {None}]
  <2>1. m \in {"osu", "taiko", "mania"}
    BY ModesAssumption
  <2>2. J \in {2, 3, 5}
    BY <2>1 DEF JudgementsOf
  <2> QED BY <2>2, OptionsParts DEF Sizes, MaybeNat
<1>3. TotalHits(m, a, p) \in Nat /\ InspectMisses(m, a, p) \in 0 .. TotalHits(m, a, p)
  BY TotalsAreNatural
<1> HIDE DEF i, J
<1>4. IsRequest(i, J)
  BY <1>1, <1>2, <1>3 DEF IsRequest
<1> QED BY <1>1, <1>4 DEF Remain, i, J

(* The weights of the judgements.                                          *)
LEMMA InspectScores ==
  ASSUME NEW m \in Modes \ {"catch"}, NEW a, IsAttributes(m, a), NEW p, IsOptions(m, p),
         p.acc # None
  PROVE  LET i == Inspect(m, a, p)
         IN  /\ IsScored(i, JudgementsOf[m])
             /\ m \in {"osu", "taiko"} => Decreasing(i, JudgementsOf[m])
             /\ m = "mania" => IsMania(i)
<1> DEFINE i == Inspect(m, a, p)
           J == JudgementsOf[m]
<1>1. IsRequest(i, J) /\ i.acc \in Nat
  <2>1. i.acc = p.acc /\ IsRequest(i, J)
    BY InspectAsks
  <2>2. p.acc \in Nat
    BY OptionsParts, AccStepsAssumption
  <2> QED BY <2>1, <2>2
<1>2. i.tick_score \in Nat /\ i.tick_max \in Nat
  <2>1. CASE m = "osu"
    <3>1. i.tick_score = TickScore(TickHits(a, p)) /\ i.tick_max = TickScore(MaxTicks(a, p))
      BY <2>1 DEF Inspect
    <3>2. TickHits(a, p) \in [1 .. 3 -> Nat] /\ \A t \in 1 .. 3 : MaxTicks(a, p)[t] \in Nat
      BY <2>1, TicksAreNatural
    <3> DEFINE h == TickHits(a, p)
               x == MaxTicks(a, p)
    <3>3. /\ h[1] \in Nat /\ h[2] \in Nat /\ h[3] \in Nat
          /\ x[1] \in Nat /\ x[2] \in Nat /\ x[3] \in Nat
      BY <3>2
    <3> HIDE DEF h, x
    <3>4. TickScore(h) \in Nat /\ TickScore(x) \in Nat
      BY <3>3 DEF TickScore
    <3> QED BY <3>1, <3>4 DEF h, x
  <2>2. CASE m # "osu"
    BY <2>2 DEF Inspect
  <2> QED BY <2>1, <2>2
<1>3. \A k \in 1 .. J : k \in {1, 2, 3, 4, 5} /\ k <= J
  BY ModesAssumption DEF JudgementsOf
<1>4. Lowest(i) = J
  BY <1>1, RequestParts
<1>5. CASE m = "osu"
  <2> DEFINE w == <<300, 100, 50>>
  <2>1. i.weight = w /\ i.unit = 50 /\ J = 3
    BY <1>5 DEF Inspect, JudgementsOf
  <2>2. w[1] = 300 /\ w[2] = 100 /\ w[3] = 50 /\ w \in [1 .. 3 -> Nat]
    OBVIOUS
  <2> HIDE DEF w, i, J
  <2>3. \A k \in 1 .. 3 : k < 3 => Increase(i, k) \in Nat \ {0}
    BY <1>4, <2>1, <2>2 DEF Increase
  <2>4. Decreasing(i, 3)
    BY <2>1, <2>2 DEF Decreasing
  <2>5. IsScored(i, 3)
    BY <1>1, <1>2, <2>1, <2>2, <2>3 DEF IsScored
  <2> QED BY <1>5, <2>1, <2>4, <2>5 DEF i, J
<1>6. CASE m = "taiko"
  <2> DEFINE w == <<2, 1>>
  <2>1. i.weight = w /\ i.unit = 1 /\ J = 2
    BY <1>6 DEF Inspect, JudgementsOf
  <2>2. w[1] = 2 /\ w[2] = 1 /\ w \in [1 .. 2 -> Nat]
    OBVIOUS
  <2> HIDE DEF w, i, J
  <2>3. \A k \in 1 .. 2 : k < 2 => Increase(i, k) \in Nat \ {0}
    BY <1>4, <2>1, <2>2 DEF Increase
  <2>4. Decreasing(i, 2)
    BY <2>1, <2>2 DEF Decreasing
  <2>5. IsScored(i, 2)
    BY <1>1, <1>2, <2>1, <2>2, <2>3 DEF IsScored
  <2> QED BY <1>6, <2>1, <2>4, <2>5 DEF i, J
<1>7. CASE m = "mania"
  <2> DEFINE w == i.weight
  <2>1. /\ w = <<61, 60, 40, 20, 10>> \/ w = <<60, 60, 40, 20, 10>>
        /\ i.unit = 1 /\ J = 5
    BY <1>7 DEF Inspect, JudgementsOf
  <2>2. /\ w[1] \in {60, 61} /\ w[2] = 60 /\ w[3] = 40 /\ w[4] = 20 /\ w[5] = 10
        /\ w \in [1 .. 5 -> Nat]
    BY <2>1
  <2> HIDE DEF w, i, J
  <2>3. \A k \in 1 .. 5 : k < 5 => Increase(i, k) \in Nat \ {0}
    <3>1. \A k \in 1 .. 5 : k < 5 => k \in {1, 2, 3, 4}
      OBVIOUS
    <3> QED BY <1>4, <2>1, <2>2, <3>1 DEF Increase, w
  <2>4. IsScored(i, 5)
    BY <1>1, <1>2, <2>1, <2>2, <2>3 DEF IsScored, w
  <2>5. IsMania(i)
    BY <2>1, <2>4 DEF IsMania, w
  <2> QED BY <1>7, <2>1, <2>4, <2>5 DEF i, J
<1> QED BY <1>5, <1>6, <1>7, ModesAssumption

(***************************************************************************)
(* Hit results                                                             *)
(***************************************************************************)

(* What was asked for decides whether the hits must add up.                *)
MustAddUp(m, a, p) ==
  LET i == Inspect(m, a, p)
  IN  \/ m = "osu"
      \/ m = "taiko" /\ (IgnoresAccuracy(m, p) \/ Missing(i) # {}
                           \/ Total(Amounts(i), 2) >= Remain(i))
      \/ m = "mania" /\ (IgnoresAccuracy(m, p) \/ Generator(m, p) # "Closest" \/ ~TooMany(i))

DropsAt(m, p, k) ==
  /\ m = "mania" /\ ~IgnoresAccuracy(m, p) /\ Generator(m, p) = "Closest"
  /\ p.given[1] = None /\ k = 2

(* The generator that is used, when an accuracy is asked for.              *)
LEMMA GeneratorIs ==
  ASSUME NEW m, NEW p, IsOptions(m, p), ~IgnoresAccuracy(m, p)
  PROVE  Generator(m, p) \in {"Fast", "Closest"} /\ p.acc # None
BY OptionsParts DEF Generator, IgnoresAccuracy

(* Filling up adds what is left, if anything, to a missing judgement.      *)
FillsUp(i, J, g, k, f) ==
  /\ f \in [1 .. J -> Nat]
  /\ Total(g, J) <= Remain(i) => AddsUp(i, J, f)
  /\ Total(g, J) >= Remain(i) => f = g
  /\ \A j \in 1 .. J : j # k => f[j] = g[j]

LEMMA FillIs ==
  ASSUME NEW i, NEW J, IsRequest(i, J), NEW g, g \in [1 .. J -> Nat], NEW k, k \in 1 .. J
  PROVE  FillsUp(i, J, g, k, Add(g, k, Greatest(0, Left(i, g))))
<1> DEFINE n == Greatest(0, Left(i, g))
           f == Add(g, k, n)
<1>1. J \in Sizes /\ g \in [1 .. J -> Int] /\ Remain(i) \in Nat /\ Judgements(i) = 1 .. J
  BY RequestParts DEF IsRequest
<1>2. SumFunction(g) = Total(g, J) /\ Total(g, J) \in Int
  BY <1>1, SumIsTotal
<1>3. /\ n \in Nat
      /\ Total(g, J) <= Remain(i) => n = Remain(i) - Total(g, J)
  BY <1>1, <1>2 DEF Left, Greatest
<1> HIDE DEF n
<1>4. /\ Add(g, k, n) \in [1 .. J -> Int]
      /\ Total(Add(g, k, n), J) = Total(g, J) + n
      /\ Add(g, k, n)[k] = g[k] + n
      /\ \A j \in 1 .. J : j # k => Add(g, k, n)[j] = g[j]
      /\ n = 0 => Add(g, k, n) = g
  <2>1. J \in Sizes /\ g \in [1 .. J -> Int] /\ k \in 1 .. J /\ n \in Int
    BY <1>1, <1>3
  <2> HIDE DEF f
  <2> QED BY <2>1, AddTotal
<1>5. f \in [1 .. J -> Nat]
  <2>1. \A j \in 1 .. J : f[j] \in Nat
    BY <1>3, <1>4
  <2> QED BY <1>4, <2>1
<1>6. Total(g, J) <= Remain(i) => Total(f, J) = Remain(i)
  BY <1>1, <1>2, <1>3, <1>4
<1>7. Total(g, J) >= Remain(i) => n = 0
  BY <1>1, <1>2 DEF n, Left, Greatest
<1> QED BY <1>4, <1>5, <1>6, <1>7 DEF FillsUp, AddsUp, n

LEMMA FilledIs ==
  ASSUME NEW m \in {"osu", "mania"}, NEW i, NEW J, IsRequest(i, J), NEW g
  PROVE  \E k \in 1 .. J : /\ Missing(i) = {} \/ k \in Missing(i)
                           /\ Filled(m, i, g) = Add(g, k, Greatest(0, Left(i, g)))
<1>1. /\ Judgements(i) = 1 .. J /\ Lowest(i) = J /\ J \in Sizes
      /\ Preferred(i, Judgements(i)) \in 1 .. J
      /\ Missing(i) # {} => Preferred(i, Missing(i)) \in Missing(i)
      /\ Missing(i) \in SUBSET (1 .. J)
  BY RequestParts, PreferredIs DEF IsRequest
<1>2. CASE m = "osu"
  BY <1>1, <1>2 DEF Filled, FillOsu
<1>3. CASE m = "mania"
  <2>1. LastResort(i) \in 1 .. J
    BY <1>1 DEF LastResort, Sizes
  <2>2. Filled(m, i, g) = FillMania(i, g)
    BY <1>3 DEF Filled
  <2> QED BY <1>1, <2>1, <2>2 DEF FillMania
<1> QED BY <1>2, <1>3

(* Hit results before they are filled up.                                  *)
LEMMA GeneratedHitsAre ==
  ASSUME NEW m \in Modes \ {"catch"}, NEW a, IsAttributes(m, a), NEW p, IsOptions(m, p),
         ~Underflows(m, a, p)
  PROVE  LET i == Inspect(m, a, p)
             J == JudgementsOf[m]
             g == GeneratedHits(m, i, p)
         IN  /\ g \in [1 .. J -> Nat]
             /\ MustAddUp(m, a, p) => Total(g, J) <= Remain(i)
             /\ MustAddUp(m, a, p) /\ m = "taiko" => Total(g, J) = Remain(i)
             /\ Missing(i) # {} /\ Total(Amounts(i), J) <= Remain(i) =>
                  \A k \in 1 .. J : k \notin Missing(i) /\ ~DropsAt(m, p, k) => g[k] = i.given[k]
             /\ Settled(i, J) => g = i.given
             /\ m = "taiko" /\ ~MustAddUp(m, a, p) => g = i.given
             /\ m = "mania" /\ ~MustAddUp(m, a, p) => KeepsLast(i, g)
<1> DEFINE i == Inspect(m, a, p)
           J == JudgementsOf[m]
           g == GeneratedHits(m, i, p)
<1>1. IsRequest(i, J) /\ i.given = p.given /\ Remain(i) \in Nat
  <2>1. IsRequest(i, J) /\ i.given = p.given
    BY InspectAsks
  <2> QED BY <2>1, RequestParts
<1> HIDE DEF i
<1>2. CASE IgnoresAccuracy(m, p)
  <2>1. g = IgnoreAccuracy(i)
    BY <1>2 DEF GeneratedHits
  <2>2. Keeps(i, J, g) /\ AddsUp(i, J, g) /\ (Settled(i, J) => g = i.given)
    BY <1>1, <2>1, IgnoreAccuracyAddsUp
  <2>3. Total(g, J) = Remain(i)
    BY <2>2 DEF AddsUp
  <2>4. m \in {"taiko", "mania"} => MustAddUp(m, a, p)
    BY <1>2 DEF MustAddUp
  <2> HIDE DEF g
  <2> QED BY <1>1, <2>2, <2>3, <2>4 DEF Keeps, i, g
<1>3. CASE ~IgnoresAccuracy(m, p)
  <2> DEFINE G == Generator(m, p)
  <2>1. G \in {"Fast", "Closest"} /\ p.acc # None
    BY <1>3, GeneratorIs
  <2>2. g = HitResultsOf(m, i, G)
    BY <1>3 DEF GeneratedHits
  <2>3. IsScored(i, J) /\ (m \in {"osu", "taiko"} => Decreasing(i, J)) /\ (m = "mania" => IsMania(i))
    BY <2>1, InspectScores DEF i
  <2>4. ASSUME Generates(i, J, g), m # "taiko"
        PROVE  /\ g \in [1 .. J -> Nat]
               /\ Total(g, J) <= Remain(i)
               /\ Missing(i) # {} /\ Total(Amounts(i), J) <= Remain(i) =>
                    \A k \in 1 .. J : k \notin Missing(i) => g[k] = i.given[k]
               /\ Settled(i, J) => g = i.given
    <3> HIDE DEF g, J
    <3>1. Keeps(i, J, g) /\ Total(g, J) \in 0 .. Remain(i) /\ (Settled(i, J) => g = i.given)
      BY <2>4 DEF Generates
    <3>2. Total(g, J) <= Remain(i)
      BY <1>1, <3>1
    <3> QED BY <3>1, <3>2 DEF Keeps
  <2>5. CASE m = "osu"
    <3>1. J = 3 /\ g \in {OsuFast(i), OsuClosest(i)}
      BY <2>1, <2>2, <2>5 DEF HitResultsOf, JudgementsOf
    <3> HIDE DEF g
    <3>2. Generates(i, 3, g)
      BY <2>3, <2>5, <3>1, OsuAddsUp
    <3> QED BY <2>4, <2>5, <3>1, <3>2 DEF i, g
  <2>6. CASE m = "taiko"
    <3>1. J = 2 /\ g \in {TaikoFast(i), TaikoClosest(i)}
      BY <2>1, <2>2, <2>6 DEF HitResultsOf, JudgementsOf
    <3> HIDE DEF g
    <3>2. /\ Generates(i, 2, g)
          /\ Missing(i) # {} => AddsUp(i, 2, g)
          /\ Missing(i) = {} => g = Completed(i)
      BY <2>3, <2>6, <3>1, TaikoAddsUp
    <3>3. Keeps(i, 2, g) /\ (Settled(i, 2) => g = i.given)
      BY <3>2 DEF Generates
    <3>4. CASE Missing(i) # {}
      <4>1. Total(g, 2) = Remain(i)
        BY <3>2, <3>4 DEF AddsUp
      <4>2. MustAddUp(m, a, p)
        BY <2>6, <3>4 DEF MustAddUp, i
      <4> QED BY <1>1, <2>6, <3>1, <3>3, <4>1, <4>2 DEF Keeps, i, g
    <3>5. CASE Missing(i) = {}
      <4>1. /\ Total(g, 2) = Least(Total(Amounts(i), 2), Remain(i))
            /\ Total(i.given, 2) <= Remain(i) => g = i.given
        BY <1>1, <3>1, <3>2, <3>5, CompletedAddsUp
      <4>2. Amounts(i) = i.given /\ i.given \in [1 .. 2 -> Nat]
        BY <1>1, <3>1, <3>5, SettledAmounts
      <4>3. Total(i.given, 2) \in Nat
        <5> DEFINE d == i.given
        <5>1. d[1] \in Nat /\ d[2] \in Nat
          BY <4>2
        <5> HIDE DEF d
        <5>2. Total(d, 2) \in Nat
          BY <5>1 DEF Total
        <5> QED BY <5>2 DEF d
      <4>4. MustAddUp(m, a, p) <=> Total(i.given, 2) >= Remain(i)
        BY <1>3, <2>6, <3>5, <4>2 DEF MustAddUp, i
      <4>5. MustAddUp(m, a, p) => Total(g, 2) = Remain(i)
        BY <1>1, <4>1, <4>2, <4>3, <4>4 DEF Least
      <4>6. ~MustAddUp(m, a, p) => g = i.given
        BY <1>1, <4>1, <4>3, <4>4
      <4> QED BY <1>1, <2>6, <3>1, <3>3, <3>5, <4>5, <4>6 DEF Keeps, i, g
    <3> QED BY <3>4, <3>5
  <2>7. CASE m = "mania" /\ G # "Closest"
    <3>1. J = 5 /\ g = ManiaFast(i)
      BY <2>1, <2>2, <2>7 DEF HitResultsOf, JudgementsOf
    <3> HIDE DEF g
    <3>2. Generates(i, 5, g)
      BY <2>3, <3>1, ManiaFastAddsUp
    <3>3. MustAddUp(m, a, p)
      BY <2>7 DEF MustAddUp
    <3> QED BY <2>4, <2>7, <3>1, <3>2, <3>3 DEF i, g
  <2>8. CASE m = "mania" /\ G = "Closest"
    <3>1. J = 5 /\ g = ManiaClosest(i)
      BY <2>2, <2>8 DEF HitResultsOf, JudgementsOf
    <3>2. ~Overgiven(i)
      BY <1>3, <2>8 DEF Underflows, i
    <3>3. IsMania(i)
      BY <2>3, <2>8
    <3> HIDE DEF g
    <3>4. /\ g \in [1 .. 5 -> Nat]
          /\ KeepsMost(i, g)
          /\ ~TooMany(i) => Total(g, 5) <= Remain(i)
          /\ TooMany(i) => KeepsLast(i, g)
          /\ Settled(i, 5) => g = i.given
      BY <3>1, <3>2, <3>3, ManiaClosestAddsUp
    <3>5. MustAddUp(m, a, p) <=> ~TooMany(i)
      BY <1>3, <2>8 DEF MustAddUp, i
    <3>6. \A k : DropsAt(m, p, k) <=> i.given[1] = None /\ k = 2
      BY <1>1, <1>3, <2>8 DEF DropsAt
    <3>7. m # "taiko"
      BY <2>8
    <3> QED BY <3>1, <3>4, <3>5, <3>6, <3>7 DEF KeepsMost, i, g
  <2> QED BY <2>5, <2>6, <2>7, <2>8, ModesAssumption
<1> QED BY <1>2, <1>3

(* The hit results of a score state.                                       *)
LEMMA HitsAre ==
  ASSUME NEW m \in Modes \ {"catch"}, NEW a, IsAttributes(m, a), NEW p, IsOptions(m, p),
         ~Underflows(m, a, p)
  PROVE  LET i == Inspect(m, a, p)
             J == JudgementsOf[m]
             h == Hits(m, a, p)
         IN  /\ h \in [1 .. J -> Nat]
             /\ MustAddUp(m, a, p) => Total(h, J) = Remain(i)
             /\ Missing(i) # {} /\ Total(Amounts(i), J) <= Remain(i) =>
                  \A k \in 1 .. J : k \notin Missing(i) /\ ~DropsAt(m, p, k) => h[k] = i.given[k]
             /\ Settled(i, J) => h = i.given
             /\ m = "taiko" /\ ~MustAddUp(m, a, p) => h = i.given
             /\ m = "mania" /\ ~MustAddUp(m, a, p) => KeepsLast(i, h)
<1> DEFINE i == Inspect(m, a, p)
           J == JudgementsOf[m]
           h == Hits(m, a, p)
           g == GeneratedHits(m, i, p)
<1>1. /\ g \in [1 .. J -> Nat]
      /\ MustAddUp(m, a, p) => Total(g, J) <= Remain(i)
      /\ MustAddUp(m, a, p) /\ m = "taiko" => Total(g, J) = Remain(i)
      /\ Missing(i) # {} /\ Total(Amounts(i), J) <= Remain(i) =>
           \A k \in 1 .. J : k \notin Missing(i) /\ ~DropsAt(m, p, k) => g[k] = i.given[k]
      /\ Settled(i, J) => g = i.given
      /\ m = "taiko" /\ ~MustAddUp(m, a, p) => g = i.given
      /\ m = "mania" /\ ~MustAddUp(m, a, p) => KeepsLast(i, g)
  BY GeneratedHitsAre
<1>2. h = Filled(m, i, g)
  BY DEF Hits
<1>3. IsRequest(i, J)
  BY InspectAsks
<1> HIDE DEF i, h, g
<1>4. CASE m = "taiko"
  <2>1. h = g
    BY <1>2, <1>4 DEF Filled
  <2> QED BY <1>1, <1>4, <2>1 DEF i, h
<1>5. CASE m \in {"osu", "mania"}
  <2>1. PICK k \in 1 .. J : /\ Missing(i) = {} \/ k \in Missing(i)
                            /\ h = Add(g, k, Greatest(0, Left(i, g)))
    <3> HIDE DEF J
    <3> QED BY <1>2, <1>3, <1>5, FilledIs
  <2>2. /\ h \in [1 .. J -> Nat]
        /\ Total(g, J) <= Remain(i) => AddsUp(i, J, h)
        /\ Total(g, J) >= Remain(i) => h = g
        /\ \A j \in 1 .. J : j # k => h[j] = g[j]
    <3>1. g \in [1 .. J -> Nat]
      BY <1>1
    <3> HIDE DEF J
    <3>2. FillsUp(i, J, g, k, Add(g, k, Greatest(0, Left(i, g))))
      BY <1>3, <3>1, FillIs
    <3> QED BY <2>1, <3>2 DEF FillsUp
  <2>3. ASSUME Settled(i, J) PROVE h = i.given
    <3>1. g = i.given /\ Total(i.given, J) = Remain(i)
      BY <1>1, <2>3 DEF Settled
    <3>2. Remain(i) \in Nat
      BY <1>3, RequestParts
    <3> QED BY <2>2, <3>1, <3>2
  <2>4. MustAddUp(m, a, p) => Total(h, J) = Remain(i)
    BY <1>1, <2>2 DEF AddsUp
  <2>5. m # "taiko"
    BY <1>5
  <2>6. ASSUME Missing(i) # {}, Total(Amounts(i), J) <= Remain(i),
               NEW j \in 1 .. J, j \notin Missing(i), ~DropsAt(m, p, j)
        PROVE  h[j] = i.given[j]
    <3>1. g[j] = i.given[j] /\ j # k
      BY <1>1, <2>1, <2>6
    <3> QED BY <2>2, <3>1
  <2>7. ASSUME m = "mania", ~MustAddUp(m, a, p) PROVE KeepsLast(i, h)
    <3>1. KeepsLast(i, g)
      BY <1>1, <2>7
    <3>2. Total(g, J) > Remain(i) /\ J = 5
      BY <2>7, <3>1 DEF KeepsLast, JudgementsOf
    <3>3. Total(g, J) \in Nat /\ Remain(i) \in Nat
      <4>1. g[1] \in Nat /\ g[2] \in Nat /\ g[3] \in Nat /\ g[4] \in Nat /\ g[5] \in Nat
        BY <1>1, <3>2
      <4>2. Total(g, J) \in Nat
        BY <3>2, <4>1 DEF Total
      <4> QED BY <1>3, <4>2, RequestParts
    <3>4. h = g
      BY <2>2, <3>2, <3>3
    <3> QED BY <3>1, <3>4
  <2> QED BY <2>2, <2>3, <2>4, <2>5, <2>6, <2>7 DEF i, h
<1> QED BY <1>4, <1>5, ModesAssumption

(***************************************************************************)
(* osu!catch                                                               *)
(***************************************************************************)
IsCatch(c) ==
  /\ c.given \in [1 .. 4 -> MaybeNat]
  /\ c.n[1] \in Nat /\ c.n[2] \in Nat /\ c.n[3] \in Nat
  /\ c.misses \in 0 .. c.n[1] + c.n[2]

(* Both pools add up.                                                      *)
CatchAddsUp(c, h) ==
  /\ h[1] <= c.n[1] /\ h[2] <= c.n[2]
  /\ h[1] + h[2] + c.misses = c.n[1] + c.n[2]
  /\ h[3] + h[4] = c.n[3]

(* The pool of fruits and droplets is not exceeded, and that of the tiny   *)
(* droplets adds up unless their misses were given.                        *)
CatchBounded(c, h) ==
  /\ h[1] + h[2] + c.misses <= c.n[1] + c.n[2]
  /\ c.given[4] = None => h[3] + h[4] = c.n[3]

CatchSettled(c) == c.given \in [1 .. 4 -> Nat] /\ CatchAddsUp(c, c.given)

LEMMA CatchNumbers ==
  ASSUME NEW c, IsCatch(c)
  PROVE  /\ Catch!Pool(c) = c.n[1] + c.n[2] /\ Catch!Pool(c) \in Nat
         /\ Catch!Catchable(c) = c.n[1] + c.n[2] - c.misses /\ Catch!Catchable(c) \in Nat
         /\ Catch!TotalObjects(c) = c.n[1] + c.n[2] + c.n[3]
         /\ \A k \in 1 .. 4 : Catch!Given(c, k) <=> c.given[k] # None
         /\ \A k \in 1 .. 4 : c.given[k] # None => c.given[k] \in Nat
         /\ c.misses \in Nat
BY DEF IsCatch, MaybeNat, Catch!Pool, Catch!Catchable, Catch!TotalObjects, Catch!Given

(* Balancing makes a pool add up, and leaves alone one that does.          *)
LEMMA BalancedFruits ==
  ASSUME NEW c, IsCatch(c), NEW f \in 0 .. c.n[1], NEW d \in 0 .. c.n[2]
  PROVE  \E x \in 0 .. c.n[1], y \in 0 .. c.n[2] :
           /\ Catch!BalanceFruits(c, f, d) = <<x, y>>
           /\ x + y + c.misses = c.n[1] + c.n[2]
           /\ f + d + c.misses = c.n[1] + c.n[2] => x = f /\ y = d
<1> DEFINE n1 == c.n[1]
           n2 == c.n[2]
           ms == c.misses
           sum == f + d + ms
           P == Catch!Pool(c)
           more == Catch!Least(d + (P - sum), n2)
           fewer == Catch!SaturatingSub(d, sum - P)
           x1 == Catch!Least(f + Catch!SaturatingSub(P, f + more + ms), n1)
           x3 == Catch!SaturatingSub(f, Catch!SaturatingSub(f + fewer + ms, P))
           b == Catch!BalanceFruits(c, f, d)
<1>1. n1 \in Nat /\ n2 \in Nat /\ ms \in 0 .. n1 + n2 /\ P = n1 + n2 /\ P \in Nat
  BY CatchNumbers DEF IsCatch
<1>2. b = CASE sum < P -> <<x1, more>> [] sum = P -> <<f, d>> [] sum > P -> <<x3, fewer>>
  BY DEF Catch!BalanceFruits
<1>3. f \in 0 .. n1 /\ d \in 0 .. n2 /\ sum \in Nat
  BY <1>1
<1> HIDE DEF n1, n2, ms, P, b
<1>4. CASE sum < P
  <2>1. more \in 0 .. n2 /\ x1 \in 0 .. n1 /\ x1 + more + ms = P
    BY <1>1, <1>3, <1>4 DEF Catch!Least, Catch!SaturatingSub
  <2>2. b = <<x1, more>> /\ sum # P
    BY <1>1, <1>2, <1>3, <1>4
  <2> QED BY <1>1, <2>1, <2>2 DEF n1, n2, ms, b
<1>5. CASE sum = P
  <2>1. b = <<f, d>>
    BY <1>1, <1>2, <1>3, <1>5
  <2> QED BY <1>1, <1>3, <1>5, <2>1 DEF n1, n2, ms, b
<1>6. CASE sum > P
  <2>1. fewer \in 0 .. n2 /\ x3 \in 0 .. n1 /\ x3 + fewer + ms = P
    BY <1>1, <1>3, <1>6 DEF Catch!SaturatingSub
  <2>2. b = <<x3, fewer>> /\ sum # P
    BY <1>1, <1>2, <1>3, <1>6
  <2> QED BY <1>1, <2>1, <2>2 DEF n1, n2, ms, b
<1> QED BY <1>1, <1>3, <1>4, <1>5, <1>6

LEMMA BalancedTiny ==
  ASSUME NEW c, IsCatch(c), NEW t \in 0 .. c.n[3], NEW u \in Nat
  PROVE  \E x \in Nat, y \in Nat :
           /\ Catch!BalanceTiny(c, t, u) = <<x, y>>
           /\ x + y = c.n[3]
           /\ t + u = c.n[3] => x = t /\ y = u
<1> DEFINE n == c.n[3]
           sum == t + u
           more == Catch!Least(t + (n - sum), n)
           rest == Catch!SaturatingSub(n, more)
           fewer == Catch!SaturatingSub(u, sum - n)
           x3 == Catch!SaturatingSub(t, Catch!SaturatingSub(t + fewer, n))
           b == Catch!BalanceTiny(c, t, u)
<1>1. n \in Nat /\ t \in 0 .. n /\ sum \in Nat
  BY DEF IsCatch
<1>2. b = CASE sum < n -> <<more, rest>> [] sum = n -> <<t, u>> [] sum > n -> <<x3, fewer>>
  BY DEF Catch!BalanceTiny
<1> HIDE DEF n, b
<1>3. CASE sum < n
  <2>1. more \in Nat /\ rest \in Nat /\ more + rest = n
    BY <1>1, <1>3 DEF Catch!Least, Catch!SaturatingSub
  <2>2. b = <<more, rest>> /\ sum # n
    BY <1>1, <1>2, <1>3
  <2> QED BY <2>1, <2>2 DEF n, b
<1>4. CASE sum = n
  <2>1. b = <<t, u>>
    BY <1>1, <1>2, <1>4
  <2> QED BY <1>1, <1>4, <2>1 DEF n, b
<1>5. CASE sum > n
  <2>1. fewer \in Nat /\ x3 \in Nat /\ x3 + fewer = n
    BY <1>1, <1>5 DEF Catch!SaturatingSub
  <2>2. b = <<x3, fewer>> /\ sum # n
    BY <1>1, <1>2, <1>5
  <2> QED BY <2>1, <2>2 DEF n, b
<1> QED BY SMTT(30), <1>1, <1>3, <1>4, <1>5

LEMMA TwoAndTwo ==
  ASSUME NEW x \in Nat, NEW y \in Nat, NEW z \in Nat, NEW w \in Nat
  PROVE  /\ <<x, y>> \o <<z, w>> = <<x, y, z, w>>
         /\ <<x, y, z, w>> \in [1 .. 4 -> Nat]
<1>1. <<x, y>> \in Seq(Nat) /\ Len(<<x, y>>) = 2 /\ <<z, w>> \in Seq(Nat) /\ Len(<<z, w>>) = 2
  OBVIOUS
<1>2. \A k \in 1 .. 4 : (<<x, y>> \o <<z, w>>)[k] = <<x, y, z, w>>[k]
  BY <1>1
<1> DEFINE f == <<x, y>> \o <<z, w>>
           g == <<x, y, z, w>>
<1>3. f \in Seq(Nat) /\ Len(f) = 4
  BY <1>1
<1>4. DOMAIN f = 1 .. 4 /\ f = [k \in 1 .. 4 |-> f[k]]
  <2> HIDE DEF f
  <2> QED BY <1>3
<1>5. g \in [1 .. 4 -> Nat] /\ \A k \in 1 .. 4 : f[k] = g[k]
  BY <1>2
<1> HIDE DEF f, g
<1>6. f = g
  BY <1>4, <1>5
<1> QED BY <1>5, <1>6 DEF f, g

(* Balanced numbers add up, and are those one starts from if these do.     *)
IsBalanced(c, f, d, t, u, h) ==
  /\ h \in [1 .. 4 -> Nat] /\ CatchAddsUp(c, h)
  /\ CatchSettled(c) /\ c.given[1] = f /\ c.given[2] = d /\ c.given[3] = t /\ c.given[4] = u
       => h = c.given

LEMMA BalancedAddsUp ==
  ASSUME NEW c, IsCatch(c), NEW f \in 0 .. c.n[1], NEW d \in 0 .. c.n[2],
         NEW t \in 0 .. c.n[3], NEW u \in Nat
  PROVE  LET h == Catch!BalanceFruits(c, f, d) \o Catch!BalanceTiny(c, t, u)
         IN  IsBalanced(c, f, d, t, u, h)
<1> DEFINE h == Catch!BalanceFruits(c, f, d) \o Catch!BalanceTiny(c, t, u)
<1>1. PICK x \in 0 .. c.n[1], y \in 0 .. c.n[2] :
        /\ Catch!BalanceFruits(c, f, d) = <<x, y>>
        /\ x + y + c.misses = c.n[1] + c.n[2]
        /\ f + d + c.misses = c.n[1] + c.n[2] => x = f /\ y = d
  BY BalancedFruits
<1>2. PICK z \in Nat, w \in Nat :
        /\ Catch!BalanceTiny(c, t, u) = <<z, w>>
        /\ z + w = c.n[3]
        /\ t + u = c.n[3] => z = t /\ w = u
  BY BalancedTiny
<1>3. x \in Nat /\ y \in Nat /\ x <= c.n[1] /\ y <= c.n[2]
  BY DEF IsCatch
<1>4. h = <<x, y, z, w>> /\ h \in [1 .. 4 -> Nat]
  <2>1. h = <<x, y>> \o <<z, w>>
    BY <1>1, <1>2
  <2> HIDE DEF h
  <2> QED BY <1>3, <2>1, TwoAndTwo
<1> HIDE DEF h
<1>5. CatchAddsUp(c, h)
  BY <1>1, <1>2, <1>3, <1>4 DEF CatchAddsUp
<1>6. ASSUME CatchSettled(c), c.given[1] = f, c.given[2] = d, c.given[3] = t, c.given[4] = u
      PROVE  h = c.given
  <2>1. f + d + c.misses = c.n[1] + c.n[2] /\ t + u = c.n[3] /\ c.given \in [1 .. 4 -> Nat]
    BY <1>6 DEF CatchSettled, CatchAddsUp
  <2>2. h = <<f, d, t, u>>
    BY <1>1, <1>2, <1>4, <2>1
  <2>3. \A k \in 1 .. 4 : k = 1 \/ k = 2 \/ k = 3 \/ k = 4
    OBVIOUS
  <2>4. \A k \in 1 .. 4 : h[k] = c.given[k]
    BY <1>6, <2>2, <2>3
  <2> QED BY <1>4, <2>1, <2>4
<1> QED BY <1>4, <1>5, <1>6 DEF IsBalanced, h

LEMMA CatchIgnoringAddsUp ==
  ASSUME NEW c, IsCatch(c)
  PROVE  LET h == Catch!CatchIgnoreAccuracy(c)
         IN  /\ h \in [1 .. 4 -> Nat] /\ CatchAddsUp(c, h)
             /\ CatchSettled(c) => h = c.given
<1> DEFINE n1 == c.n[1]
           n2 == c.n[2]
           n3 == c.n[3]
           C == Catch!Catchable(c)
           g1 == c.given[1]
           g2 == c.given[2]
           g3 == c.given[3]
           g4 == c.given[4]
           fruits0 == IF Catch!Given(c, 1) THEN Catch!Least(Catch!Least(g1, n1), C) ELSE 0
           droplets0 == IF Catch!Given(c, 2) THEN Catch!Least(Catch!Least(g2, n2), C - fruits0) ELSE 0
           tiny0 == IF Catch!Given(c, 3) THEN Catch!Least(g3, n3) ELSE 0
           misses0 == IF Catch!Given(c, 4) THEN Catch!Least(g4, n3 - tiny0) ELSE 0
           fruits == IF Catch!Given(c, 1) THEN fruits0 ELSE Catch!Least(C - droplets0, n1)
           droplets == IF Catch!Given(c, 2) THEN droplets0 ELSE Catch!Least(C - fruits, n2)
           tiny == IF Catch!Given(c, 3) THEN tiny0 ELSE n3 - misses0
           misses == IF Catch!Given(c, 4) THEN misses0 ELSE n3 - tiny
           h == Catch!CatchIgnoreAccuracy(c)
<1>1. h = Catch!BalanceFruits(c, fruits, droplets) \o Catch!BalanceTiny(c, tiny, misses)
  BY DEF Catch!CatchIgnoreAccuracy
<1>2. /\ n1 \in Nat /\ n2 \in Nat /\ n3 \in Nat /\ C \in Nat /\ c.misses \in Nat
      /\ C + c.misses = n1 + n2
      /\ Catch!Given(c, 1) => g1 \in Nat
      /\ Catch!Given(c, 2) => g2 \in Nat
      /\ Catch!Given(c, 3) => g3 \in Nat
      /\ Catch!Given(c, 4) => g4 \in Nat
  BY CatchNumbers DEF IsCatch
<1>3. CatchSettled(c) =>
        /\ Catch!Given(c, 1) /\ Catch!Given(c, 2) /\ Catch!Given(c, 3) /\ Catch!Given(c, 4)
        /\ g1 <= n1 /\ g2 <= n2 /\ g1 + g2 = C /\ g3 + g4 = n3
  <2> SUFFICES ASSUME CatchSettled(c)
               PROVE /\ Catch!Given(c, 1) /\ Catch!Given(c, 2) /\ Catch!Given(c, 3) /\ Catch!Given(c, 4)
                     /\ g1 <= n1 /\ g2 <= n2 /\ g1 + g2 = C /\ g3 + g4 = n3
    OBVIOUS
  <2>1. /\ g1 <= n1 /\ g2 <= n2 /\ g1 + g2 + c.misses = n1 + n2 /\ g3 + g4 = n3
        /\ g1 \in Nat /\ g2 \in Nat /\ g3 \in Nat /\ g4 \in Nat
    BY DEF CatchSettled, CatchAddsUp
  <2>2. Catch!Given(c, 1) /\ Catch!Given(c, 2) /\ Catch!Given(c, 3) /\ Catch!Given(c, 4)
    BY <2>1, CatchNumbers, NoneAssumption
  <2>3. g1 + g2 = C
    <3> DEFINE ms == c.misses
    <3> HIDE DEF n1, n2, n3, C, g1, g2, g3, g4, h, ms
    <3>1. /\ g1 \in Nat /\ g2 \in Nat /\ n1 \in Nat /\ n2 \in Nat /\ C \in Nat /\ ms \in Nat
          /\ C + ms = n1 + n2 /\ g1 + g2 + ms = n1 + n2
      BY <1>2, <2>1 DEF ms
    <3> QED BY <3>1
  <2> QED BY <2>1, <2>2, <2>3
<1> HIDE DEF n1, n2, n3, C, g1, g2, g3, g4, h
<1>4. fruits0 \in 0 .. n1 /\ fruits0 <= C
  BY <1>2 DEF Catch!Least
<1> HIDE DEF fruits0
<1>5. droplets0 \in 0 .. n2 /\ droplets0 + fruits0 <= C
  BY <1>2, <1>4 DEF Catch!Least
<1> HIDE DEF droplets0
<1>6. fruits \in 0 .. n1 /\ fruits <= C
  BY <1>2, <1>4, <1>5 DEF Catch!Least
<1>7. CatchSettled(c) => fruits = g1 /\ droplets0 = g2
  BY <1>2, <1>3, <1>4 DEF Catch!Least, fruits0, droplets0
<1> HIDE DEF fruits
<1>8. droplets \in 0 .. n2
  BY <1>2, <1>5, <1>6 DEF Catch!Least
<1>9. tiny0 \in 0 .. n3
  BY <1>2 DEF Catch!Least
<1>10. CatchSettled(c) => tiny0 = g3
  BY <1>2, <1>3 DEF Catch!Least
<1> HIDE DEF tiny0
<1>11. misses0 \in 0 .. n3
  BY <1>2, <1>9 DEF Catch!Least
<1>12. CatchSettled(c) => misses0 = g4
  BY <1>2, <1>3, <1>10 DEF Catch!Least
<1> HIDE DEF misses0
<1>13. tiny \in 0 .. n3 /\ misses \in Nat
  BY <1>2, <1>9, <1>11
<1>14. CatchSettled(c) => droplets = g2 /\ tiny = g3 /\ misses = g4
  BY <1>3, <1>7, <1>10, <1>12
<1> HIDE DEF droplets, tiny, misses
<1>15. /\ fruits \in 0 .. c.n[1] /\ droplets \in 0 .. c.n[2] /\ tiny \in 0 .. c.n[3]
       /\ misses \in Nat
  BY <1>6, <1>8, <1>13 DEF n1, n2, n3
<1>16. IsBalanced(c, fruits, droplets, tiny, misses, h)
  BY <1>1, <1>15, BalancedAddsUp
<1>17. CatchSettled(c) =>
         c.given[1] = fruits /\ c.given[2] = droplets /\ c.given[3] = tiny /\ c.given[4] = misses
  BY <1>7, <1>14 DEF g1, g2, g3, g4
<1> QED BY <1>16, <1>17 DEF IsBalanced, h

LEMMA CatchSubIsNatural ==
  ASSUME NEW x \in Int, NEW y \in Int
  PROVE  Catch!SaturatingSub(x, y) \in Nat
BY DEF Catch!SaturatingSub

LEMMA CatchLeastIsLess ==
  ASSUME NEW x \in Nat, NEW y \in Nat
  PROVE  Catch!Least(x, y) \in Nat /\ Catch!Least(x, y) <= x /\ Catch!Least(x, y) <= y
BY DEF Catch!Least

(* With all numbers given Fast balances them; otherwise its numbers need   *)
(* not add up, but they do not exceed the pools.                           *)
LEMMA CatchFastAddsUp ==
  ASSUME NEW c, IsCatch(c), c.acc \in Nat
  PROVE  LET h == Catch!CatchFast(c)
         IN  /\ h \in [1 .. 4 -> Nat] /\ CatchBounded(c, h)
             /\ c.given \in [1 .. 4 -> Nat] => CatchAddsUp(c, h)
             /\ CatchSettled(c) => h = c.given
<1> DEFINE n1 == c.n[1]
           n2 == c.n[2]
           n3 == c.n[3]
           C == Catch!Catchable(c)
           missing == {k \in 1 .. 4 : ~Catch!Given(c, k)}
           N == Catch!TotalObjects(c)
           P == Catch!Pool(c)
           f == Catch!ClampedFruits(c)
           d == Catch!ClampedDroplets(c)
           t == Catch!Provided(c, 3)
           u == Catch!ProvidedTinyMisses(c)
           h == Catch!CatchFast(c)
<1>1. h = CASE N = 0 -> <<0, 0, 0, 0>>
            [] N > 0 /\ missing = {} -> Catch!BalanceFruits(c, f, d) \o Catch!BalanceTiny(c, t, u)
            [] N > 0 /\ (\E k \in 1 .. 4 : missing = {k}) -> Catch!OneMissing(c)
            [] OTHER -> Catch!ManyMissing(c)
  BY DEF Catch!CatchFast
<1>2. /\ n1 \in Nat /\ n2 \in Nat /\ n3 \in Nat /\ C \in Nat /\ c.misses \in Nat
      /\ C + c.misses = n1 + n2 /\ N = n1 + n2 + n3 /\ P \in Nat /\ P = n1 + n2
      /\ \A k \in 1 .. 4 : Catch!Given(c, k) => c.given[k] \in Nat
      /\ \A k \in 1 .. 4 : Catch!Given(c, k) <=> c.given[k] # None
  BY CatchNumbers DEF IsCatch
<1>3. c.given \in [1 .. 4 -> Nat] <=> missing = {}
  <2>1. c.given \in [1 .. 4 -> MaybeNat]
    BY DEF IsCatch
  <2>2. ASSUME c.given \in [1 .. 4 -> Nat] PROVE missing = {}
    <3>1. \A k \in 1 .. 4 : c.given[k] # None
      BY <2>2, NoneAssumption
    <3> QED BY <1>2, <3>1
  <2>3. ASSUME missing = {} PROVE c.given \in [1 .. 4 -> Nat]
    <3>1. \A k \in 1 .. 4 : c.given[k] \in Nat
      BY <1>2, <2>3
    <3> QED BY <2>1, <3>1
  <2> QED BY <2>2, <2>3
<1>4. ASSUME NEW k \in {1, 2, 3}
      PROVE  /\ Catch!Provided(c, k) \in 0 .. c.n[k]
             /\ Catch!Given(c, k) => Catch!Provided(c, k) = Catch!Least(c.given[k], c.n[k])
  <2>1. c.n[k] \in Nat
    BY <1>2
  <2>2. Catch!Given(c, k) => c.given[k] \in Nat
    BY <1>2
  <2> QED BY <2>1, <2>2 DEF Catch!Provided, Catch!Least
<1>5. f \in 0 .. n1 /\ f <= C
  <2> DEFINE g == Catch!Provided(c, 1)
  <2>1. g \in 0 .. n1
    BY <1>4
  <2>2. f = Catch!Least(g, C)
    BY DEF Catch!ClampedFruits
  <2> HIDE DEF g, f, C, n1
  <2> QED BY <1>2, <2>1, <2>2 DEF Catch!Least
<1>6. d \in 0 .. n2 /\ f + d <= C
  <2> DEFINE g == Catch!Provided(c, 2)
  <2>1. g \in 0 .. n2
    BY <1>4
  <2>2. d = Catch!Least(g, C - f)
    BY DEF Catch!ClampedDroplets
  <2> HIDE DEF g, f, d, C, n1, n2
  <2> QED BY <1>2, <1>5, <2>1, <2>2 DEF Catch!Least
<1>7. t \in 0 .. n3 /\ u \in Nat
  BY <1>2, <1>4 DEF Catch!ProvidedTinyMisses
<1>8. CatchSettled(c) =>
        /\ missing = {}
        /\ c.given[1] <= n1 /\ c.given[2] <= n2 /\ c.given[1] + c.given[2] = C
        /\ c.given[3] + c.given[4] = n3
        /\ c.given[1] \in Nat /\ c.given[2] \in Nat /\ c.given[3] \in Nat /\ c.given[4] \in Nat
  <2> SUFFICES ASSUME CatchSettled(c)
               PROVE  /\ missing = {}
                      /\ c.given[1] <= n1 /\ c.given[2] <= n2 /\ c.given[1] + c.given[2] = C
                      /\ c.given[3] + c.given[4] = n3
                      /\ c.given[1] \in Nat /\ c.given[2] \in Nat /\ c.given[3] \in Nat /\ c.given[4] \in Nat
    OBVIOUS
  <2>1. /\ c.given[1] <= n1 /\ c.given[2] <= n2 /\ c.given[1] + c.given[2] + c.misses = n1 + n2
        /\ c.given[3] + c.given[4] = n3 /\ c.given \in [1 .. 4 -> Nat]
    BY DEF CatchSettled, CatchAddsUp
  <2>2. c.given[1] \in Nat /\ c.given[2] \in Nat /\ c.given[3] \in Nat /\ c.given[4] \in Nat
    BY <2>1
  <2>3. c.given[1] + c.given[2] = C
    <3> DEFINE ms == c.misses
               g1 == c.given[1]
               g2 == c.given[2]
    <3> HIDE DEF n1, n2, n3, C, g1, g2, h, ms
    <3>1. /\ g1 \in Nat /\ g2 \in Nat /\ n1 \in Nat /\ n2 \in Nat /\ C \in Nat /\ ms \in Nat
          /\ C + ms = n1 + n2 /\ g1 + g2 + ms = n1 + n2
      BY <1>2, <2>1, <2>2 DEF ms, g1, g2
    <3>2. g1 + g2 = C
      BY <3>1
    <3> QED BY <3>2 DEF g1, g2
  <2> QED BY <1>3, <2>1, <2>2, <2>3
<1> HIDE DEF h
<1>9. CASE N = 0
  <2>1. h = <<0, 0, 0, 0>>
    BY <1>1, <1>9
  <2>2. n1 = 0 /\ n2 = 0 /\ n3 = 0 /\ c.misses = 0 /\ C = 0
    <3> DEFINE ms == c.misses
    <3> HIDE DEF n1, n2, n3, C, N, P, ms
    <3>1. /\ n1 \in Nat /\ n2 \in Nat /\ n3 \in Nat /\ C \in Nat /\ ms \in Nat
          /\ C + ms = n1 + n2 /\ n1 + n2 + n3 = 0
      BY <1>2, <1>9 DEF ms
    <3>2. n1 = 0 /\ n2 = 0 /\ n3 = 0 /\ ms = 0 /\ C = 0
      BY <3>1
    <3> QED BY <3>2 DEF ms
  <2>3. h \in [1 .. 4 -> Nat] /\ CatchAddsUp(c, h) /\ CatchBounded(c, h)
    BY <2>1, <2>2 DEF CatchAddsUp, CatchBounded
  <2>4. CatchSettled(c) => h = c.given
    <3> SUFFICES ASSUME CatchSettled(c) PROVE h = c.given
      OBVIOUS
    <3>1. c.given[1] = 0 /\ c.given[2] = 0 /\ c.given[3] = 0 /\ c.given[4] = 0
      BY <1>8, <2>2
    <3>2. \A k \in 1 .. 4 : k = 1 \/ k = 2 \/ k = 3 \/ k = 4
      OBVIOUS
    <3>3. \A k \in 1 .. 4 : h[k] = c.given[k]
      BY <2>1, <3>1, <3>2
    <3>4. c.given \in [1 .. 4 -> Nat]
      BY DEF CatchSettled
    <3> QED BY <2>3, <3>3, <3>4
  <2> QED BY <2>3, <2>4 DEF h
<1>10. CASE N > 0 /\ missing = {}
  <2>1. h = Catch!BalanceFruits(c, f, d) \o Catch!BalanceTiny(c, t, u)
    <3> DEFINE b == Catch!BalanceFruits(c, f, d) \o Catch!BalanceTiny(c, t, u)
    <3>1. N # 0
      BY <1>2, <1>10
    <3> HIDE DEF b, N, missing
    <3>2. h = CASE N = 0 -> <<0, 0, 0, 0>>
                [] N > 0 /\ missing = {} -> b
                [] N > 0 /\ (\E k \in 1 .. 4 : missing = {k}) -> Catch!OneMissing(c)
                [] OTHER -> Catch!ManyMissing(c)
      BY <1>1 DEF b
    <3>3. \A k \in 1 .. 4 : missing # {k}
      BY <1>10
    <3> QED BY <1>10, <3>1, <3>2, <3>3 DEF b
  <2>2. CatchSettled(c) => c.given[1] = f /\ c.given[2] = d /\ c.given[3] = t /\ c.given[4] = u
    <3> SUFFICES ASSUME CatchSettled(c)
                 PROVE  c.given[1] = f /\ c.given[2] = d /\ c.given[3] = t /\ c.given[4] = u
      OBVIOUS
    <3>1. \A k \in 1 .. 4 : Catch!Given(c, k)
      BY <1>10
    <3>2. c.given[1] = f
      <4>1. f = Catch!Least(Catch!Least(c.given[1], n1), C)
        BY <1>4, <3>1 DEF Catch!ClampedFruits
      <4> HIDE DEF f, n1, n2, n3, C
      <4> QED BY <1>2, <1>8, <4>1 DEF Catch!Least
    <3>3. c.given[2] = d
      <4>1. d = Catch!Least(Catch!Least(c.given[2], n2), C - f)
        BY <1>4, <3>1 DEF Catch!ClampedDroplets
      <4> HIDE DEF f, d, n1, n2, n3, C
      <4> QED BY <1>2, <1>8, <3>2, <4>1 DEF Catch!Least
    <3>4. c.given[3] = t
      <4>1. t = Catch!Least(c.given[3], n3)
        BY <1>4, <3>1
      <4> HIDE DEF t, n1, n2, n3, C
      <4> QED BY <1>2, <1>8, <4>1 DEF Catch!Least
    <3>5. c.given[4] = u
      BY <3>1 DEF Catch!ProvidedTinyMisses
    <3> QED BY <3>2, <3>3, <3>4, <3>5
  <2> HIDE DEF f, d, t, u, missing
  <2>3. /\ h \in [1 .. 4 -> Nat] /\ CatchAddsUp(c, h)
        /\ CatchSettled(c) /\ c.given[1] = f /\ c.given[2] = d /\ c.given[3] = t /\ c.given[4] = u
             => h = c.given
    <3>1. f \in 0 .. c.n[1] /\ d \in 0 .. c.n[2] /\ t \in 0 .. c.n[3] /\ u \in Nat
      BY <1>5, <1>6, <1>7
    <3>2. IsBalanced(c, f, d, t, u, h)
      BY <2>1, <3>1, BalancedAddsUp
    <3> QED BY <3>2 DEF IsBalanced
  <2>4. CatchBounded(c, h)
    <3>1. c.given[4] # None
      BY <1>2, <1>10 DEF missing
    <3>2. h[1] \in Nat /\ h[2] \in Nat
      BY <2>3
    <3> QED BY <1>2, <2>3, <3>1, <3>2 DEF CatchAddsUp, CatchBounded
  <2> QED BY <2>2, <2>3, <2>4 DEF h
<1> DEFINE need == Catch!CatchesNeeded(c)
<1>11. need \in Int
  <2>1. c.acc * N \in Int /\ need = Catch!RoundTiesEven(c.acc * N, AccSteps)
    <3>1. c.acc \in Int /\ N \in Int
      BY <1>2
    <3> HIDE DEF N
    <3> QED BY <3>1 DEF Catch!CatchesNeeded, N
  <2> DEFINE x == c.acc * N
  <2> HIDE DEF x, N, need
  <2>2. x \in Int /\ need = Catch!RoundTiesEven(x, AccSteps)
    BY <2>1 DEF x
  <2> DEFINE q == (2 * x + AccSteps) \div (2 * AccSteps)
  <2>3. q \in Int
    BY <2>2, AccStepsAssumption
  <2>4. need = q - 1 \/ need = q
    BY <2>2 DEF Catch!RoundTiesEven
  <2> HIDE DEF q
  <2> QED BY <2>3, <2>4
<1> HIDE DEF f, d, t, u, need, n1, n2, n3, C, P, N
<1>14. CASE N > 0 /\ missing # {} /\ (\E k \in 1 .. 4 : missing = {k})
  <2> DEFINE fruits == IF Catch!Given(c, 1) THEN f
                       ELSE Catch!Least(Catch!SaturatingSub(P, d + c.misses), n1)
             droplets == IF Catch!Given(c, 2) THEN d
                         ELSE Catch!Least(Catch!SaturatingSub(P, f + c.misses), n2)
             tiny == IF Catch!Given(c, 3) THEN t
                     ELSE Catch!Least(Catch!SaturatingSub(need, f + d), n3)
             misses == IF Catch!Given(c, 4) THEN u ELSE Catch!SaturatingSub(n3, t)
  <2>1. h = <<fruits, droplets, tiny, misses>>
    <3>1. h = Catch!OneMissing(c)
      <4>1. N # 0
        BY <1>2, <1>14
      <4> QED BY <1>1, <1>14, <4>1
    <3> QED BY <3>1 DEF Catch!OneMissing, f, d, t, u, need, n1, n2, n3, P
  <2>2. /\ f \in Nat /\ d \in Nat /\ t \in Nat /\ d + c.misses \in Int /\ f + c.misses \in Int
        /\ f + d \in Int
    BY <1>2, <1>5, <1>6, <1>7
  <2>3. fruits \in Nat /\ droplets \in Nat /\ tiny \in Nat /\ misses \in Nat
    <3> DEFINE y == d + c.misses
               z == f + c.misses
               w == f + d
    <3>1. /\ y \in Int /\ z \in Int /\ w \in Int /\ P \in Int /\ need \in Int
          /\ n1 \in Nat /\ n2 \in Nat /\ n3 \in Nat /\ u \in Nat /\ t \in Int /\ n3 \in Int
          /\ f \in Nat /\ d \in Nat /\ t \in Nat
      BY <1>2, <1>7, <1>11, <2>2
    <3> HIDE DEF y, z, w
    <3> DEFINE r1 == Catch!SaturatingSub(P, y)
               r2 == Catch!SaturatingSub(P, z)
               r3 == Catch!SaturatingSub(need, w)
               r4 == Catch!SaturatingSub(n3, t)
    <3>2. r1 \in Nat /\ r2 \in Nat /\ r3 \in Nat /\ r4 \in Nat
      BY <3>1, CatchSubIsNatural
    <3> HIDE DEF r1, r2, r3, r4
    <3>3. Catch!Least(r1, n1) \in Nat /\ Catch!Least(r2, n2) \in Nat /\ Catch!Least(r3, n3) \in Nat
      BY <3>1, <3>2, CatchLeastIsLess
    <3> QED BY <3>1, <3>2, <3>3 DEF r1, r2, r3, r4, y, z, w
  <2>4. h \in [1 .. 4 -> Nat]
    <3> HIDE DEF fruits, droplets, tiny, misses
    <3> QED BY <2>1, <2>3
  <2>5. fruits + droplets <= C
    <3>1. Catch!Given(c, 1) \/ Catch!Given(c, 2)
      <4>1. PICK k \in 1 .. 4 : missing = {k}
        BY <1>14
      <4>2. ~Catch!Given(c, 1) => k = 1
        BY <4>1
      <4>3. ~Catch!Given(c, 2) => k = 2
        BY <4>1
      <4> QED BY <4>2, <4>3
    <3> DEFINE ms == c.misses
               r1 == Catch!SaturatingSub(P, d + ms)
               r2 == Catch!SaturatingSub(P, f + ms)
    <3>2. ms \in Nat /\ P = C + ms /\ f \in Nat /\ d \in Nat /\ f + d <= C /\ C \in Nat
      BY <1>2, <1>5, <1>6
    <3> HIDE DEF ms
    <3>3. r1 = C - d /\ r2 = C - f /\ r1 \in Nat /\ r2 \in Nat
      BY <3>2 DEF Catch!SaturatingSub
    <3>4. r1 = Catch!SaturatingSub(P, d + c.misses) /\ r2 = Catch!SaturatingSub(P, f + c.misses)
      BY DEF ms
    <3> HIDE DEF r1, r2
    <3>5. /\ Catch!Least(r1, n1) \in Nat /\ Catch!Least(r1, n1) <= r1
          /\ Catch!Least(r2, n2) \in Nat /\ Catch!Least(r2, n2) <= r2
      BY <1>2, <3>3, CatchLeastIsLess
    <3> QED BY <3>1, <3>2, <3>3, <3>4, <3>5
  <2>6. c.given[4] = None => tiny + misses = n3
    <3> SUFFICES ASSUME c.given[4] = None PROVE tiny + misses = n3
      OBVIOUS
    <3>1. ~Catch!Given(c, 4)
      BY <1>2
    <3>2. Catch!Given(c, 3)
      BY <1>14, <3>1
    <3>3. n3 - t \in Nat /\ n3 \in Nat /\ t \in Nat
      BY <1>2, <1>7
    <3>4. Catch!SaturatingSub(n3, t) = n3 - t
      BY <3>3 DEF Catch!SaturatingSub
    <3> QED BY <3>1, <3>2, <3>3, <3>4
  <2>7. CatchBounded(c, h)
    <3> HIDE DEF fruits, droplets, tiny, misses
    <3>1. h[1] = fruits /\ h[2] = droplets /\ h[3] = tiny /\ h[4] = misses
      BY <2>1
    <3>2. fruits + droplets + c.misses <= n1 + n2
      BY <1>2, <2>3, <2>5
    <3> QED BY <2>6, <3>1, <3>2 DEF CatchBounded, n1, n2, n3
  <2> QED BY <1>3, <1>8, <1>14, <2>4, <2>7 DEF h
<1>15. CASE N > 0 /\ missing # {} /\ ~(\E k \in 1 .. 4 : missing = {k})
  <2>1. h = Catch!ManyMissing(c)
    <3>1. N # 0
      BY <1>2, <1>15
    <3> QED BY <1>1, <1>15, <3>1
  <2> DEFINE Fits(r) == r \in [1 .. 4 -> Nat] /\ CatchBounded(c, r)
  <2>2. ASSUME NEW x \in Nat, NEW y \in Nat, NEW s \in Nat, x + y <= C
        PROVE  Fits(Catch!ThenTiny(c, x, y, s))
    <3> DEFINE z == IF Catch!Given(c, 3) THEN t ELSE Catch!Least(s, n3)
               w == IF Catch!Given(c, 4) THEN u ELSE Catch!SaturatingSub(n3, z)
    <3>1. z \in Nat
      <4>1. t \in Nat /\ n3 \in Nat
        BY <1>2, <1>7
      <4>2. Catch!Least(s, n3) \in Nat
        BY <4>1, CatchLeastIsLess
      <4> QED BY <4>1, <4>2
    <3>2. w \in Nat
      <4> HIDE DEF z
      <4>1. u \in Nat /\ n3 \in Int /\ z \in Int
        BY <1>2, <1>7, <3>1
      <4>2. Catch!SaturatingSub(n3, z) \in Nat
        BY <4>1, CatchSubIsNatural
      <4> QED BY <4>1, <4>2
    <3>3. Catch!ThenTiny(c, x, y, s) = <<x, y, z, w>>
      BY DEF Catch!ThenTiny, t, u, n3
    <3>4. c.given[4] = None => z + w = n3
      <4> SUFFICES ASSUME c.given[4] = None PROVE z + w = n3
        OBVIOUS
      <4>1. ~Catch!Given(c, 4) /\ t \in 0 .. n3 /\ n3 \in Nat
        BY <1>2, <1>7
      <4>2. Catch!Least(s, n3) <= n3
        BY <4>1, CatchLeastIsLess
      <4>3. z <= n3
        BY <4>1, <4>2
      <4> HIDE DEF z
      <4>4. Catch!SaturatingSub(n3, z) = n3 - z
        BY <3>1, <4>1, <4>3 DEF Catch!SaturatingSub
      <4> QED BY <3>1, <4>1, <4>4
    <3> HIDE DEF z, w
    <3> DEFINE r == Catch!ThenTiny(c, x, y, s)
    <3>5. r \in [1 .. 4 -> Nat] /\ r[1] = x /\ r[2] = y /\ r[3] = z /\ r[4] = w
      BY <3>1, <3>2, <3>3
    <3>6. x + y + c.misses <= n1 + n2
      BY <1>2, <2>2
    <3> HIDE DEF r
    <3>7. CatchBounded(c, r)
      BY <3>4, <3>5, <3>6 DEF CatchBounded, n1, n2, n3
    <3> QED BY <3>5, <3>7 DEF r
  <2>3. ASSUME NEW x \in Nat, NEW y \in Nat, NEW s \in Nat, x + y <= C
        PROVE  Fits(Catch!ThenRaise(c, x, y, s))
    <3> DEFINE short == Catch!SaturatingSub(P, x + y + c.misses)
               raised == IF Catch!Given(c, 1) /\ ~Catch!Given(c, 2) THEN Catch!Least(n1, x + short) ELSE x
               r == Catch!SaturatingSub(s, raised - x)
    <3>1. short \in Nat
      <4> DEFINE e == x + y + c.misses
      <4>1. e \in Int /\ P \in Int
        BY <1>2
      <4> HIDE DEF e
      <4>2. Catch!SaturatingSub(P, e) \in Nat
        BY <4>1, CatchSubIsNatural
      <4> QED BY <4>2 DEF e
    <3>5. x + y + short = C
      <4> DEFINE e == x + y + c.misses
      <4>1. e \in Int /\ P = C + c.misses /\ e <= P
        BY <1>2, <2>3
      <4> HIDE DEF e
      <4>2. Catch!SaturatingSub(P, e) = P - e
        BY <1>2, <4>1 DEF Catch!SaturatingSub
      <4>3. short = P - (x + y + c.misses)
        BY <4>2 DEF e
      <4> QED BY <1>2, <4>1, <4>3
    <3> HIDE DEF short
    <3>2. raised \in Nat /\ raised + y <= C
      <4> DEFINE e == x + short
      <4>1. e \in Nat /\ n1 \in Nat
        BY <1>2, <3>1
      <4> HIDE DEF e
      <4>2. Catch!Least(n1, e) \in Nat /\ Catch!Least(n1, e) <= e
        BY <4>1, CatchLeastIsLess
      <4>3. e + y = C
        BY <1>2, <3>1, <3>5 DEF e
      <4>4. (raised \in Nat /\ raised <= e) \/ raised = x
        BY <4>2 DEF e
      <4> HIDE DEF raised
      <4> QED BY <1>2, <2>3, <4>1, <4>3, <4>4
    <3> HIDE DEF raised
    <3>3. r \in Nat
      <4> DEFINE e == raised - x
      <4>1. e \in Int /\ s \in Int
        BY <3>2
      <4> HIDE DEF e
      <4>2. Catch!SaturatingSub(s, e) \in Nat
        BY <4>1, CatchSubIsNatural
      <4> QED BY <4>2 DEF e
    <3>4. Catch!ThenRaise(c, x, y, s) = Catch!ThenTiny(c, raised, y, r)
      BY DEF Catch!ThenRaise, raised, short, P, n1
    <3> HIDE DEF r
    <3> QED BY <2>2, <3>2, <3>3, <3>4
  <2>4. ASSUME NEW x \in Nat, x + d <= C, NEW s \in Nat
        PROVE  Fits(Catch!ThenDroplets(c, x, s))
    <3> DEFINE y == CASE Catch!Given(c, 2) -> d
                      [] ~Catch!Given(c, 2) /\ ~Catch!Given(c, 1) ->
                           Catch!Least(s, Catch!Least(n2, C - x))
                      [] ~Catch!Given(c, 2) /\ Catch!Given(c, 1) ->
                           Catch!Least(Catch!SaturatingSub(P, x + c.misses), n2)
               r == IF Catch!Given(c, 2) THEN s ELSE Catch!SaturatingSub(s, y)
    <3>1. y \in Nat /\ x + y <= C
      <4>1. /\ C - x \in Nat /\ x + c.misses \in Int /\ d \in Nat
            /\ x + c.misses <= P /\ P - (x + c.misses) = C - x
        BY <1>2, <1>6, <2>4
      <4> DEFINE e == C - x
                 o == x + c.misses
                 l == Catch!Least(n2, e)
                 r2 == Catch!SaturatingSub(P, o)
      <4> HIDE DEF e, o
      <4>2. e \in Nat /\ o \in Int /\ n2 \in Nat /\ P \in Int /\ o <= P /\ P - o = e
        BY <1>2, <4>1 DEF e, o
      <4>3. l \in Nat /\ l <= e
        BY <4>2, CatchLeastIsLess
      <4>4. r2 = e
        BY <4>2 DEF Catch!SaturatingSub
      <4> HIDE DEF l, r2
      <4>5. /\ Catch!Least(s, l) \in Nat /\ Catch!Least(s, l) <= l
            /\ Catch!Least(r2, n2) \in Nat /\ Catch!Least(r2, n2) <= r2
        BY <4>2, <4>3, <4>4, CatchLeastIsLess
      <4>6. y = d \/ y = Catch!Least(s, l) \/ y = Catch!Least(r2, n2)
        BY DEF l, r2, e, o
      <4>7. x + e = C
        BY <1>2 DEF e
      <4> HIDE DEF y
      <4> QED BY <1>2, <2>4, <4>1, <4>2, <4>3, <4>4, <4>5, <4>6, <4>7
    <3>2. Catch!ThenDroplets(c, x, s) = Catch!ThenRaise(c, x, y, r)
      BY DEF Catch!ThenDroplets, d, n2, C, P
    <3> HIDE DEF y
    <3>3. r \in Nat
      <4>1. s \in Int /\ y \in Int
        BY <3>1
      <4>2. Catch!SaturatingSub(s, y) \in Nat
        BY <4>1, CatchSubIsNatural
      <4> QED BY <4>2
    <3> HIDE DEF r
    <3> QED BY <2>3, <3>1, <3>2, <3>3
  <2>5. ASSUME NEW s \in Nat
        PROVE  Fits(Catch!FruitsFirst(c, s))
    <3> DEFINE caught == Catch!Least(s, Catch!Least(n1, C - d))
    <3>1. caught \in Nat /\ caught + d <= C /\ s - caught \in Nat /\ d \in Nat
      <4>1. C - d \in Nat /\ C - d <= C
        BY <1>2, <1>5, <1>6
      <4> DEFINE e == Catch!Least(n1, C - d)
      <4>2. e \in Nat /\ e <= C - d
        <5> DEFINE k == C - d
        <5>1. k \in Nat /\ n1 \in Nat
          BY <1>2, <4>1
        <5> HIDE DEF k
        <5>2. Catch!Least(n1, k) \in Nat /\ Catch!Least(n1, k) <= k
          BY <5>1, CatchLeastIsLess
        <5> QED BY <5>2 DEF k
      <4> HIDE DEF e
      <4>3. Catch!Least(s, e) \in Nat /\ Catch!Least(s, e) <= s /\ Catch!Least(s, e) <= e
        BY <4>2, CatchLeastIsLess
      <4>4. caught \in Nat /\ caught <= s /\ caught <= e
        BY <4>3 DEF e
      <4> HIDE DEF caught
      <4> QED BY <1>2, <1>6, <4>1, <4>2, <4>4
    <3>2. Catch!FruitsFirst(c, s) = IF Catch!Given(c, 1) THEN Catch!ThenDroplets(c, f, s)
                                    ELSE Catch!ThenDroplets(c, caught, s - caught)
      BY DEF Catch!FruitsFirst, f, d, n1, C
    <3>3. f \in Nat /\ f + d <= C
      BY <1>2, <1>5, <1>6
    <3> DEFINE k == s - caught
    <3>4. /\ caught \in Nat /\ caught + d <= C /\ k \in Nat
          /\ Catch!FruitsFirst(c, s) = IF Catch!Given(c, 1) THEN Catch!ThenDroplets(c, f, s)
                                      ELSE Catch!ThenDroplets(c, caught, k)
      BY <3>1, <3>2
    <3> HIDE DEF caught, k
    <3>5. Fits(Catch!ThenDroplets(c, f, s))
      BY <2>4, <3>3
    <3>6. Fits(Catch!ThenDroplets(c, caught, k))
      BY <2>4, <3>4
    <3> QED BY <3>4, <3>5, <3>6
  <2>6. Catch!ManyMissing(c) = Catch!FruitsFirst(c, Catch!SaturatingSub(need, f + d + t))
    BY DEF Catch!ManyMissing, need, f, d, t
  <2>7. Catch!SaturatingSub(need, f + d + t) \in Nat
    <3> DEFINE e == f + d + t
    <3>1. e \in Int
      BY <1>2, <1>5, <1>6, <1>7
    <3> HIDE DEF e
    <3>2. Catch!SaturatingSub(need, e) \in Nat
      BY <1>11, <3>1, CatchSubIsNatural
    <3> QED BY <3>2 DEF e
  <2>8. h \in [1 .. 4 -> Nat] /\ CatchBounded(c, h)
    BY <2>1, <2>5, <2>6, <2>7
  <2> QED BY <1>3, <1>8, <1>15, <2>8 DEF h
<1>16. N = 0 \/ N > 0
  BY <1>2
<1> QED BY <1>9, <1>10, <1>14, <1>15, <1>16

(* The request of a catch calculator.                                      *)
LEMMA InspectCatchAsks ==
  ASSUME "catch" \in Modes, NEW a, IsAttributes("catch", a), NEW p, IsOptions("catch", p)
  PROVE  LET c == InspectCatch(a, p)
         IN  /\ IsCatch(c) /\ c.given = p.given /\ c.acc = p.acc
             /\ c.misses = InspectMisses("catch", a, p)
             /\ c.n[1] + c.n[2] = TotalHits("catch", a, p) /\ c.n[3] = a.tiny
             /\ a.fruits \in Nat /\ a.droplets \in Nat /\ a.tiny \in Nat
<1> DEFINE c == InspectCatch(a, p)
<1>1. a.fruits \in Nat /\ a.droplets \in Nat /\ a.tiny \in Nat
  BY DEF IsAttributes, AttrFields
<1>2. /\ c.given = p.given /\ c.acc = p.acc /\ c.misses = InspectMisses("catch", a, p)
      /\ c.n[1] = a.fruits /\ c.n[2] = a.droplets /\ c.n[3] = a.tiny
  BY DEF InspectCatch
<1>3. TotalHits("catch", a, p) = a.fruits + a.droplets
  BY DEF TotalHits
<1>4. p.given \in [1 .. 4 -> MaybeNat]
  BY CatchHasFour
<1>5. InspectMisses("catch", a, p) \in 0 .. TotalHits("catch", a, p)
  BY TotalsAreNatural
<1> HIDE DEF c
<1>6. IsCatch(c)
  BY <1>1, <1>2, <1>3, <1>4, <1>5 DEF IsCatch
<1> QED BY <1>1, <1>2, <1>3, <1>6 DEF c

LEMMA CatchHitsAre ==
  ASSUME "catch" \in Modes, NEW a, IsAttributes("catch", a), NEW p, IsOptions("catch", p)
  PROVE  LET c == InspectCatch(a, p)
             h == Hits("catch", a, p)
         IN  /\ h \in [1 .. 4 -> Nat]
             /\ CatchBounded(c, h) \/ CatchAddsUp(c, h)
             /\ IgnoresAccuracy("catch", p) \/ p.given \in [1 .. 4 -> Nat] => CatchAddsUp(c, h)
             /\ CatchSettled(c) => h = p.given
<1> DEFINE c == InspectCatch(a, p)
           h == Hits("catch", a, p)
<1>1. IsCatch(c) /\ c.given = p.given /\ c.acc = p.acc
  BY InspectCatchAsks
<1>2. h = IF IgnoresAccuracy("catch", p) THEN Catch!CatchIgnoreAccuracy(c) ELSE Catch!CatchFast(c)
  BY DEF Hits, CatchHits
<1> HIDE DEF c, h
<1>3. CASE IgnoresAccuracy("catch", p)
  <2>1. /\ h \in [1 .. 4 -> Nat] /\ CatchAddsUp(c, h)
        /\ CatchSettled(c) => h = c.given
    BY <1>1, <1>2, <1>3, CatchIgnoringAddsUp
  <2> QED BY <1>1, <1>3, <2>1 DEF c, h
<1>4. CASE ~IgnoresAccuracy("catch", p)
  <2>1. c.acc \in Nat
    BY <1>1, <1>4, OptionsParts, AccStepsAssumption DEF IgnoresAccuracy
  <2>2. /\ h \in [1 .. 4 -> Nat] /\ CatchBounded(c, h)
        /\ c.given \in [1 .. 4 -> Nat] => CatchAddsUp(c, h)
        /\ CatchSettled(c) => h = c.given
    BY <1>1, <1>2, <1>4, <2>1, CatchFastAddsUp
  <2> QED BY <1>1, <1>4, <2>2 DEF c, h
<1> QED BY <1>3, <1>4

(***************************************************************************)
(* Generating again                                                        *)
(***************************************************************************)

(* The hits of a state are numbers, as many as there are judgements.       *)
LEMMA HitsAreNatural ==
  ASSUME NEW m \in Modes, NEW a, IsAttributes(m, a), NEW p, IsOptions(m, p),
         ~Underflows(m, a, p)
  PROVE  Hits(m, a, p) \in [1 .. JudgementsOf[m] -> Nat]
<1>1. CASE m = "catch"
  BY <1>1, CatchHitsAre DEF JudgementsOf
<1>2. CASE m # "catch"
  BY <1>2, HitsAre
<1> QED BY <1>1, <1>2

LEMMA ComboIsNatural ==
  ASSUME NEW m \in Modes, NEW a, IsAttributes(m, a), NEW p, IsOptions(m, p)
  PROVE  /\ SaturatingSub(MaxCombo(m, a), InspectMisses(m, a, p)) \in Nat
         /\ Combo(m, a, p) \in Nat
<1> DEFINE possible == SaturatingSub(MaxCombo(m, a), InspectMisses(m, a, p))
<1>1. MaxCombo(m, a) \in Nat /\ InspectMisses(m, a, p) \in Nat
  BY TotalsAreNatural
<1>2. possible \in Nat
  BY <1>1 DEF SaturatingSub
<1>3. p.combo = None \/ p.combo \in Nat
  BY OptionsParts DEF MaybeNat
<1>4. Combo(m, a, p) = CASE p.combo = None                -> possible
                         [] p.combo # None /\ m = "catch" -> p.combo
                         [] p.combo # None /\ m # "catch" -> Least(p.combo, possible)
  BY DEF Combo
<1> HIDE DEF possible
<1>5. Combo(m, a, p) \in Nat
  BY <1>2, <1>3, <1>4 DEF Least
<1> QED BY <1>2, <1>5 DEF possible

(* Options remain options when a state is stored in them.                  *)
LEMMA StoredOptions ==
  ASSUME NEW m \in Modes, NEW a, IsAttributes(m, a), NEW p, IsOptions(m, p),
         ~Underflows(m, a, p)
  PROVE  LET s == Generated(m, a, p)
             q == Store(m, p, s)
         IN  /\ IsOptions(m, q)
             /\ q.given = Hits(m, a, p) /\ q.misses = InspectMisses(m, a, p)
             /\ q.combo = (IF m = "mania" THEN p.combo ELSE Combo(m, a, p))
             /\ q.ticks = (IF m = "osu" THEN TickHits(a, p) ELSE p.ticks)
             /\ q.acc = p.acc /\ q.best_case = p.best_case /\ q.generator = p.generator
             /\ q.passed = p.passed /\ q.lazer = p.lazer /\ q.classic = p.classic
<1> DEFINE s == Generated(m, a, p)
           q == Store(m, p, s)
           ticks == IF m = "osu" THEN TickHits(a, p) ELSE p.ticks
           combo == IF m = "mania" THEN p.combo ELSE Combo(m, a, p)
<1>1. s.hits = Hits(m, a, p) /\ s.misses = InspectMisses(m, a, p) /\ s.ticks = ticks
      /\ s.combo = Combo(m, a, p)
  BY DEF Generated
<1>2. /\ Hits(m, a, p) \in [1 .. JudgementsOf[m] -> MaybeNat]
      /\ InspectMisses(m, a, p) \in MaybeNat
      /\ combo \in MaybeNat
      /\ ticks \in [1 .. 3 -> MaybeNat]
  <2>1. Hits(m, a, p) \in [1 .. JudgementsOf[m] -> Nat]
    BY HitsAreNatural
  <2>2. InspectMisses(m, a, p) \in Nat
    BY TotalsAreNatural
  <2>3. combo \in MaybeNat
    BY OptionsParts, ComboIsNatural DEF MaybeNat
  <2>4. ticks \in [1 .. 3 -> MaybeNat]
    <3>1. CASE m = "osu"
      <4>1. TickHits(a, p) \in [1 .. 3 -> Nat]
        BY <3>1, TicksAreNatural
      <4> QED BY <3>1, <4>1 DEF MaybeNat
    <3>2. CASE m # "osu"
      BY <3>2, OptionsParts
    <3> QED BY <3>1, <3>2
  <2> QED BY <2>1, <2>2, <2>3, <2>4 DEF MaybeNat
<1>3. q = [p EXCEPT !.given = Hits(m, a, p), !.misses = InspectMisses(m, a, p),
                    !.combo = combo, !.ticks = ticks]
  <2>1. q = [p EXCEPT !.given = s.hits, !.misses = s.misses,
                      !.combo = IF m = "mania" THEN @ ELSE s.combo, !.ticks = s.ticks]
    BY DEF Store
  <2> HIDE DEF s, q, ticks
  <2> QED BY <1>1, <2>1
<1> DEFINE h == Hits(m, a, p)
           ms == InspectMisses(m, a, p)
<1> HIDE DEF s, q, ticks, combo, h, ms
<1>4. q = [p EXCEPT !.given = h, !.misses = ms, !.combo = combo, !.ticks = ticks]
  BY <1>3 DEF h, ms
<1>5. /\ h \in [1 .. JudgementsOf[m] -> MaybeNat] /\ ms \in MaybeNat /\ combo \in MaybeNat
      /\ ticks \in [1 .. 3 -> MaybeNat]
  BY <1>2 DEF h, ms
<1>6. /\ IsOptions(m, q)
      /\ q.given = h /\ q.misses = ms /\ q.combo = combo /\ q.ticks = ticks
      /\ q.acc = p.acc /\ q.best_case = p.best_case /\ q.generator = p.generator
      /\ q.passed = p.passed /\ q.lazer = p.lazer /\ q.classic = p.classic
  BY <1>4, <1>5 DEF IsOptions
<1> QED BY <1>6 DEF q, s, h, ms, combo, ticks

(* Options that a state was stored in, whatever the accuracy now is.       *)
IsStored(m, a, p, q) ==
  /\ IsOptions(m, q)
  /\ q.given = Hits(m, a, p) /\ q.misses = InspectMisses(m, a, p)
  /\ q.combo = (IF m = "mania" THEN p.combo ELSE Combo(m, a, p))
  /\ q.ticks = (IF m = "osu" THEN TickHits(a, p) ELSE p.ticks)
  /\ q.generator = p.generator
  /\ q.passed = p.passed /\ q.lazer = p.lazer /\ q.classic = p.classic
  /\ p.acc # None => q.acc # None

LEMMA TotalsRepeat ==
  ASSUME NEW m \in Modes, NEW a, IsAttributes(m, a), NEW p, IsOptions(m, p),
         NEW q, IsStored(m, a, p, q)
  PROVE  /\ TotalHits(m, a, q) = TotalHits(m, a, p)
         /\ InspectMisses(m, a, q) = InspectMisses(m, a, p)
<1>1. TotalHits(m, a, q) = TotalHits(m, a, p)
  BY DEF TotalHits, IsClassic, IsStored
<1> DEFINE n == InspectMisses(m, a, p)
           t == TotalHits(m, a, p)
<1>2. t \in Nat /\ n \in 0 .. t
  BY TotalsAreNatural
<1>3. q.misses = n
  BY DEF IsStored
<1>4. InspectMisses(m, a, q) = IF q.misses = None THEN 0 ELSE Least(q.misses, t)
  BY <1>1 DEF InspectMisses
<1> HIDE DEF n, t
<1>5. n \in Nat /\ n # None /\ n <= t
  BY <1>2, NoneAssumption
<1>6. Least(n, t) = n
  BY <1>2, <1>5 DEF Least
<1> QED BY <1>1, <1>3, <1>4, <1>5, <1>6 DEF n, t

LEMMA ComboRepeats ==
  ASSUME NEW m \in Modes, NEW a, IsAttributes(m, a), NEW p, IsOptions(m, p),
         NEW q, IsStored(m, a, p, q)
  PROVE  Combo(m, a, q) = Combo(m, a, p)
<1> DEFINE possible == SaturatingSub(MaxCombo(m, a), InspectMisses(m, a, p))
           combo(x) == CASE x = None                -> possible
                         [] x # None /\ m = "catch" -> x
                         [] x # None /\ m # "catch" -> Least(x, possible)
           x == p.combo
           y == q.combo
<1>1. Combo(m, a, p) = combo(x) /\ Combo(m, a, q) = combo(y)
  BY TotalsRepeat DEF Combo
<1>2. possible \in Nat /\ (x = None \/ x \in Nat)
  BY ComboIsNatural, OptionsParts DEF MaybeNat
<1>3. y = IF m = "mania" THEN x ELSE combo(x)
  BY <1>1 DEF IsStored
<1> HIDE DEF possible, x, y
<1>4. CASE m = "mania"
  BY <1>1, <1>3, <1>4
<1>5. CASE m # "mania"
  <2>1. combo(x) \in Nat
    BY <1>2 DEF Least
  <2>2. y = combo(x) /\ y \in Nat /\ y # None
    BY <1>3, <1>5, <2>1, NoneAssumption
  <2>3. CASE m = "catch"
    BY <1>1, <2>2, <2>3
  <2>4. CASE m # "catch"
    <3>1. y <= possible
      BY <1>2, <2>2, <2>4 DEF Least
    <3>2. Least(y, possible) = y
      BY <1>2, <2>2, <3>1 DEF Least
    <3>3. combo(y) = y
      BY <2>2, <2>4, <3>2
    <3> QED BY <1>1, <2>2, <3>3
  <2> QED BY <2>3, <2>4
<1> QED BY <1>4, <1>5

LEMMA TicksRepeat ==
  ASSUME NEW a, IsAttributes("osu", a), NEW p, IsOptions("osu", p),
         NEW q, IsStored("osu", a, p, q)
  PROVE  TickHits(a, q) = TickHits(a, p)
<1>1. MaxTicks(a, q) = MaxTicks(a, p) /\ q.ticks = TickHits(a, p)
  BY DEF MaxTicks, IsStored
<1> DEFINE x == MaxTicks(a, p)
           h == TickHits(a, p)
<1>2. /\ \A t \in 1 .. 3 : x[t] \in Nat
      /\ h \in [1 .. 3 -> Nat]
      /\ \A t \in 1 .. 3 : h[t] <= x[t]
  BY TicksAreNatural
<1>3. TickHits(a, q) = [t \in 1 .. 3 |-> IF h[t] = None THEN x[t] ELSE Least(h[t], x[t])]
  BY <1>1 DEF TickHits
<1> HIDE DEF x, h
<1>4. ASSUME NEW t \in 1 .. 3
      PROVE  (IF h[t] = None THEN x[t] ELSE Least(h[t], x[t])) = h[t]
  <2>1. h[t] \in Nat /\ h[t] # None
    BY <1>2, NoneAssumption
  <2>2. Least(h[t], x[t]) = h[t]
    BY <1>2, <2>1 DEF Least
  <2> QED BY <2>1, <2>2
<1>5. TickHits(a, q) = h
  BY <1>2, <1>3, <1>4
<1> QED BY <1>5 DEF h

(* Of what Numbers and AllGiven say of options.                            *)
LEMMA NumbersAre ==
  ASSUME NEW m \in Modes \ {"catch"}, NEW a, IsAttributes(m, a), NEW p, IsOptions(m, p)
  PROVE  LET i == Inspect(m, a, p)
         IN  /\ Numbers(p) = Total(Amounts(i), JudgementsOf[m]) /\ Numbers(p) \in Nat
             /\ AllGiven(p) <=> Missing(i) = {}
             /\ DOMAIN p.given = 1 .. JudgementsOf[m]
<1> DEFINE i == Inspect(m, a, p)
           J == JudgementsOf[m]
<1>1. IsRequest(i, J) /\ i.given = p.given
  BY InspectAsks
<1> HIDE DEF i, J
<1>2. /\ Judgements(i) = 1 .. J /\ Amounts(i) \in [1 .. J -> Nat] /\ J \in Sizes
  BY <1>1, RequestParts DEF IsRequest
<1>3. Numbers(p) = SumFunction(Amounts(i))
  BY <1>1 DEF Numbers, Amounts, Judgements
<1>4. Amounts(i) \in [1 .. J -> Int]
  BY <1>2
<1>5. SumFunction(Amounts(i)) = Total(Amounts(i), J)
  BY <1>2, <1>4, SumIsTotal
<1>6. Total(Amounts(i), J) \in Nat
  <2> DEFINE f == Amounts(i)
  <2>1. J \in {2, 3, 5} /\ \A k \in 1 .. J : f[k] \in Nat
    BY <1>2 DEF Sizes
  <2> HIDE DEF f
  <2> QED BY <2>1 DEF Total, f
<1>7. AllGiven(p) <=> Missing(i) = {}
  BY <1>1 DEF AllGiven, Missing, Judgements
<1>8. DOMAIN p.given = 1 .. J
  BY <1>1, <1>2 DEF Judgements
<1> QED BY <1>3, <1>5, <1>6, <1>7, <1>8 DEF i, J

LEMMA HitsRepeat ==
  ASSUME NEW m \in Modes, NEW a, IsAttributes(m, a), NEW p, IsOptions(m, p),
         ~Underflows(m, a, p), NEW q, IsStored(m, a, p, q),
         m = "catch" => IgnoresAccuracy(m, p) \/ p.given \in [1 .. 4 -> Nat],
         m = "mania" => MustAddUp(m, a, p)
  PROVE  Hits(m, a, q) = Hits(m, a, p)
<1> DEFINE h == Hits(m, a, p)
<1>1. q.given = h /\ IsOptions(m, q) /\ h \in [1 .. JudgementsOf[m] -> Nat]
  BY HitsAreNatural DEF IsStored
<1>2. CASE m = "catch"
  <2> DEFINE c == InspectCatch(a, p)
             d == InspectCatch(a, q)
  <2>1. CatchAddsUp(c, h)
    BY <1>2, CatchHitsAre
  <2>2. d.given = h /\ d.n = c.n /\ d.misses = c.misses
    <3>1. d.given = q.given /\ d.n = c.n
      BY DEF InspectCatch
    <3>2. d.misses = c.misses
      BY <1>2, TotalsRepeat DEF InspectCatch
    <3> QED BY <1>1, <3>1, <3>2
  <2>3. h \in [1 .. 4 -> Nat]
    BY <1>1, <1>2 DEF JudgementsOf
  <2>4. CatchSettled(d)
    <3> HIDE DEF c, d, h
    <3> QED BY <2>1, <2>2, <2>3 DEF CatchSettled, CatchAddsUp
  <2>5. Hits("catch", a, q) = q.given
    BY <1>1, <1>2, <2>4, CatchHitsAre
  <2> QED BY <1>1, <1>2, <2>5
<1>3. CASE m # "catch"
  <2> DEFINE i == Inspect(m, a, p)
             j == Inspect(m, a, q)
             J == JudgementsOf[m]
  <2>1. /\ IsRequest(i, J) /\ IsRequest(j, J) /\ j.given = q.given
        /\ Remain(i) = TotalHits(m, a, p) - InspectMisses(m, a, p)
        /\ Remain(j) = TotalHits(m, a, q) - InspectMisses(m, a, q)
    BY <1>1, <1>3, InspectAsks
  <2>2. Remain(j) = Remain(i)
    BY <2>1, TotalsRepeat
  <2> HIDE DEF i, j, J, h
  <2>3. j.given = h /\ Missing(j) = {} /\ h \in [1 .. J -> Nat]
    <3>1. j.given = h /\ h \in [1 .. J -> Nat]
      BY <1>1, <2>1 DEF J
    <3>2. \A k \in 1 .. J : h[k] # None
      BY <3>1, NoneAssumption
    <3>3. Judgements(j) = 1 .. J
      BY <2>1, RequestParts
    <3> QED BY <3>1, <3>2, <3>3 DEF Missing
  <2>4. ~Underflows(m, a, q)
    <3>1. Cardinality(Missing(j)) # 2
      BY <2>1, <2>3, MissingCounts
    <3> QED BY <3>1 DEF Underflows, Overgiven, j
  <2>5. /\ MustAddUp(m, a, p) => Total(h, J) = Remain(i)
        /\ m = "taiko" /\ ~MustAddUp(m, a, p) => h = i.given
    BY <1>3, HitsAre DEF h, i, J
  <2>6. /\ Settled(j, J) => Hits(m, a, q) = j.given
        /\ m = "taiko" /\ ~MustAddUp(m, a, q) => Hits(m, a, q) = j.given
    BY <1>1, <1>3, <2>4, HitsAre DEF j, J
  <2>7. CASE MustAddUp(m, a, p)
    <3>1. Settled(j, J)
      BY <2>2, <2>3, <2>5, <2>7 DEF Settled
    <3> QED BY <2>3, <2>6, <3>1 DEF h
  <2>8. CASE ~MustAddUp(m, a, p)
    <3>1. m = "taiko"
      <4>1. m # "osu"
        BY <2>8 DEF MustAddUp
      <4>2. m # "mania"
        BY <2>8
      <4> QED BY <1>3, <2>8, <4>1, <4>2, ModesAssumption
    <3>2. ~MustAddUp(m, a, q)
      <4>1. ~IgnoresAccuracy(m, p) /\ ~(Total(Amounts(i), 2) >= Remain(i)) /\ Missing(i) = {}
        BY <2>8, <3>1 DEF MustAddUp, i
      <4>2. ~IgnoresAccuracy(m, q)
        BY <4>1 DEF IgnoresAccuracy, Generator, IsStored
      <4>3. J = 2
        BY <3>1 DEF J, JudgementsOf
      <4>4. Amounts(i) = i.given /\ Amounts(j) = j.given
        BY <2>1, <2>3, <4>1, SettledAmounts
      <4>5. Total(Amounts(j), 2) = Total(Amounts(i), 2)
        BY <2>3, <2>5, <2>8, <3>1, <4>4
      <4> QED BY <2>2, <2>3, <3>1, <4>1, <4>2, <4>5 DEF MustAddUp, j
    <3> QED BY <2>3, <2>6, <3>1, <3>2 DEF h
  <2> QED BY <2>7, <2>8
<1> QED BY <1>2, <1>3

(* A state that adds up is generated again.                                *)
LEMMA GeneratedRepeats ==
  ASSUME NEW m \in Modes, NEW a, IsAttributes(m, a), NEW p, IsOptions(m, p),
         ~Underflows(m, a, p), NEW q, IsStored(m, a, p, q),
         m = "catch" => IgnoresAccuracy(m, p) \/ p.given \in [1 .. 4 -> Nat],
         m = "mania" => MustAddUp(m, a, p)
  PROVE  Generated(m, a, q) = Generated(m, a, p)
<1>1. Hits(m, a, q) = Hits(m, a, p)
  BY HitsRepeat
<1>2. InspectMisses(m, a, q) = InspectMisses(m, a, p) /\ Combo(m, a, q) = Combo(m, a, p)
  BY TotalsRepeat, ComboRepeats
<1>3. m = "osu" => TickHits(a, q) = TickHits(a, p)
  BY TicksRepeat
<1>4. m # "osu" => q.ticks = p.ticks
  BY DEF IsStored
<1> QED BY <1>1, <1>2, <1>3, <1>4 DEF Generated

(***************************************************************************)
(* The inductive invariant                                                 *)
(***************************************************************************)
TypeInv ==
  /\ mode \in Modes
  /\ content = NoAttrs \/ IsAttributes(mode, content)
  /\ IsOptions(mode, perf) /\ IsOptions(mode, asked)

(* An accuracy, once set, is never removed; and a state is the one that is *)
(* generated for what was asked for.                                       *)
GeneratedInv ==
  /\ asked.acc # None => perf.acc # None
  /\ IsGenerated => /\ IsAttributes(mode, content)
                    /\ ~Underflows(mode, content, asked)
                    /\ state = Generated(mode, content, asked)

IInv == TypeInv /\ GeneratedInv

LEMMA InitInvariant == Init => IInv
<1> SUFFICES ASSUME Init PROVE IInv
  OBVIOUS
<1>1. TypeInv
  BY RequestsAssumption DEF Init, TypeInv
<1>2. GeneratedInv
  BY DEF Init, GeneratedInv, IsGenerated
<1> QED BY <1>1, <1>2 DEF IInv

LEMMA InsertedAttributes ==
  ASSUME TypeInv
  PROVE  IsAttributes(mode, InsertAttrs(mode, content, perf))
<1>1. perf.passed \in Nat /\ mode \in Modes
  BY OptionsParts DEF TypeInv
<1>2. IsAttributes(mode, Calculated(mode, perf.passed))
  BY <1>1, CalculatedCounts
<1> QED BY <1>2 DEF InsertAttrs, TypeInv

LEMMA ChangeKeeps ==
  ASSUME IInv, NEW q, IsOptions(mode, q), perf.acc # None => q.acc # None, Change(q)
  PROVE  IInv'
<1>1. perf' = q /\ UNCHANGED <<mode, content, asked, state>>
  BY DEF Change
<1>2. TypeInv'
  BY <1>1 DEF IInv, TypeInv
<1>3. GeneratedInv'
  BY <1>1 DEF IInv, GeneratedInv, IsGenerated
<1> QED BY <1>2, <1>3 DEF IInv

LEMMA NextInvariant == IInv /\ [Next]_vars => IInv'
<1> SUFFICES ASSUME IInv, [Next]_vars PROVE IInv'
  OBVIOUS
<1>1. /\ mode \in Modes /\ IsOptions(mode, perf) /\ IsOptions(mode, asked)
      /\ asked.acc # None => perf.acc # None
  BY DEF IInv, TypeInv, GeneratedInv
<1> DEFINE attrs == InsertAttrs(mode, content, perf)
<1>2. IsAttributes(mode, attrs)
  BY InsertedAttributes DEF IInv
<1>3. CASE GenerateState
  <2>1. /\ ~Underflows(mode, attrs, perf) /\ content' = attrs
        /\ state' = Generated(mode, attrs, perf) /\ perf' = Store(mode, perf, state')
        /\ asked' = perf /\ mode' = mode
    BY <1>3 DEF GenerateState
  <2>2. IsOptions(mode, perf') /\ perf'.acc = perf.acc
    <3> HIDE DEF attrs
    <3> QED BY <1>1, <1>2, <2>1, StoredOptions
  <2> HIDE DEF attrs
  <2>3. TypeInv'
    BY <1>1, <1>2, <2>1, <2>2 DEF TypeInv
  <2>4. GeneratedInv'
    BY <1>1, <1>2, <2>1, <2>2 DEF GeneratedInv
  <2> QED BY <2>3, <2>4 DEF IInv
<1>4. CASE GenerateStatePanics
  <2>1. content' = attrs /\ state' = Panic /\ asked' = perf /\ mode' = mode /\ perf' = perf
    BY <1>4 DEF GenerateStatePanics
  <2> HIDE DEF attrs
  <2>2. TypeInv'
    BY <1>1, <1>2, <2>1 DEF TypeInv
  <2>3. GeneratedInv'
    BY <2>1 DEF GeneratedInv, IsGenerated
  <2> QED BY <2>2, <2>3 DEF IInv
<1>5. CASE SetAccuracy
  <2>1. PICK x \in Accuracies : Change([perf EXCEPT !.acc = x])
    BY <1>5 DEF SetAccuracy
  <2>2. x \in 0 .. AccSteps /\ x # None
    BY InputsAssumption, NoneAssumption, AccStepsAssumption
  <2> DEFINE q == [perf EXCEPT !.acc = x]
  <2>3. IsOptions(mode, q) /\ q.acc # None
    BY <1>1, <2>2 DEF IsOptions
  <2> HIDE DEF q
  <2>4. Change(q)
    BY <2>1 DEF q
  <2> QED BY <2>3, <2>4, ChangeKeeps
<1>6. CASE SetMisses
  <2>1. PICK x \in Misses : Change([perf EXCEPT !.misses = x])
    BY <1>6 DEF SetMisses
  <2>2. x \in MaybeNat
    BY InputsAssumption DEF MaybeNat
  <2> DEFINE q == [perf EXCEPT !.misses = x]
  <2>3. IsOptions(mode, q) /\ q.acc = perf.acc
    BY <1>1, <2>2 DEF IsOptions
  <2> HIDE DEF q
  <2>4. Change(q)
    BY <2>1 DEF q
  <2> QED BY <2>3, <2>4, ChangeKeeps
<1>7. CASE SetPassed
  <2>1. PICK x \in Passed : Change([perf EXCEPT !.passed = x])
    BY <1>7 DEF SetPassed
  <2>2. x \in Nat
    BY InputsAssumption
  <2> DEFINE q == [perf EXCEPT !.passed = x]
  <2>3. IsOptions(mode, q) /\ q.acc = perf.acc
    BY <1>1, <2>2 DEF IsOptions
  <2> HIDE DEF q
  <2>4. Change(q)
    BY <2>1 DEF q
  <2> QED BY <2>3, <2>4, ChangeKeeps
<1>8. CASE UNCHANGED vars
  BY <1>8 DEF IInv, TypeInv, GeneratedInv, IsGenerated, vars
<1> QED BY <1>3, <1>4, <1>5, <1>6, <1>7, <1>8 DEF Next

(* The attributes and options of a calculator stay well formed, and its    *)
(* state is always the one generated for the options of the last call.     *)
THEOREM Invariance == Spec => []IInv
<1> QED BY InitInvariant, NextInvariant, PTL DEF Spec

(***************************************************************************)
(* Properties                                                              *)
(***************************************************************************)

(* The state that was generated for what was asked adds up.                *)
LEMMA GeneratedAddsUp == IInv => HitsAddUp
<1> SUFFICES ASSUME IInv, IsGenerated PROVE HitsAddUp
  BY DEF HitsAddUp, GivenAreKept
<1> DEFINE J == JudgementsOf[mode]
           i == Inspect(mode, content, asked)
<1>1. /\ mode \in Modes /\ IsOptions(mode, asked) /\ IsAttributes(mode, content)
      /\ ~Underflows(mode, content, asked)
      /\ state.hits = Hits(mode, content, asked)
      /\ state.misses = InspectMisses(mode, content, asked)
  BY DEF IInv, TypeInv, GeneratedInv, Generated
<1>2. /\ state.misses \in Nat /\ AskedTotal \in Nat
      /\ AskedRemain = AskedTotal - state.misses
  BY <1>1, TotalsAreNatural DEF AskedTotal, AskedRemain
<1>3. CASE mode = "catch"
  <2> DEFINE c == InspectCatch(content, asked)
             h == state.hits
  <2>1. /\ c.misses = state.misses /\ c.n[1] + c.n[2] = AskedTotal /\ c.n[3] = content.tiny
        /\ c.given = asked.given
        /\ asked.given \in [1 .. 4 -> MaybeNat]
    <3>1. asked.given \in [1 .. 4 -> MaybeNat]
      BY <1>1, <1>3, CatchHasFour
    <3> QED BY <1>1, <1>3, <3>1, InspectCatchAsks DEF AskedTotal
  <2>2. /\ CatchBounded(c, h) \/ CatchAddsUp(c, h)
        /\ IgnoresAccuracy("catch", asked) \/ asked.given \in [1 .. 4 -> Nat] => CatchAddsUp(c, h)
    BY <1>1, <1>3, CatchHitsAre
  <2>3. AllGiven(asked) => asked.given \in [1 .. 4 -> Nat]
    BY <2>1 DEF AllGiven, MaybeNat
  <2>4. ~LeavesPoolsOpen => CatchAddsUp(c, h)
    BY <1>3, <2>2, <2>3 DEF LeavesPoolsOpen
  <2> HIDE DEF c, h
  <2>5. CatchAddsUp(c, h) => h[1] + h[2] + state.misses = AskedTotal /\ h[3] + h[4] = content.tiny
    BY <2>1 DEF CatchAddsUp
  <2>6. CatchBounded(c, h) =>
          /\ h[1] + h[2] + state.misses <= AskedTotal
          /\ asked.given[4] = None => h[3] + h[4] = content.tiny
    BY <2>1 DEF CatchBounded
  <2>7. h[1] + h[2] + state.misses = AskedTotal => h[1] + h[2] + state.misses <= AskedTotal
    BY <1>2
  <2> QED BY <1>3, <2>2, <2>4, <2>5, <2>6, <2>7 DEF HitsAddUp, GivenAreKept, h
<1>4. CASE mode # "catch"
  <2> DEFINE h == state.hits
  <2>1. /\ h \in [1 .. J -> Nat]
        /\ MustAddUp(mode, content, asked) => Total(h, J) = Remain(i)
        /\ Missing(i) # {} /\ Total(Amounts(i), J) <= Remain(i) =>
             \A k \in 1 .. J : k \notin Missing(i) /\ ~DropsAt(mode, asked, k) => h[k] = i.given[k]
        /\ mode = "taiko" /\ ~MustAddUp(mode, content, asked) => h = i.given
        /\ mode = "mania" /\ ~MustAddUp(mode, content, asked) => KeepsLast(i, h)
    BY <1>1, <1>4, HitsAre
  <2>2. /\ IsRequest(i, J) /\ i.given = asked.given /\ Remain(i) = AskedRemain
    BY <1>1, <1>4, InspectAsks DEF AskedRemain, AskedTotal
  <2>3. /\ Numbers(asked) = Total(Amounts(i), J) /\ Numbers(asked) \in Nat
        /\ AllGiven(asked) <=> Missing(i) = {}
        /\ DOMAIN asked.given = 1 .. J
    BY <1>1, <1>4, NumbersAre
  <2>4. KeepsTooFew => mode = "taiko" /\ ~MustAddUp(mode, content, asked)
    <3> SUFFICES ASSUME KeepsTooFew PROVE ~MustAddUp(mode, content, asked)
      BY DEF KeepsTooFew
    <3>1. /\ mode = "taiko" /\ ~IgnoresAccuracy(mode, asked) /\ Missing(i) = {}
          /\ Numbers(asked) < AskedRemain
      BY <2>3 DEF KeepsTooFew
    <3>2. Numbers(asked) = Total(Amounts(i), 2)
      BY <2>3, <3>1 DEF JudgementsOf
    <3>3. ~(Total(Amounts(i), 2) >= Remain(i))
      BY <1>2, <2>2, <2>3, <3>1, <3>2
    <3> HIDE DEF i
    <3> QED BY <3>1, <3>3 DEF MustAddUp, i
  <2>5. KeepsTooMany <=> mode = "mania" /\ ~MustAddUp(mode, content, asked)
    <3>1. Missing(i) = Missing(asked) /\ Given(i, 3 .. 5) = Given(asked, 3 .. 5)
      BY <2>2 DEF Missing, Judgements, Given
    <3> HIDE DEF i
    <3>2. TooMany(i) <=> Cardinality(Missing(asked)) > 2 /\ AskedRemain > 0
                         /\ Given(asked, 3 .. 5) > AskedRemain
      BY <2>2, <3>1 DEF TooMany
    <3> QED BY <3>2 DEF KeepsTooMany, AsksForClosest, MustAddUp, i
  <2>6. ~KeepsTooFew /\ ~KeepsTooMany => MustAddUp(mode, content, asked)
    <3> SUFFICES ASSUME ~KeepsTooFew, mode = "taiko" PROVE MustAddUp(mode, content, asked)
      BY <1>1, <1>4, <2>5, ModesAssumption DEF MustAddUp
    <3>1. \/ IgnoresAccuracy(mode, asked) \/ Missing(i) # {} \/ ~(Numbers(asked) < AskedRemain)
      BY <2>3 DEF KeepsTooFew
    <3>2. Numbers(asked) = Total(Amounts(i), 2)
      BY <2>3 DEF JudgementsOf
    <3>3. ~(Numbers(asked) < AskedRemain) => Total(Amounts(i), 2) >= Remain(i)
      BY <1>2, <2>2, <2>3, <3>2
    <3> HIDE DEF i
    <3> QED BY <3>1, <3>3 DEF MustAddUp, i
  <2>7. Sum(h) = Total(h, J)
    <3>1. J \in Sizes /\ h \in [1 .. J -> Int]
      BY <2>1, <2>2 DEF IsRequest
    <3> HIDE DEF h, J
    <3> QED BY <3>1, SumIsTotal DEF Sum
  <2> HIDE DEF i, J, h
  <2>8. MustAddUp(mode, content, asked) => Sum(h) + state.misses = AskedTotal
    BY <1>2, <2>1, <2>2, <2>7
  <2>9. KeepsTooFew => h = asked.given
    BY <2>1, <2>2, <2>4
  <2>10. KeepsTooMany =>
           /\ Sum(h) + state.misses > AskedTotal
           /\ \A k \in 3 .. 5 : asked.given[k] # None => h[k] = asked.given[k]
    <3> SUFFICES ASSUME KeepsTooMany
                 PROVE  /\ Sum(h) + state.misses > AskedTotal
                        /\ \A k \in 3 .. 5 : asked.given[k] # None => h[k] = asked.given[k]
      OBVIOUS
    <3>1. KeepsLast(i, h) /\ J = 5
      BY <2>1, <2>5 DEF J, JudgementsOf
    <3>2. Sum(h) > AskedRemain /\ Sum(h) \in Int
      <4>1. h[1] \in Nat /\ h[2] \in Nat /\ h[3] \in Nat /\ h[4] \in Nat /\ h[5] \in Nat
        BY <2>1, <3>1
      <4>2. Total(h, J) \in Nat
        BY <3>1, <4>1 DEF Total
      <4> QED BY <2>2, <2>7, <3>1, <4>2 DEF KeepsLast
    <3>3. \A k \in 3 .. 5 : asked.given[k] # None => k \notin Missing(i)
      BY <2>2 DEF Missing
    <3> QED BY <1>2, <2>2, <3>1, <3>2, <3>3 DEF KeepsLast
  <2>11. GivenAreKept
    <3> SUFFICES ASSUME ~AllGiven(asked), Numbers(asked) <= AskedRemain,
                        NEW k \in DOMAIN asked.given, asked.given[k] # None, ~MayDrop(k)
                 PROVE  h[k] = asked.given[k]
      BY DEF GivenAreKept, h
    <3>1. ~DropsAt(mode, asked, k)
      BY DEF DropsAt, MayDrop, AsksForClosest
    <3>2. k \in 1 .. J /\ k \notin Missing(i)
      BY <2>2, <2>3 DEF Missing
    <3> QED BY <2>1, <2>2, <2>3, <3>1, <3>2
  <2> QED BY <1>4, <2>6, <2>8, <2>9, <2>10, <2>11 DEF HitsAddUp, h
<1> QED BY <1>3, <1>4

(* Hits and misses of a generated state add up to the number of objects,   *)
(* and the numbers given are kept, for every map and in every order in     *)
(* which options are changed and states generated. For the three kinds of  *)
(* requests for which they do not add up, the hits are those given, or     *)
(* more than the objects, or bounded by the pools.                         *)
THEOREM StatesAddUp == Spec => []HitsAddUp
<1> QED BY Invariance, GeneratedAddsUp, PTL

(* All numbers of a stored state are given; from them neither a generator  *)
(* underflows nor are there too many hits.                                 *)
LEMMA StoredIsGiven ==
  ASSUME NEW m \in Modes, NEW a, IsAttributes(m, a), NEW p, IsOptions(m, p),
         p.given \in [1 .. JudgementsOf[m] -> Nat]
  PROVE  /\ ~Underflows(m, a, p)
         /\ m = "catch" => p.given \in [1 .. 4 -> Nat]
         /\ m = "mania" => MustAddUp(m, a, p)
<1>1. m = "catch" => p.given \in [1 .. 4 -> Nat]
  BY DEF JudgementsOf
<1>2. ASSUME m = "mania" PROVE ~Underflows(m, a, p) /\ MustAddUp(m, a, p)
  <2> DEFINE i == Inspect(m, a, p)
  <2>1. IsRequest(i, 5) /\ i.given = p.given
    BY <1>2, InspectAsks DEF JudgementsOf
  <2> HIDE DEF i
  <2>2. Missing(i) = {}
    <3>1. \A k \in 1 .. 5 : p.given[k] # None
      BY <1>2, NoneAssumption DEF JudgementsOf
    <3>2. Judgements(i) = 1 .. 5
      BY <2>1, RequestParts
    <3> QED BY <2>1, <3>1, <3>2 DEF Missing
  <2>3. Cardinality(Missing(i)) = 0
    BY <2>1, <2>2, MissingCounts
  <2>4. ~Underflows(m, a, p)
    BY <2>3 DEF Underflows, Overgiven, i
  <2>5. ~TooMany(i)
    BY <2>3 DEF TooMany
  <2> QED BY <1>2, <2>4, <2>5 DEF MustAddUp, i
<1>3. m # "mania" => ~Underflows(m, a, p)
  BY DEF Underflows
<1> QED BY <1>1, <1>2, <1>3

(* Options that the state was stored in ask for the same state, or else    *)
(* for one that is generated from then on.                                 *)
LEMMA StoredRepeats == IInv => Repeatable
<1> DEFINE again == Generated(mode, content, perf)
           q == Store(mode, asked, state)
           r == Store(mode, perf, again)
<1> SUFFICES ASSUME IInv, IsGenerated, perf = [q EXCEPT !.acc = perf.acc]
             PROVE  /\ ~LeavesPoolsOpen /\ ~KeepsTooMany => again = state
                    /\ Generated(mode, content, r) = again
  BY DEF Repeatable, WasStored
<1>1. /\ mode \in Modes /\ IsOptions(mode, asked) /\ IsOptions(mode, perf)
      /\ IsAttributes(mode, content) /\ ~Underflows(mode, content, asked)
      /\ state = Generated(mode, content, asked)
      /\ asked.acc # None => perf.acc # None
  BY DEF IInv, TypeInv, GeneratedInv
<1>2. /\ IsOptions(mode, q)
      /\ q.given = Hits(mode, content, asked) /\ q.misses = InspectMisses(mode, content, asked)
      /\ q.combo = (IF mode = "mania" THEN asked.combo ELSE Combo(mode, content, asked))
      /\ q.ticks = (IF mode = "osu" THEN TickHits(content, asked) ELSE asked.ticks)
      /\ q.generator = asked.generator
      /\ q.passed = asked.passed /\ q.lazer = asked.lazer /\ q.classic = asked.classic
  BY <1>1, StoredOptions
<1> HIDE DEF q
<1>3. /\ perf.given = q.given /\ perf.misses = q.misses /\ perf.combo = q.combo
      /\ perf.ticks = q.ticks /\ perf.generator = q.generator /\ perf.passed = q.passed
      /\ perf.lazer = q.lazer /\ perf.classic = q.classic
  <2> DEFINE x == perf.acc
  <2>1. perf = [q EXCEPT !.acc = x]
    BY DEF q
  <2> HIDE DEF x
  <2> QED BY <1>2, <2>1 DEF IsOptions
<1>4. IsStored(mode, content, asked, perf)
  BY <1>1, <1>2, <1>3 DEF IsStored
<1>5. ASSUME ~LeavesPoolsOpen, ~KeepsTooMany PROVE again = state
  <2>1. mode = "catch" => IgnoresAccuracy(mode, asked) \/ asked.given \in [1 .. 4 -> Nat]
    <3>1. mode = "catch" => asked.given \in [1 .. 4 -> MaybeNat]
      BY <1>1, CatchHasFour
    <3> QED BY <1>5, <3>1 DEF LeavesPoolsOpen, AllGiven, MaybeNat
  <2>2. mode = "mania" => MustAddUp(mode, content, asked)
    <3> SUFFICES ASSUME mode = "mania" PROVE MustAddUp(mode, content, asked)
      OBVIOUS
    <3> DEFINE i == Inspect(mode, content, asked)
    <3>1. i.given = asked.given /\ Remain(i) = AskedRemain
      BY <1>1, InspectAsks DEF AskedRemain, AskedTotal
    <3> HIDE DEF i
    <3>2. Missing(i) = Missing(asked) /\ Given(i, 3 .. 5) = Given(asked, 3 .. 5)
      BY <3>1 DEF Missing, Judgements, Given
    <3> QED BY <1>5, <3>1, <3>2 DEF KeepsTooMany, AsksForClosest, MustAddUp, TooMany, i
  <2> QED BY <1>1, <1>4, <2>1, <2>2, GeneratedRepeats
<1>6. Generated(mode, content, r) = again
  <2>1. perf.given \in [1 .. JudgementsOf[mode] -> Nat]
    BY <1>1, <1>2, <1>3, HitsAreNatural
  <2>2. /\ ~Underflows(mode, content, perf)
        /\ mode = "catch" => perf.given \in [1 .. 4 -> Nat]
        /\ mode = "mania" => MustAddUp(mode, content, perf)
    BY <1>1, <2>1, StoredIsGiven
  <2>3. IsStored(mode, content, perf, r)
    <3>1. /\ IsOptions(mode, r)
          /\ r.given = Hits(mode, content, perf) /\ r.misses = InspectMisses(mode, content, perf)
          /\ r.combo = (IF mode = "mania" THEN perf.combo ELSE Combo(mode, content, perf))
          /\ r.ticks = (IF mode = "osu" THEN TickHits(content, perf) ELSE perf.ticks)
          /\ r.acc = perf.acc /\ r.generator = perf.generator
          /\ r.passed = perf.passed /\ r.lazer = perf.lazer /\ r.classic = perf.classic
      BY <1>1, <2>2, StoredOptions
    <3> HIDE DEF r
    <3> QED BY <3>1 DEF IsStored
  <2> HIDE DEF r
  <2> QED BY <1>1, <2>2, <2>3, GeneratedRepeats
<1> QED BY <1>5, <1>6

(* The state that generate_state returns and stores is the one generated   *)
(* again from the stored numbers, even if the accuracy was changed, unless *)
(* osu!catch left its pools open or osu!mania kept too many hits; and what *)
(* is generated the second time is generated ever after, for every request.*)
THEOREM StatesRepeat == Spec => []Repeatable
<1> QED BY Invariance, StoredRepeats, PTL
=============================================================================
