----------------------------- MODULE Arithmetic ------------------------------
(***************************************************************************)
(* The integer operations of the Rust code that the models share.          *)
(***************************************************************************)
EXTENDS Integers

(* cmp::min, cmp::max and saturating_sub of unsigned integers.             *)
Least(a, b) == IF a <= b THEN a ELSE b
Greatest(a, b) == IF a >= b THEN a ELSE b
SaturatingSub(a, b) == IF a >= b THEN a - b ELSE 0

(* f64::floor, f64::ceil and f64::round_ties_even of the fraction n / d,   *)
(* for d > 0.                                                              *)
Floor(n, d) == n \div d
Ceil(n, d) == -((-n) \div d)
RoundTiesEven(n, d) ==
  LET q == (2 * n + d) \div (2 * d)
  IN  IF (2 * n + d) % (2 * d) = 0 /\ q % 2 = 1 THEN q - 1 ELSE q

(* The numbers lo, lo + 1, ..., hi in order.                               *)
Interval(lo, hi) == [i \in 1 .. hi - lo + 1 |-> lo + i - 1]
=============================================================================
