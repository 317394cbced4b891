------------------------------ MODULE Rational ------------------------------
(***************************************************************************)
(* Exact fractions for the floating point numbers whose VALUE the          *)
(* properties compare: beatmap attributes, hit windows and clock rates. A  *)
(* fraction is a pair <<numerator, denominator>> in lowest terms with a    *)
(* positive denominator, so equal numbers are equal values. Rounding of    *)
(* f32 and f64 is not modelled.                                            *)
(***************************************************************************)
EXTENDS Integers

LOCAL Magnitude(n) == IF n < 0 THEN -n ELSE n

LOCAL gcd[p \in Nat \X Nat] == IF p[2] = 0 THEN p[1] ELSE gcd[<<p[2], p[1] % p[2]>>]

\* n / d for a denominator of either sign
Frac(n, d) == LET g == gcd[<<Magnitude(n), Magnitude(d)>>]
                  s == IF d < 0 THEN -1 ELSE 1
              IN  <<s * (n \div g), s * (d \div g)>>

Whole(n) == <<n, 1>>

Fraction == Int \X (Nat \ {0})

Plus(a, b)   == Frac(a[1] * b[2] + b[1] * a[2], a[2] * b[2])
Minus(a, b)  == Frac(a[1] * b[2] - b[1] * a[2], a[2] * b[2])
Times(a, b)  == Frac(a[1] * b[1], a[2] * b[2])
Over(a, b)   == Frac(a[1] * b[2], a[2] * b[1])

Less(a, b)   == a[1] * b[2] < b[1] * a[2]
Least(a, b)  == IF Less(b, a) THEN b ELSE a
Most(a, b)   == IF Less(a, b) THEN b ELSE a
Clamp(a, low, high) == Least(Most(a, low), high)
Sign(a)      == IF a[1] < 0 THEN -1 ELSE 1
Floor(a)     == a[1] \div a[2]

\* the nearest integer, the even one of two equally near
RoundTiesEven(a) ==
  LET f    == Floor(a)
      rest == 2 * (a[1] - f * a[2])
  IN  IF rest < a[2] \/ (rest = a[2] /\ f % 2 = 0) THEN f ELSE f + 1
=============================================================================
