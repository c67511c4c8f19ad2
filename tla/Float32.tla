------------------------------ MODULE Float32 ------------------------------
(***************************************************************************)
(* Go's float32, as the delays of a retry policy use it (external: the     *)
(* language, from retryexecutor.go and internal/util/util.go).             *)
(*                                                                         *)
(* A float32 has Precision significant bits, 24 in Go.  A number that need *)
(* not be whole, such as a factor, is here a whole number of parts, One of *)
(* which make 1; every float32 is such a number if FractionBits is 149.    *)
(* Conversions to integers are within the range of int64.                  *)
(***************************************************************************)
EXTENDS Integers

CONSTANTS Precision,    \* the significant bits of a number
          FractionBits  \* the bits after the point

ASSUME FloatAssumption == Precision \in Nat /\ Precision >= 2 /\ FractionBits \in Nat

\* F applied n times to a.
Iterate(F, a, n) ==
  LET iterate[k \in Nat] == IF k = 0 THEN a ELSE F[iterate[k - 1]]
  IN iterate[n]

Power(b, n) == Iterate([x \in Nat |-> b * x], 1, n)

One == Power(2, FractionBits)

\* The distance between two neighbours of a number: the least power of two with
\* which the number has no more than Precision bits.
exponent(n) ==
  CHOOSE k \in 0..n : n < Power(2, Precision + k) /\ \A j \in 0..(k - 1) : n >= Power(2, Precision + j)
ulp(n) == Power(2, exponent(n))

\* The nearest float32, and of two the even one.
nearest(n) ==
  LET u == ulp(n)
      q == n \div u
      r == n % u
  IN IF 2 * r < u \/ (2 * r = u /\ q % 2 = 0) THEN q * u ELSE (q + 1) * u

\* float32(n), of an integer or of the exact result of an operation.
float32(n) == IF n < 0 THEN -nearest(-n) ELSE nearest(n)

\* time.Duration(x)
truncated(x) == IF x < 0 THEN -((-x) \div One) ELSE x \div One

\* time.Duration(float32(d) * f)
scaled(d, f) == truncated(float32(float32(d) * f))

\* A rounding moves a number by no more than one part in Fine.  x after n
\* roundings that all move it that far, up or down.
Fine == Power(2, Precision)
Off(x, sign, n) == (x * Power(Fine + sign, n)) \div Power(Fine, n)
=============================================================================
