---------------------------- MODULE RetryProofs ----------------------------
(***************************************************************************)
(* Proofs about RetryPolicy, for every sequence of calls of its builder,   *)
(* and every duration of the function, of the delays and of the time lost  *)
(* between them, and for every precision of float32: maxDuration ends the  *)
(* retries; outcomes are judged, attempts limited and delays chosen as the *)
(* calls say; backoff grows by powers of its factor.                       *)
(***************************************************************************)
EXTENDS RetryPolicy, NaturalsInduction, WellFoundedInduction, TLAPS

\* Numbers.  These are lemmas of SumTheorems; without its finite sets the proofs below
\* take two thirds of the time.

\* A set of natural numbers has a least element.
LEMMA Least ==
  ASSUME NEW T \in SUBSET Nat, T # {}
  PROVE  \E n \in T : \A m \in T : n <= m
<1> DEFINE R == {ss \in Nat \X Nat : ss[1] < ss[2]}
<1>1. IsWellFoundedOn(R, Nat)
  BY NatLessThanWellFounded DEF OpToRel
<1>2. \A m, n \in Nat : m < n => <<m, n>> \in R
  OBVIOUS
<1> HIDE DEF R
<1>3. PICK n \in T : \A m \in T : ~(<<m, n>> \in R)
  BY <1>1, WFMin, Zenon
<1>4. \A m \in T : n <= m
  <2> TAKE m \in T
  <2>1. m \in Nat /\ n \in Nat
    OBVIOUS
  <2>2. ~(m < n)
    BY <1>2, <1>3, <2>1, Zenon
  <2> QED BY <2>1, <2>2
<1> QED BY <1>4

\* Induction: a set with 0 that is closed under successors has every natural number.
LEMMA Induction ==
  ASSUME NEW N, 0 \in N, \A n \in Nat : n \in N => n + 1 \in N
  PROVE  Nat \subseteq N
<1> SUFFICES ASSUME Nat \ N # {} PROVE FALSE
  OBVIOUS
<1>1. PICK n \in Nat \ N : \A m \in Nat \ N : n <= m
  BY Least, Zenon
<1>2. n # 0 /\ n - 1 \in Nat /\ (n - 1) + 1 = n
  BY <1>1
<1>3. n - 1 \in N
  BY <1>1, <1>2
<1> QED BY <1>1, <1>2, <1>3

\* Division by a positive number, by the inequalities it solves.
LEMMA Division ==
  ASSUME NEW a \in Int, NEW b \in Nat \ {0}
  PROVE  /\ a \div b \in Int
         /\ b * (a \div b) <= a /\ a < b * (a \div b) + b
         /\ a % b = a - b * (a \div b)
OBVIOUS

LEMMA DivisionNat ==
  ASSUME NEW a \in Nat, NEW b \in Nat \ {0}
  PROVE  a \div b \in Nat
<1> DEFINE d == a \div b
<1>1. d \in Int /\ a < b * d + b
  BY Division
<1> HIDE DEF d
<1>2. ~(d < 0)
  <2> SUFFICES ASSUME d + 1 <= 0 PROVE FALSE
    BY <1>1
  <2>1. b * (d + 1) <= 0 /\ b * (d + 1) = b * d + b
    BY <1>1
  <2> QED BY <1>1, <2>1
<1> QED BY <1>1, <1>2 DEF d

(***************************************************************************)
(* Iteration.  Steps describes the beginning of a sequence of iterates;    *)
(* two beginnings agree, and together they are the function of Iterate.    *)
(***************************************************************************)
Steps(q, n, F, a) == q \in [0..n -> Nat] /\ q[0] = a /\ \A k \in 1..n : q[k] = F[q[k - 1]]
Iterates(f, F, a) == f = [k \in Nat |-> IF k = 0 THEN a ELSE F[f[k - 1]]]

LEMMA StepsExist ==
  ASSUME NEW F \in [Nat -> Nat], NEW a \in Nat, NEW n \in Nat
  PROVE  \E q : Steps(q, n, F, a)
<1> DEFINE N == {k \in Nat : \E q : Steps(q, k, F, a)}
<1>1. 0 \in N
  <2>1. Steps([k \in 0..0 |-> a], 0, F, a)
    BY DEF Steps
  <2> QED BY <2>1
<1>2. ASSUME NEW k \in Nat, k \in N PROVE k + 1 \in N
  <2>1. PICK q : Steps(q, k, F, a)
    BY <1>2
  <2> DEFINE v == F[q[k]]
             r == [j \in 0..(k + 1) |-> IF j = k + 1 THEN v ELSE q[j]]
  <2>2. q \in [0..k -> Nat] /\ q[0] = a /\ (\A j \in 1..k : q[j] = F[q[j - 1]])
    BY <2>1, Zenon DEF Steps
  <2>3. v \in Nat
    <3>1. q[k] \in Nat
      BY <2>2
    <3> QED BY <3>1
  <2> HIDE DEF v
  <2>4. r \in [0..(k + 1) -> Nat]
    <3>1. \A j \in 0..(k + 1) : j = k + 1 \/ j \in 0..k
      OBVIOUS
    <3>2. \A j \in 0..(k + 1) : (IF j = k + 1 THEN v ELSE q[j]) \in Nat
      BY <2>2, <2>3, <3>1, Zenon
    <3> QED BY <3>2, Zenon
  <2>5. r[0] = a
    BY <2>2
  <2>6. \A j \in 1..(k + 1) : r[j] = F[r[j - 1]]
    <3>1. r[k + 1] = F[r[(k + 1) - 1]]
      BY DEF v
    <3>2. ASSUME NEW j \in 1..k PROVE r[j] = F[r[j - 1]]
      <4>1. r[j] = q[j] /\ r[j - 1] = q[j - 1]
        OBVIOUS
      <4> QED BY <2>2, <4>1, Zenon
    <3>3. \A j \in 1..(k + 1) : j = k + 1 \/ j \in 1..k
      OBVIOUS
    <3> QED BY <3>1, <3>2, <3>3, Zenon
  <2> HIDE DEF r
  <2>7. Steps(r, k + 1, F, a)
    BY <2>4, <2>5, <2>6, Zenon DEF Steps
  <2> QED BY <2>7
<1> HIDE DEF N
<1>3. Nat \subseteq N
  BY <1>1, <1>2, Induction
<1> QED BY <1>3 DEF N

LEMMA StepsAgree ==
  ASSUME NEW F, NEW a, NEW m \in Nat, NEW n \in Nat, NEW q, NEW r, Steps(q, m, F, a), Steps(r, n, F, a),
         NEW k \in Nat, k <= m, k <= n
  PROVE  q[k] = r[k]
<1> DEFINE N == {i \in Nat : i <= m /\ i <= n => q[i] = r[i]}
<1>1. 0 \in N
  BY DEF Steps
<1>2. ASSUME NEW i \in Nat, i \in N PROVE i + 1 \in N
  <2> SUFFICES ASSUME i + 1 <= m, i + 1 <= n PROVE q[i + 1] = r[i + 1]
    OBVIOUS
  <2>1. q[i] = r[i]
    BY <1>2
  <2>2. i + 1 \in 1..m /\ i + 1 \in 1..n /\ (i + 1) - 1 = i
    OBVIOUS
  <2>3. q[i + 1] = F[q[i]] /\ r[i + 1] = F[r[i]]
    BY <2>2 DEF Steps
  <2> QED BY <2>1, <2>3
<1> HIDE DEF N
<1>3. Nat \subseteq N
  BY <1>1, <1>2, Induction
<1> QED BY <1>3 DEF N

\* The equations of iteration.
LEMMA Iteration ==
  ASSUME NEW F \in [Nat -> Nat], NEW a \in Nat
  PROVE  /\ Iterate(F, a, 0) = a
         /\ \A n \in Nat : Iterate(F, a, n + 1) = F[Iterate(F, a, n)]
         /\ \A n \in Nat : Iterate(F, a, n) \in Nat
<1> DEFINE Q(n) == CHOOSE q : Steps(q, n, F, a)
           f == [n \in Nat |-> Q(n)[n]]
<1>1. \A n \in Nat : Steps(Q(n), n, F, a)
  BY StepsExist
<1> HIDE DEF Q
<1>2. \A n \in Nat : f[n] = Q(n)[n]
  OBVIOUS
<1>3. f = [n \in Nat |-> f[n]]
  OBVIOUS
<1> HIDE DEF f
<1>4. f[0] = a
  BY <1>1, <1>2, Zenon DEF Steps
<1>5. ASSUME NEW n \in Nat, n # 0 PROVE f[n] = F[f[n - 1]]
  <2>1. n - 1 \in Nat /\ n \in 1..n /\ n - 1 <= n
    BY <1>5
  <2>2. Q(n)[n] = F[Q(n)[n - 1]]
    BY <1>1, <2>1 DEF Steps
  <2>3. Q(n)[n - 1] = Q(n - 1)[n - 1]
    <3>1. Steps(Q(n), n, F, a) /\ Steps(Q(n - 1), n - 1, F, a)
      BY <1>1, <2>1
    <3>2. n - 1 <= n - 1
      BY <2>1
    <3> QED BY <2>1, <3>1, <3>2, StepsAgree
  <2> QED BY <1>2, <2>1, <2>2, <2>3
<1>6. Iterates(f, F, a)
  <2>1. \A k \in Nat : f[k] = IF k = 0 THEN a ELSE F[f[k - 1]]
    BY <1>4, <1>5
  <2>2. f = [k \in Nat |-> IF k = 0 THEN a ELSE F[f[k - 1]]]
    BY <1>3, <2>1, Zenon
  <2> QED BY <2>2 DEF Iterates
<1> DEFINE p == CHOOSE g : Iterates(g, F, a)
<1>7. Iterates(p, F, a)
  BY <1>6
<1>8. \A n : Iterate(F, a, n) = p[n]
  BY DEF Iterate, Iterates
<1> HIDE DEF p
<1>9. \A n \in Nat : p[n] = IF n = 0 THEN a ELSE F[p[n - 1]]
  BY <1>7 DEF Iterates
<1>10. p[0] = a
  BY <1>9
<1>11. \A n \in Nat : p[n + 1] = F[p[n]]
  <2> TAKE n \in Nat
  <2>1. n + 1 \in Nat /\ n + 1 # 0 /\ (n + 1) - 1 = n
    OBVIOUS
  <2> QED BY <1>9, <2>1
<1>12. \A n \in Nat : p[n] \in Nat
  <2> DEFINE N == {n \in Nat : p[n] \in Nat}
  <2>1. 0 \in N
    BY <1>10
  <2>2. \A n \in Nat : n \in N => n + 1 \in N
    BY <1>11
  <2> HIDE DEF N
  <2>3. Nat \subseteq N
    BY <2>1, <2>2, Induction
  <2> QED BY <2>3 DEF N
<1> QED BY <1>8, <1>10, <1>11, <1>12

LEMMA Powers ==
  ASSUME NEW b \in Nat
  PROVE  /\ Power(b, 0) = 1
         /\ \A n \in Nat : Power(b, n + 1) = b * Power(b, n)
         /\ \A n \in Nat : Power(b, n) \in Nat
<1> DEFINE F == [x \in Nat |-> b * x]
<1>1. F \in [Nat -> Nat] /\ \A x \in Nat : F[x] = b * x
  OBVIOUS
<1>2. \A n : Power(b, n) = Iterate(F, 1, n)
  BY DEF Power
<1> HIDE DEF F
<1>3. /\ Iterate(F, 1, 0) = 1
      /\ \A n \in Nat : Iterate(F, 1, n + 1) = F[Iterate(F, 1, n)]
      /\ \A n \in Nat : Iterate(F, 1, n) \in Nat
  BY <1>1, Iteration, Zenon
<1> QED BY <1>1, <1>2, <1>3

LEMMA PowersPositive ==
  ASSUME NEW b \in Nat \ {0}, NEW n \in Nat
  PROVE  Power(b, n) \in Nat \ {0}
<1> DEFINE N == {k \in Nat : Power(b, k) \in Nat /\ Power(b, k) >= 1}
<1>1. 0 \in N
  BY Powers
<1>2. ASSUME NEW k \in Nat, k \in N PROVE k + 1 \in N
  <2> DEFINE x == Power(b, k)
  <2>1. x \in Nat /\ x >= 1 /\ Power(b, k + 1) = b * x
    BY <1>2, Powers
  <2> HIDE DEF x
  <2>2. b * x \in Nat /\ b * x >= 1
    BY <2>1
  <2> QED BY <2>1, <2>2
<1> HIDE DEF N
<1>3. Nat \subseteq N
  BY <1>1, <1>2, Induction
<1> QED BY <1>3 DEF N

LEMMA PowersAdd ==
  ASSUME NEW m \in Nat, NEW n \in Nat
  PROVE  Power(2, m + n) = Power(2, m) * Power(2, n)
<1> DEFINE N == {k \in Nat : Power(2, m + k) = Power(2, m) * Power(2, k)}
<1>0. Power(2, m) \in Nat
  BY Powers
<1>1. 0 \in N
  <2>1. Power(2, 0) = 1 /\ m + 0 = m
    BY Powers
  <2> QED BY <1>0, <2>1
<1>2. ASSUME NEW k \in Nat, k \in N PROVE k + 1 \in N
  <2> DEFINE x == Power(2, m)
             y == Power(2, k)
             z == Power(2, m + k)
  <2>1. m + k \in Nat /\ m + (k + 1) = (m + k) + 1
    OBVIOUS
  <2>2. x \in Nat /\ y \in Nat /\ z = x * y
    BY <1>2, Powers
  <2>3. Power(2, m + (k + 1)) = 2 * z /\ Power(2, k + 1) = 2 * y
    BY <2>1, Powers
  <2> HIDE DEF x, y, z
  <2>4. 2 * z = x * (2 * y)
    BY <2>2
  <2> QED BY <2>3, <2>4 DEF x
<1> HIDE DEF N
<1>3. Nat \subseteq N
  BY <1>1, <1>2, Induction
<1> QED BY <1>3 DEF N

LEMMA PowersGrow ==
  ASSUME NEW n \in Nat
  PROVE  n < Power(2, n)
<1> DEFINE N == {k \in Nat : k < Power(2, k)}
<1>1. 0 \in N
  BY Powers
<1>2. ASSUME NEW k \in Nat, k \in N PROVE k + 1 \in N
  <2>1. Power(2, k) \in Nat /\ Power(2, k + 1) = 2 * Power(2, k) /\ k < Power(2, k)
    BY <1>2, Powers
  <2> QED BY <2>1
<1> HIDE DEF N
<1>3. Nat \subseteq N
  BY <1>1, <1>2, Induction
<1> QED BY <1>3 DEF N

(***************************************************************************)
(* Rounding.  The exponent is the least that leaves Precision bits; a      *)
(* number that is rounded at all is large, so that it moves by no more     *)
(* than one part in Fine.                                                  *)
(***************************************************************************)
LEMMA Exponent ==
  ASSUME NEW n \in Nat
  PROVE  /\ exponent(n) \in Nat
         /\ n < Power(2, Precision + exponent(n))
         /\ \A j \in Nat : j < exponent(n) => n >= Power(2, Precision + j)
<1> DEFINE T == {k \in Nat : n < Power(2, Precision + k)}
           Leaves(k) == n < Power(2, Precision + k) /\ \A j \in 0..(k - 1) : n >= Power(2, Precision + j)
<1>1. Precision \in Nat
  BY FloatAssumption
<1>2. n \in T
  <2>1. Precision + n \in Nat /\ Power(2, Precision + n) \in Nat
    BY <1>1, Powers
  <2>2. Precision + n < Power(2, Precision + n)
    BY <2>1, PowersGrow
  <2> QED BY <1>1, <2>1, <2>2
<1>3. T \in SUBSET Nat /\ T # {}
  BY <1>2
<1>4. PICK k \in T : \A j \in T : k <= j
  BY <1>3, Least, Zenon
<1>5. k \in 0..n
  BY <1>2, <1>4
<1>6. \A j \in 0..(k - 1) : n >= Power(2, Precision + j)
  <2> SUFFICES ASSUME NEW j \in 0..(k - 1) PROVE n >= Power(2, Precision + j)
    OBVIOUS
  <2>1. j \in Nat /\ j < k /\ Precision + j \in Nat
    BY <1>1, <1>4
  <2>2. Power(2, Precision + j) \in Nat /\ j \notin T
    BY <1>4, <2>1, Powers
  <2> QED BY <2>1, <2>2
<1>7. Leaves(k)
  BY <1>4, <1>6
<1> DEFINE e == CHOOSE i \in 0..n : Leaves(i)
<1>8. exponent(n) = e
  BY DEF exponent
<1>9. e \in 0..n /\ Leaves(e)
  <2> HIDE DEF Leaves
  <2> QED BY <1>5, <1>7, Zenon
<1> HIDE DEF e
<1>10. e \in Nat /\ \A j \in Nat : j < e => j \in 0..(e - 1)
  BY <1>9
<1> QED BY <1>8, <1>9, <1>10, Zenon

LEMMA UlpPositive ==
  ASSUME NEW n \in Nat
  PROVE  ulp(n) \in Nat \ {0}
BY Exponent, PowersPositive DEF ulp

LEMMA FineLarge == Fine \in Nat /\ Fine >= 4
<1>1. Precision \in Nat /\ Precision >= 2
  BY FloatAssumption
<1> DEFINE k == Precision - 2
<1>2. k \in Nat /\ Precision = (k + 1) + 1
  BY <1>1
<1> HIDE DEF k
<1>3. Power(2, k) \in Nat \ {0}
  BY <1>2, PowersPositive
<1>4. Power(2, k + 1) = 2 * Power(2, k) /\ Power(2, (k + 1) + 1) = 2 * Power(2, k + 1)
  BY <1>2, Powers
<1> QED BY <1>2, <1>3, <1>4 DEF Fine

\* What rounding gives, from the quotient and the remainder.
LEMMA Quotient ==
  ASSUME NEW n \in Nat, NEW u \in Nat \ {0}, u = ulp(n)
  PROVE  \E q \in Nat, r \in Nat :
           /\ n = q * u + r /\ r < u
           /\ nearest(n) = q * u \/ (nearest(n) = (q + 1) * u /\ 2 * r >= u)
           /\ 2 * r < u => nearest(n) = q * u
           /\ 2 * r <= u \/ nearest(n) = (q + 1) * u
<1> DEFINE q == n \div u
           r == n % u
<1>0. n \in Int
  OBVIOUS
<1>1. q \in Nat /\ u * q <= n /\ n < u * q + u /\ r = n - u * q
  BY <1>0, Division, DivisionNat, Zenon
<1>2. nearest(n) = IF 2 * r < u \/ (2 * r = u /\ q % 2 = 0) THEN q * u ELSE (q + 1) * u
  BY DEF nearest
<1> HIDE DEF q, r
<1>3. u * q \in Nat /\ q * u = u * q
  BY <1>1
<1>4. r \in Nat /\ r < u /\ n = q * u + r
  BY <1>1, <1>3
<1>5. nearest(n) = q * u \/ (nearest(n) = (q + 1) * u /\ 2 * r >= u)
  BY <1>2, <1>4
<1>6. 2 * r < u => nearest(n) = q * u
  BY <1>2
<1>7. 2 * r <= u \/ nearest(n) = (q + 1) * u
  BY <1>2, <1>4
<1> QED BY <1>1, <1>4, <1>5, <1>6, <1>7

\* A number that is rounded is at least half of Fine times its ulp.
LEMMA UlpSmall ==
  ASSUME NEW n \in Nat
  PROVE  ulp(n) = 1 \/ Fine * ulp(n) <= 2 * n
<1> DEFINE e == exponent(n)
<1>1. e \in Nat /\ Precision \in Nat /\ \A j \in Nat : j < e => n >= Power(2, Precision + j)
  BY Exponent, FloatAssumption
<1>2. ulp(n) = Power(2, e)
  BY DEF ulp
<1> HIDE DEF e
<1>3. CASE e = 0
  BY <1>2, <1>3, Powers
<1>4. CASE e # 0
  <2> DEFINE k == e - 1
  <2>1. k \in Nat /\ k < e /\ e = k + 1
    BY <1>1, <1>4
  <2> HIDE DEF k
  <2>2. n >= Power(2, Precision + k) /\ Power(2, Precision + k) = Fine * Power(2, k)
    BY <1>1, <2>1, PowersAdd, Zenon DEF Fine
  <2>3. Power(2, e) = 2 * Power(2, k) /\ Power(2, k) \in Nat /\ Fine \in Nat
    BY <2>1, Powers, FineLarge
  <2>4. Fine * (2 * Power(2, k)) = 2 * (Fine * Power(2, k)) /\ Fine * Power(2, k) \in Nat
    BY <2>3
  <2> QED BY <1>2, <2>2, <2>3, <2>4
<1> QED BY <1>3, <1>4

\* A rounding moves a number by no more than one part in Fine.
LEMMA Near ==
  ASSUME NEW n \in Nat
  PROVE  /\ nearest(n) \in Nat
         /\ Fine * nearest(n) <= (Fine + 1) * n
         /\ Fine * nearest(n) >= (Fine - 1) * n
<1> DEFINE u == ulp(n)
           y == nearest(n)
<1>1. u \in Nat \ {0} /\ Fine \in Nat /\ Fine >= 4
  BY UlpPositive, FineLarge
<1>2. PICK q \in Nat, r \in Nat :
        /\ n = q * u + r /\ r < u
        /\ y = q * u \/ (y = (q + 1) * u /\ 2 * r >= u)
        /\ 2 * r < u => y = q * u
        /\ 2 * r <= u \/ y = (q + 1) * u
  BY <1>1, Quotient, Zenon
<1>3. u = 1 \/ Fine * u <= 2 * n
  BY UlpSmall
<1> HIDE DEF u, y
<1>4. q * u \in Nat /\ (q + 1) * u = q * u + u /\ (q + 1) * u \in Nat
  BY <1>1
<1>5. y \in Nat /\ 2 * y <= 2 * n + u /\ 2 * n <= 2 * y + u
  BY <1>1, <1>2, <1>4
<1>6. CASE u = 1
  <2>1. y = n
    BY <1>2, <1>4, <1>6
  <2>2. (Fine + 1) * n = Fine * n + n /\ (Fine - 1) * n = Fine * n - n /\ Fine * n \in Nat
    BY <1>1
  <2> QED BY <2>1, <2>2 DEF y
<1>7. CASE Fine * u <= 2 * n
  <2>1. /\ (Fine + 1) * n = Fine * n + n /\ (Fine - 1) * n = Fine * n - n
        /\ Fine * n \in Nat /\ Fine * y \in Nat /\ Fine * u \in Nat
    BY <1>1, <1>5
  <2>2. /\ Fine * (2 * y) <= Fine * (2 * n + u) /\ Fine * (2 * n) <= Fine * (2 * y + u)
    BY <1>1, <1>5
  <2>3. /\ Fine * (2 * y) = 2 * (Fine * y) /\ Fine * (2 * n + u) = 2 * (Fine * n) + Fine * u
        /\ Fine * (2 * n) = 2 * (Fine * n) /\ Fine * (2 * y + u) = 2 * (Fine * y) + Fine * u
    BY <1>1, <1>5
  <2> QED BY <1>5, <1>7, <2>1, <2>2, <2>3 DEF y
<1> QED BY <1>3, <1>6, <1>7

\* Rounding does not take a number below a power of two.
LEMMA NearestAbove ==
  ASSUME NEW n \in Nat, NEW m \in Nat, n >= Power(2, m)
  PROVE  nearest(n) >= Power(2, m)
<1> DEFINE e == exponent(n)
           u == ulp(n)
           y == nearest(n)
<1>1. u \in Nat \ {0} /\ e \in Nat /\ u = Power(2, e) /\ Power(2, m) \in Nat \ {0}
  BY UlpPositive, Exponent, PowersPositive DEF ulp
<1>2. PICK q \in Nat, r \in Nat :
        /\ n = q * u + r /\ r < u
        /\ y = q * u \/ (y = (q + 1) * u /\ 2 * r >= u)
        /\ 2 * r < u => y = q * u
        /\ 2 * r <= u \/ y = (q + 1) * u
  BY <1>1, Quotient, Zenon
<1>3. u = 1 \/ Fine * u <= 2 * n
  BY UlpSmall
<1> HIDE DEF e, u, y
<1>4. q * u \in Nat /\ (q + 1) * u = q * u + u
  BY <1>1
<1>5. y \in Nat /\ y >= q * u
  BY <1>1, <1>2, <1>4
<1>6. CASE u = 1
  BY <1>2, <1>4, <1>5, <1>6 DEF y
<1>7. CASE u # 1 /\ m < e
  <2>1. Fine * u >= 4 * u
    BY <1>1, FineLarge
  <2>2. n >= u
    BY <1>1, <1>3, <1>7, <2>1, FineLarge
  <2>3. q # 0
    <3> SUFFICES ASSUME q = 0 PROVE FALSE
      OBVIOUS
    <3>1. q * u = 0
      BY <1>1
    <3> QED BY <1>1, <1>2, <2>2, <3>1
  <2>4. q * u >= u
    BY <1>1, <2>3
  <2> DEFINE k == e - m
  <2>5. k \in Nat /\ m + k = e
    BY <1>1, <1>7
  <2> HIDE DEF k
  <2>6. u = Power(2, m) * Power(2, k) /\ Power(2, k) \in Nat \ {0}
    <3>1. Power(2, m + k) = Power(2, m) * Power(2, k)
      BY <2>5, PowersAdd, Zenon
    <3>2. Power(2, k) \in Nat \ {0}
      BY <2>5, PowersPositive
    <3> QED BY <1>1, <2>5, <3>1, <3>2, Zenon
  <2>7. u >= Power(2, m)
    BY <1>1, <2>6
  <2> QED BY <1>1, <1>5, <2>4, <2>7 DEF y
<1>8. CASE m >= e
  <2> DEFINE k == m - e
             w == Power(2, k)
  <2>1. k \in Nat /\ e + k = m
    BY <1>1, <1>8
  <2>2. Power(2, m) = u * w /\ w \in Nat
    <3>1. Power(2, e + k) = Power(2, e) * Power(2, k)
      BY <1>1, <2>1, PowersAdd, Zenon
    <3>2. Power(2, k) \in Nat \ {0}
      BY <2>1, PowersPositive
    <3>3. w \in Nat
      BY <3>2
    <3> QED BY <1>1, <2>1, <3>1, <3>3, Zenon
  <2> HIDE DEF k, w
  <2>3. ~(q < w)
    <3> SUFFICES ASSUME q + 1 <= w PROVE FALSE
      BY <2>2
    <3>1. (q + 1) * u <= w * u /\ w * u = u * w
      BY <1>1, <2>2
    <3> QED BY <1>1, <1>2, <1>4, <2>2, <3>1
  <2>4. q * u >= w * u /\ w * u = u * w /\ w * u \in Nat
    BY <1>1, <2>2, <2>3
  <2>5. y >= Power(2, m)
    BY <1>1, <1>5, <2>2, <2>4
  <2> QED BY <2>5 DEF y
<1> QED BY <1>1, <1>6, <1>7, <1>8

\* A number is exact if it is a multiple of its ulp.
LEMMA Exact ==
  ASSUME NEW n \in Nat
  PROVE  nearest(n) = n <=> \E k \in Nat : n = k * ulp(n)
<1> DEFINE u == ulp(n)
           y == nearest(n)
<1>1. u \in Nat \ {0}
  BY UlpPositive
<1>2. PICK q \in Nat, r \in Nat :
        /\ n = q * u + r /\ r < u
        /\ y = q * u \/ (y = (q + 1) * u /\ 2 * r >= u)
        /\ 2 * r < u => y = q * u
        /\ 2 * r <= u \/ y = (q + 1) * u
  BY <1>1, Quotient, Zenon
<1> HIDE DEF u, y
<1>3. y = n => \E k \in Nat : n = k * u
  <2>1. q + 1 \in Nat
    OBVIOUS
  <2> QED BY <1>2, <2>1, Zenon
<1>4. ASSUME NEW k \in Nat, n = k * u PROVE y = n
  <2>1. q * u \in Nat /\ (q + 1) * u = q * u + u
    BY <1>1
  <2>2. ~(k > q)
    <3> SUFFICES ASSUME k >= q + 1 PROVE FALSE
      OBVIOUS
    <3>1. k * u >= (q + 1) * u
      BY <1>1
    <3> QED BY <1>1, <1>2, <1>4, <2>1, <3>1
  <2>3. k * u <= q * u
    BY <1>1, <2>2
  <2>4. r = 0
    BY <1>2, <1>4, <2>1, <2>3
  <2> QED BY <1>1, <1>2, <2>1, <2>4
<1> QED BY <1>3, <1>4, Zenon DEF u, y

LEMMA Doubled ==
  ASSUME NEW n \in Nat, nearest(n) = n
  PROVE  nearest(2 * n) = 2 * n
<1> DEFINE e == exponent(n)
           k == exponent(2 * n)
<1>0. 2 * n \in Nat
  OBVIOUS
<1>1. /\ e \in Nat /\ k \in Nat /\ Precision \in Nat
      /\ n < Power(2, Precision + e)
      /\ \A j \in Nat : j < k => 2 * n >= Power(2, Precision + j)
  BY <1>0, Exponent, FloatAssumption
<1>2. ulp(n) = Power(2, e) /\ ulp(2 * n) = Power(2, k)
  BY DEF ulp
<1>3. PICK q \in Nat : n = q * Power(2, e)
  BY <1>2, Exact
<1> HIDE DEF e, k
<1>4. k <= e + 1
  <2> SUFFICES ASSUME k > e + 1 PROVE FALSE
    BY <1>1
  <2>1. 2 * n >= Power(2, Precision + (e + 1)) /\ Precision + (e + 1) = (Precision + e) + 1
    BY <1>1
  <2>2. Precision + e \in Nat /\ Power(2, (Precision + e) + 1) = 2 * Power(2, Precision + e)
    BY <1>1, Powers
  <2>3. Power(2, Precision + e) \in Nat
    BY <2>2, Powers
  <2> QED BY <1>1, <2>1, <2>2, <2>3
<1> DEFINE i == (e + 1) - k
           v == Power(2, i)
           w == Power(2, k)
<1>5. i \in Nat /\ k + i = e + 1
  BY <1>1, <1>4
<1>6. v \in Nat /\ w \in Nat /\ Power(2, e) \in Nat
  BY <1>1, <1>5, Powers, Zenon
<1>7. 2 * Power(2, e) = w * v
  <2>1. Power(2, e + 1) = 2 * Power(2, e)
    BY <1>1, Powers
  <2>2. Power(2, k + i) = Power(2, k) * Power(2, i)
    BY <1>1, <1>5, PowersAdd, Zenon
  <2> QED BY <1>5, <2>1, <2>2
<1> HIDE DEF i, v
<1>8. 2 * n = (q * v) * w /\ q * v \in Nat
  <2> DEFINE x == Power(2, e)
  <2>1. x \in Nat /\ n = q * x /\ 2 * x = w * v
    BY <1>3, <1>6, <1>7
  <2> HIDE DEF x, w
  <2>2. 2 * n = q * (2 * x)
    BY <2>1
  <2> QED BY <1>6, <2>1, <2>2
<1> QED BY <1>0, <1>2, <1>8, Exact

LEMMA ExactTimesPower ==
  ASSUME NEW n \in Nat, nearest(n) = n, NEW k \in Nat
  PROVE  nearest(n * Power(2, k)) = n * Power(2, k)
<1> DEFINE N == {i \in Nat : nearest(n * Power(2, i)) = n * Power(2, i)}
<1>1. 0 \in N
  <2>1. n * Power(2, 0) = n
    BY Powers
  <2> QED BY <2>1
<1>2. ASSUME NEW i \in Nat, i \in N PROVE i + 1 \in N
  <2> DEFINE x == n * Power(2, i)
  <2>1. Power(2, i) \in Nat /\ Power(2, i + 1) = 2 * Power(2, i)
    BY Powers, Zenon
  <2>2. x \in Nat /\ n * Power(2, i + 1) = 2 * x
    BY <2>1
  <2>3. nearest(x) = x
    BY <1>2
  <2> HIDE DEF x
  <2>4. nearest(2 * x) = 2 * x
    BY <2>2, <2>3, Doubled
  <2> QED BY <2>2, <2>4
<1> HIDE DEF N
<1>3. Nat \subseteq N
  BY <1>1, <1>2, Induction
<1> QED BY <1>3 DEF N
-----------------------------------------------------------------------------
\* Multiplication of two numbers, and the bounds of a quotient.
LEMMA Multiply ==
  ASSUME NEW a \in Nat, NEW b \in Nat, NEW c \in Nat, NEW d \in Nat, a <= b, c <= d
  PROVE  a * c <= b * d
<1>1. a * c <= b * c /\ b * c <= b * d
  OBVIOUS
<1> QED BY <1>1

LEMMA QuotientBounds ==
  ASSUME NEW a \in Int, NEW y \in Int, NEW c \in Nat \ {0}
  PROVE  /\ c * y <= a => y <= a \div c
         /\ c * y >= a => y >= a \div c
<1> DEFINE d == a \div c
<1>1. d \in Int /\ c * d <= a /\ a < c * d + c
  BY Division
<1> HIDE DEF d
<1>2. ASSUME c * y <= a PROVE y <= d
  <2> SUFFICES ASSUME y >= d + 1 PROVE FALSE
    BY <1>1
  <2>1. c * y >= c * (d + 1) /\ c * (d + 1) = c * d + c
    BY <1>1
  <2> QED BY <1>1, <1>2, <2>1
<1>3. ASSUME c * y >= a PROVE y >= d
  <2> SUFFICES ASSUME y + 1 <= d PROVE FALSE
    BY <1>1
  <2>1. c * (y + 1) <= c * d /\ c * (y + 1) = c * y + c
    BY <1>1
  <2> QED BY <1>1, <1>3, <2>1
<1> QED BY <1>2, <1>3 DEF d

LEMMA QuotientMonotone ==
  ASSUME NEW a \in Int, NEW b \in Int, NEW c \in Nat \ {0}, a <= b
  PROVE  a \div c <= b \div c
<1> DEFINE d == a \div c
<1>1. d \in Int /\ c * d <= a
  BY Division
<1> HIDE DEF d
<1>2. c * d \in Int
  BY <1>1
<1>3. c * d <= b
  BY <1>1, <1>2
<1> QED BY <1>1, <1>3, QuotientBounds DEF d

(***************************************************************************)
(* What scaled gives: two roundings of a product.                          *)
(***************************************************************************)
LEMMA OnePositive == One \in Nat \ {0}
BY FloatAssumption, PowersPositive DEF One

LEMMA Scaled ==
  ASSUME NEW d \in Nat, NEW f \in Nat
  PROVE  /\ nearest(nearest(d) * f) \in Nat
         /\ scaled(d, f) = nearest(nearest(d) * f) \div One
         /\ scaled(d, f) \in Nat
<1> DEFINE x == nearest(d)
           y == nearest(x * f)
<1>1. x \in Nat /\ x = float32(d)
  BY Near DEF float32
<1> HIDE DEF x
<1>2. x * f \in Nat
  BY <1>1
<1>3. y \in Nat /\ y = float32(x * f)
  <2>1. ~(x * f < 0)
    BY <1>2
  <2> QED BY <1>2, <2>1, Near DEF float32
<1> HIDE DEF y
<1>4. ~(y < 0)
  BY <1>3
<1>5. truncated(y) = y \div One
  BY <1>4 DEF truncated
<1>6. y \div One \in Nat
  BY <1>3, OnePositive, DivisionNat
<1>7. scaled(d, f) = y \div One
  BY <1>1, <1>3, <1>5, Zenon DEF scaled
<1> QED BY <1>3, <1>6, <1>7, Zenon DEF x, y

\* A delay may also be negative, or a factor.
LEMMA FloatInt ==
  ASSUME NEW n \in Int
  PROVE  float32(n) \in Int /\ (n >= 0 => float32(n) >= 0) /\ (n <= 0 => float32(n) <= 0)
<1>1. CASE n < 0
  <2> DEFINE k == -n
  <2>1. k \in Nat
    BY <1>1
  <2> HIDE DEF k
  <2>2. nearest(k) \in Nat
    BY <2>1, Near
  <2>3. float32(n) = -nearest(k)
    BY <1>1 DEF float32, k
  <2> QED BY <1>1, <2>2, <2>3
<1>2. CASE n = 0
  <2>1. nearest(0) \in Nat /\ Fine * nearest(0) <= (Fine + 1) * 0
    BY Near
  <2>2. Fine \in Nat /\ Fine >= 4
    BY FineLarge
  <2>3. nearest(0) = 0
    BY <2>1, <2>2
  <2> QED BY <1>2, <2>3 DEF float32
<1>3. CASE n > 0
  <2>1. nearest(n) \in Nat
    BY <1>3, Near
  <2> QED BY <1>3, <2>1 DEF float32
<1> QED BY <1>1, <1>2, <1>3

LEMMA ScaledInt ==
  ASSUME NEW d \in Int, NEW f \in Int
  PROVE  scaled(d, f) \in Int /\ (d >= 0 /\ f <= 0 => scaled(d, f) <= 0)
<1> DEFINE x == float32(d)
           y == float32(x * f)
<1>2. x \in Int /\ (d >= 0 => x >= 0)
  BY FloatInt
<1> HIDE DEF x
<1>3. x * f \in Int /\ (d >= 0 /\ f <= 0 => x * f <= 0)
  BY <1>2
<1>4. y \in Int /\ (d >= 0 /\ f <= 0 => y <= 0)
  <2> DEFINE z == x * f
  <2>1. z \in Int /\ (d >= 0 /\ f <= 0 => z <= 0)
    BY <1>3
  <2> HIDE DEF z
  <2>2. float32(z) \in Int /\ (z <= 0 => float32(z) <= 0)
    BY <2>1, FloatInt
  <2>3. y = float32(z)
    BY DEF z
  <2> QED BY <2>1, <2>2, <2>3
<1>5. scaled(d, f) = truncated(y)
  BY DEF scaled, x
<1> HIDE DEF y
<1>6. CASE y < 0
  <2> DEFINE k == -y
  <2>1. k \in Nat
    BY <1>4, <1>6
  <2> HIDE DEF k
  <2>2. k \div One \in Nat
    BY <2>1, OnePositive, DivisionNat
  <2>3. truncated(y) = -(k \div One)
    BY <1>6 DEF truncated, k
  <2> QED BY <1>5, <2>2, <2>3
<1>7. CASE y >= 0
  <2>1. y \in Nat /\ ~(y < 0)
    BY <1>4, <1>7
  <2>2. y \div One \in Nat /\ truncated(y) = y \div One
    BY <2>1, OnePositive, DivisionNat DEF truncated
  <2>3. y = 0 => y \div One <= 0
    <3> SUFFICES ASSUME y = 0 PROVE 0 \div One <= 0
      OBVIOUS
    <3>1. One * 0 >= 0 /\ 0 \in Int
      BY OnePositive
    <3> QED BY <3>1, OnePositive, QuotientBounds
  <2> QED BY <1>4, <1>5, <2>1, <2>2, <2>3
<1> QED BY <1>4, <1>6, <1>7

\* Two roundings.
LEMMA NearTwice ==
  ASSUME NEW d \in Nat, NEW f \in Nat
  PROVE  /\ (Fine * Fine) * nearest(nearest(d) * f) <= ((Fine + 1) * (Fine + 1)) * (d * f)
         /\ (Fine * Fine) * nearest(nearest(d) * f) >= ((Fine - 1) * (Fine - 1)) * (d * f)
<1> DEFINE x == nearest(d)
           y == nearest(x * f)
           up == Fine + 1
           dn == Fine - 1
           F == Fine
<1>1. F \in Nat /\ up \in Nat /\ dn \in Nat
  BY FineLarge
<1>2. x \in Nat /\ F * x <= up * d /\ F * x >= dn * d
  BY Near
<1> HIDE DEF x
<1>3. y \in Nat /\ F * y <= up * (x * f) /\ F * y >= dn * (x * f)
  <2>1. x * f \in Nat
    BY <1>2
  <2> QED BY <2>1, Near
<1> HIDE DEF y, up, dn, F
<1>4. F * x \in Nat /\ up * d \in Nat /\ dn * d \in Nat /\ x * f \in Nat
  BY <1>1, <1>2
<1>5. (F * x) * f <= (up * d) * f /\ (F * x) * f >= (dn * d) * f
  BY <1>2, <1>4, Multiply
<1>6. F * (F * y) <= F * (up * (x * f)) /\ F * (F * y) >= F * (dn * (x * f))
  BY <1>1, <1>3, <1>4
<1>7. /\ F * (up * (x * f)) = up * ((F * x) * f) /\ F * (dn * (x * f)) = dn * ((F * x) * f)
      /\ F * (F * y) = (F * F) * y
  BY <1>1, <1>2, <1>3
<1> DEFINE p == (F * x) * f
           s == (up * d) * f
           t == (dn * d) * f
<1>8. p \in Nat /\ s \in Nat /\ t \in Nat
  BY <1>4
<1>9. p <= s /\ t <= p
  BY <1>5, <1>8
<1>10. up * p <= up * s /\ dn * t <= dn * p
  <2> HIDE DEF p, s, t
  <2> QED BY <1>1, <1>8, <1>9
<1>11. up * s = (up * up) * (d * f) /\ dn * t = (dn * dn) * (d * f)
  BY <1>1
<1>12. (F * F) * y \in Nat /\ up * p \in Nat /\ dn * p \in Nat /\ up * s \in Nat /\ dn * t \in Nat
  <2> HIDE DEF p, s, t
  <2>1. F * F \in Nat
    BY <1>1
  <2> QED BY <1>1, <1>3, <1>8, <2>1
<1>13. (F * F) * y <= up * p /\ (F * F) * y >= dn * p
  BY <1>6, <1>7
<1>14. (F * F) * y <= up * s /\ (F * F) * y >= dn * t
  <2> HIDE DEF p, s, t
  <2> QED BY <1>10, <1>12, <1>13
<1>15. (F * F) * y <= (up * up) * (d * f) /\ (F * F) * y >= (dn * dn) * (d * f)
  BY <1>11, <1>14
<1> QED BY <1>15 DEF F, up, dn, x, y

LEMMA Squares ==
  ASSUME NEW b \in Nat
  PROVE  Power(b, 2) = b * b /\ Power(b, 3) = b * (b * b)
<1>1. Power(b, 0) = 1 /\ Power(b, 0 + 1) = b * Power(b, 0)
      /\ Power(b, 1 + 1) = b * Power(b, 1) /\ Power(b, 2 + 1) = b * Power(b, 2)
  BY Powers
<1> QED BY <1>1

\* Once more is at most the largest, and at least the smallest, that two roundings give.
LEMMA GrowthBounds ==
  ASSUME NEW d \in Nat, NEW g \in Nat, NEW f \in Nat
  PROVE  /\ Off(g * f, 1, 2) \div One \in Nat /\ Off(g * f, -1, 2) \div One \in Nat
         /\ d <= g => scaled(d, f) <= Off(g * f, 1, 2) \div One
         /\ d >= g => scaled(d, f) >= Off(g * f, -1, 2) \div One
<1> DEFINE y == nearest(nearest(d) * f)
           up == (Fine + 1) * (Fine + 1)
           dn == (Fine - 1) * (Fine - 1)
           F == Fine * Fine
           dg == g * f
           df == d * f
<1>1. y \in Nat /\ scaled(d, f) = y \div One /\ One \in Nat \ {0}
  BY Scaled, OnePositive
<1>2. F * y <= up * df /\ F * y >= dn * df
  BY NearTwice
<1>3. /\ Fine \in Nat /\ Fine + 1 \in Nat /\ Fine - 1 \in Nat /\ Fine + (-1) = Fine - 1
      /\ Fine # 0
  BY FineLarge
<1>4. F \in Nat \ {0} /\ up \in Nat /\ dn \in Nat /\ dg \in Nat /\ df \in Nat
  BY <1>3
<1>5. Off(dg, 1, 2) = (dg * up) \div F /\ Off(dg, -1, 2) = (dg * dn) \div F
  BY <1>3, Squares, Zenon DEF Off
<1> HIDE DEF y, up, dn, F
<1>6. dg * up \in Nat /\ dg * dn \in Nat /\ df * up \in Nat /\ df * dn \in Nat
  <2> HIDE DEF dg, df
  <2> QED BY <1>4
<1>7. (dg * up) \div F \in Nat /\ (dg * dn) \div F \in Nat
  <2> HIDE DEF dg
  <2> QED BY <1>4, <1>6, DivisionNat
<1>8. ((dg * up) \div F) \div One \in Nat /\ ((dg * dn) \div F) \div One \in Nat
  <2> HIDE DEF dg
  <2> QED BY <1>1, <1>7, DivisionNat
<1>9. ASSUME d <= g PROVE y \div One <= ((dg * up) \div F) \div One
  <2>1. df <= dg
    BY <1>9
  <2> HIDE DEF df, dg
  <2>2. df * up <= dg * up /\ up * df = df * up
    BY <1>4, <2>1
  <2>3. F * y <= dg * up
    <3>1. F * y \in Nat
      BY <1>1, <1>4
    <3> QED BY <1>2, <1>6, <2>2, <3>1
  <2>4. y <= (dg * up) \div F
    BY <1>1, <1>4, <1>6, <2>3, QuotientBounds
  <2>5. y \in Int /\ (dg * up) \div F \in Int
    BY <1>1, <1>7
  <2> QED BY <1>1, <2>4, <2>5, QuotientMonotone, Zenon
<1>10. ASSUME d >= g PROVE y \div One >= ((dg * dn) \div F) \div One
  <2>1. df >= dg
    BY <1>10
  <2> HIDE DEF df, dg
  <2>2. df * dn >= dg * dn /\ dn * df = df * dn
    BY <1>4, <2>1
  <2>3. F * y >= dg * dn
    <3>1. F * y \in Nat
      BY <1>1, <1>4
    <3> QED BY <1>2, <1>6, <2>2, <3>1
  <2>4. y >= (dg * dn) \div F
    BY <1>1, <1>4, <1>6, <2>3, QuotientBounds
  <2>5. y \in Int /\ (dg * dn) \div F \in Int /\ (dg * dn) \div F <= y
    BY <1>1, <1>7, <2>4
  <2>6. ((dg * dn) \div F) \div One <= y \div One /\ y \div One \in Int
    BY <1>1, <2>5, QuotientMonotone, Division, Zenon
  <2> QED BY <1>8, <2>6
<1> QED BY <1>1, <1>5, <1>8, <1>9, <1>10

\* A delay stays positive.
LEMMA ScaledPositive ==
  ASSUME NEW d \in Nat \ {0}, NEW f \in Nat, f >= One
  PROVE  scaled(d, f) \in Nat \ {0}
<1> DEFINE x == nearest(d)
           z == x * f
           y == nearest(z)
<1>1. x \in Nat /\ x >= 1
  <2>1. Power(2, 0) = 1
    BY Powers
  <2>2. d >= Power(2, 0)
    BY <2>1
  <2>3. x >= Power(2, 0)
    BY <2>2, NearestAbove
  <2> QED BY <2>1, <2>3, Near
<1>2. /\ y \in Nat /\ scaled(d, f) = y \div One /\ scaled(d, f) \in Nat
      /\ One \in Nat \ {0} /\ One = Power(2, FractionBits) /\ FractionBits \in Nat
  BY Scaled, OnePositive, FloatAssumption, Zenon DEF One
<1> HIDE DEF x
<1>3. z \in Nat /\ z >= f
  BY <1>1
<1> HIDE DEF z
<1>4. z >= One
  BY <1>2, <1>3
<1>5. y >= One
  BY <1>2, <1>3, <1>4, NearestAbove
<1> HIDE DEF y
<1>6. One * 1 <= y /\ y \in Int /\ 1 \in Int
  BY <1>2, <1>5
<1>7. 1 <= y \div One
  BY <1>2, <1>6, QuotientBounds, Zenon
<1> QED BY <1>2, <1>7

\* Twice a delay: exact if the delay is, and never below it.
LEMMA ScaledTwice ==
  ASSUME NEW d \in Nat
  PROVE  /\ nearest(d) = d => scaled(d, 2 * One) = 2 * d
         /\ scaled(d, 2 * One) >= d
<1> DEFINE y == nearest(nearest(d) * (2 * One))
<1>1. /\ y \in Nat /\ scaled(d, 2 * One) = y \div One /\ scaled(d, 2 * One) \in Nat
      /\ One \in Nat \ {0} /\ One = Power(2, FractionBits) /\ FractionBits \in Nat
  <2>1. One \in Nat \ {0} /\ 2 * One \in Nat
    BY OnePositive
  <2> QED BY <2>1, Scaled, FloatAssumption, Zenon DEF One
<1>2. ASSUME nearest(d) = d PROVE y \div One = 2 * d
  <2> DEFINE k == FractionBits + 1
  <2>1. k \in Nat /\ Power(2, k) = 2 * One
    BY <1>1, Powers
  <2> HIDE DEF k
  <2>2. nearest(d * Power(2, k)) = d * Power(2, k)
    BY <1>2, <2>1, ExactTimesPower
  <2>3. y = d * (2 * One)
    BY <1>2, <2>1, <2>2
  <2> HIDE DEF y
  <2>4. d * (2 * One) = One * (2 * d) /\ 2 * d \in Nat
    BY <1>1
  <2>5. 2 * d \in Int /\ y \in Int /\ y \div One \in Int /\ One * (2 * d) <= y /\ One * (2 * d) >= y
    <3>1. y \div One \in Int /\ y \in Int
      BY <1>1
    <3> QED BY <2>3, <2>4, <3>1
  <2>6. 2 * d <= y \div One /\ 2 * d >= y \div One
    BY <1>1, <2>5, QuotientBounds, Zenon
  <2> QED BY <2>5, <2>6
<1>3. y \div One >= d
  <2> DEFINE F == Fine
             g == F - 1
             z == d * (2 * One)
             o == One * d
  <2>1. (Fine * Fine) * y >= ((Fine - 1) * (Fine - 1)) * (d * (2 * One))
    <3>1. 2 * One \in Nat
      BY <1>1
    <3> QED BY <3>1, NearTwice
  <2>2. F \in Nat /\ F >= 4 /\ g \in Nat /\ g >= 3 /\ F = g + 1 /\ z = 2 * o /\ o \in Nat
    BY <1>1, FineLarge
  <2>3. (F * F) * y >= (g * g) * z
    BY <2>1
  <2> HIDE DEF F, g, z, y, o
  <2>4. F * F = g * g + 2 * g + 1 /\ g * g >= 3 * g /\ g * g \in Nat
    BY <2>2
  <2>5. 2 * (g * g) >= F * F /\ F * F \in Nat \ {0}
    BY <2>2, <2>4
  <2>6. (g * g) * z = (2 * (g * g)) * o
    BY <2>2, <2>4
  <2>7. (2 * (g * g)) * o >= (F * F) * o
    <3> DEFINE a == 2 * (g * g)
               b == F * F
    <3>1. a \in Nat /\ b \in Nat /\ a >= b
      BY <2>4, <2>5
    <3> HIDE DEF a, b
    <3>2. a * o >= b * o
      BY <2>2, <3>1
    <3> QED BY <3>2 DEF a, b
  <2>8. (F * F) * y >= (F * F) * o
    <3> DEFINE b == F * F
    <3>1. b \in Nat \ {0}
      BY <2>5
    <3>2. (g * g) * z \in Nat
      BY <2>2, <2>4
    <3> HIDE DEF b
    <3>3. b * y \in Nat /\ b * o \in Nat
      BY <1>1, <2>2, <3>1
    <3>4. b * y >= (g * g) * z /\ (g * g) * z >= b * o
      BY <2>3, <2>6, <2>7 DEF b
    <3>5. b * y >= b * o
      BY <3>2, <3>3, <3>4
    <3> QED BY <3>5 DEF b
  <2>9. y >= o
    <3> DEFINE b == F * F
    <3>1. b \in Nat \ {0} /\ b * y >= b * o
      BY <2>5, <2>8
    <3> HIDE DEF b
    <3> SUFFICES ASSUME y + 1 <= o PROVE FALSE
      BY <1>1, <2>2
    <3>2. b * (y + 1) <= b * o /\ b * (y + 1) = b * y + b
      BY <1>1, <2>2, <3>1
    <3>3. b * y \in Nat /\ b * o \in Nat
      BY <1>1, <2>2, <3>1
    <3> QED BY <3>1, <3>2, <3>3
  <2>10. One * d <= y /\ d \in Int /\ y \in Int /\ y \div One \in Int
    <3>1. y \div One \in Int
      BY <1>1
    <3> QED BY <1>1, <2>9, <3>1 DEF o
  <2>11. d <= y \div One
    BY <1>1, <2>10, QuotientBounds, Zenon
  <2> QED BY <2>10, <2>11
<1> QED BY <1>1, <1>2, <1>3

\* Three roundings, from two and one.
LEMMA NearThrice ==
  ASSUME NEW F \in Nat, NEW c \in Nat, NEW d \in Nat, NEW f \in Nat, NEW w \in Nat, NEW y \in Nat
  PROVE  /\ (F * F) * y <= (c * c) * (d * f) /\ F * f <= c * w
              => (F * (F * F)) * y <= (d * w) * (c * (c * c))
         /\ (F * F) * y >= (c * c) * (d * f) /\ F * f >= c * w
              => (F * (F * F)) * y >= (d * w) * (c * (c * c))
<1> DEFINE z == (c * c) * d
           l == (F * F) * y
           r == (c * c) * (d * f)
           s == F * f
           t == c * w
<1>1. z \in Nat /\ l \in Nat /\ r \in Nat /\ s \in Nat /\ t \in Nat
  <2>1. c * c \in Nat /\ F * F \in Nat /\ d * f \in Nat
    OBVIOUS
  <2> QED BY <2>1
<1>2. F * l = (F * (F * F)) * y /\ F * r = z * s /\ z * t = (d * w) * (c * (c * c))
  OBVIOUS
<1> HIDE DEF z, l, r, s, t
<1>3. F * l \in Nat /\ F * r \in Nat /\ z * s \in Nat /\ z * t \in Nat
  BY <1>1
<1>4. (l <= r => F * l <= F * r) /\ (l >= r => F * l >= F * r)
  BY <1>1
<1>5. (s <= t => z * s <= z * t) /\ (s >= t => z * s >= z * t)
  BY <1>1
<1>6. (l <= r /\ s <= t => F * l <= z * t) /\ (l >= r /\ s >= t => F * l >= z * t)
  BY <1>2, <1>3, <1>4, <1>5
<1> QED BY <1>2, <1>6 DEF l, r, s, t

\* How far a jitter factor moves a delay.
LEMMA JitterBounds ==
  ASSUME NEW d \in Nat, NEW j \in Nat, NEW part \in (1 - j)..j
  PROVE  /\ Off(d * (One + j), 1, 3) \div One \in Nat /\ Off(d * (One - j), -1, 3) \div One \in Int
         /\ scaled(d, float32(One + part)) <= Off(d * (One + j), 1, 3) \div One
         /\ scaled(d, float32(One + part)) >= Off(d * (One - j), -1, 3) \div One
              \/ Off(d * (One - j), -1, 3) \div One <= 0
<1> DEFINE w == One + part
           F3 == Fine * (Fine * Fine)
           up == Fine + 1
           dn == Fine - 1
           high == d * (One + j)
           low == d * (One - j)
<1>1. One \in Nat \ {0} /\ w \in Int /\ w <= One + j /\ w >= One - j /\ One + j \in Nat /\ One - j \in Int
  BY OnePositive
<1>2. Fine \in Nat /\ Fine # 0 /\ up \in Nat /\ dn \in Nat /\ Fine + (-1) = dn
  BY FineLarge
<1>3. /\ F3 \in Nat \ {0} /\ up * (up * up) \in Nat /\ dn * (dn * dn) \in Nat
      /\ high \in Nat /\ low \in Int
  BY <1>1, <1>2
<1>4. /\ Off(high, 1, 3) = (high * (up * (up * up))) \div F3
      /\ Off(low, -1, 3) = (low * (dn * (dn * dn))) \div F3
  BY <1>2, Squares, Zenon DEF Off
<1> DEFINE a == high * (up * (up * up))
           b == low * (dn * (dn * dn))
<1>5. a \in Nat /\ b \in Int
  <2> DEFINE x == up * (up * up)
             z == dn * (dn * dn)
  <2> HIDE DEF high, low, x, z
  <2>1. high * x \in Nat /\ low * z \in Int
    BY <1>3 DEF x, z
  <2> QED BY <2>1 DEF x, z
<1>6. a \div F3 \in Nat /\ (a \div F3) \div One \in Nat
  <2> HIDE DEF a, F3
  <2> QED BY <1>1, <1>3, <1>5, DivisionNat, Zenon
<1> SUFFICES /\ scaled(d, float32(One + part)) <= Off(high, 1, 3) \div One
             /\ scaled(d, float32(One + part)) >= Off(low, -1, 3) \div One \/ Off(low, -1, 3) \div One <= 0
  <2>1. b \div F3 \in Int /\ (b \div F3) \div One \in Int
    <3> HIDE DEF b, F3
    <3>1. b \div F3 \in Int
      BY <1>3, <1>5, Division
    <3> QED BY <1>1, <3>1, Division
  <2>2. Off(high, 1, 3) \div One \in Nat /\ Off(low, -1, 3) \div One \in Int
    BY <1>4, <1>6, <2>1, Zenon
  <2> QED BY <2>2, Zenon
<1>7. b <= 0 => (b \div F3) \div One <= 0
  <2> HIDE DEF b, F3
  <2> SUFFICES ASSUME b <= 0 PROVE (b \div F3) \div One <= 0
    OBVIOUS
  <2>1. F3 * 0 >= b /\ 0 \in Int /\ b \div F3 \in Int
    BY <1>3, <1>5, Division
  <2>2. 0 >= b \div F3
    BY <1>3, <1>5, <2>1, QuotientBounds, Zenon
  <2>3. One * 0 >= b \div F3 /\ (b \div F3) \div One \in Int
    BY <1>1, <2>1, <2>2, Division
  <2>4. 0 >= (b \div F3) \div One
    BY <1>1, <2>1, <2>3, QuotientBounds, Zenon
  <2> QED BY <2>3, <2>4
<1>8. CASE w <= 0
  <2>1. float32(w) \in Int /\ float32(w) <= 0
    BY <1>1, <1>8, FloatInt
  <2>2. scaled(d, float32(w)) \in Int /\ scaled(d, float32(w)) <= 0
    <3> DEFINE f == float32(w)
    <3> HIDE DEF f
    <3>1. f \in Int /\ f <= 0 /\ d \in Int /\ d >= 0
      BY <2>1 DEF f
    <3>2. scaled(d, f) \in Int /\ scaled(d, f) <= 0
      BY <3>1, ScaledInt
    <3> QED BY <3>2 DEF f
  <2>3. One - j <= 0
    BY <1>1, <1>8
  <2>4. b <= 0
    <3> DEFINE z == dn * (dn * dn)
    <3>1. low <= 0 /\ z \in Nat
      BY <1>1, <1>3, <2>3
    <3> HIDE DEF low, z
    <3>2. low * z <= 0
      BY <1>3, <3>1
    <3> QED BY <3>2 DEF z
  <2> HIDE DEF a, b
  <2>5. (b \div F3) \div One <= 0
    BY <1>7, <2>4
  <2>6. scaled(d, float32(w)) <= (a \div F3) \div One
    BY <1>6, <2>2
  <2> QED BY <1>4, <2>5, <2>6 DEF a, b
<1>9. CASE w > 0
  <2> DEFINE f == nearest(w)
             y == nearest(nearest(d) * f)
  <2>1. w \in Nat /\ ~(w < 0)
    BY <1>1, <1>9
  <2>2. f \in Nat /\ float32(w) = f /\ Fine * f <= up * w /\ Fine * f >= dn * w
    <3> HIDE DEF w
    <3> QED BY <2>1, Near DEF float32
  <2> HIDE DEF w, f
  <2>3. /\ y \in Nat /\ scaled(d, f) = y \div One /\ y \div One \in Int
        /\ (Fine * Fine) * y <= (up * up) * (d * f)
        /\ (Fine * Fine) * y >= (dn * dn) * (d * f)
    <3>1. scaled(d, f) \in Nat /\ y \in Nat /\ scaled(d, f) = y \div One
      BY <2>2, Scaled, Zenon
    <3> QED BY <2>2, <3>1, NearTwice
  <2> HIDE DEF y
  <2>4. F3 * y <= (d * w) * (up * (up * up)) /\ F3 * y >= (d * w) * (dn * (dn * dn))
    <3> HIDE DEF up, dn
    <3> QED BY <1>2, <2>1, <2>2, <2>3, NearThrice
  <2> DEFINE u3 == up * (up * up)
             d3 == dn * (dn * dn)
             s == d * w
  <2>5. u3 \in Nat /\ d3 \in Nat /\ s \in Nat /\ F3 * y <= s * u3 /\ F3 * y >= s * d3
    BY <1>3, <2>1, <2>4
  <2>6. s <= high /\ low <= s
    <3>1. w <= One + j /\ One - j <= w
      BY <1>1 DEF w
    <3> QED BY <1>1, <2>1, <3>1
  <2>7. a = high * u3 /\ b = low * d3
    OBVIOUS
  <2> HIDE DEF u3, d3, s, high, low, a, b, F3, up, dn
  <2>8. s * u3 <= high * u3 /\ low * d3 <= s * d3 /\ s * u3 \in Nat /\ s * d3 \in Nat
    BY <1>3, <2>5, <2>6
  <2>9. F3 * y \in Nat
    BY <1>3, <2>3
  <2>10. F3 * y <= a /\ F3 * y >= b
    BY <1>5, <2>5, <2>7, <2>8, <2>9
  <2>11. y \in Int /\ a \in Int /\ b \in Int /\ a \div F3 \in Int /\ b \div F3 \in Int
    BY <1>3, <1>5, <2>3, Division
  <2>12. y <= a \div F3 /\ y >= b \div F3
    BY <1>3, <2>10, <2>11, QuotientBounds, Zenon
  <2>13. b \div F3 <= y
    BY <2>11, <2>12
  <2>14. y \div One <= (a \div F3) \div One /\ (b \div F3) \div One <= y \div One
    BY <1>1, <2>11, <2>12, <2>13, QuotientMonotone, Zenon
  <2>15. (b \div F3) \div One \in Int
    BY <1>1, <2>11, Division
  <2>16. y \div One >= (b \div F3) \div One
    BY <2>3, <2>14, <2>15
  <2>17. /\ scaled(d, float32(w)) <= (a \div F3) \div One
         /\ scaled(d, float32(w)) >= (b \div F3) \div One
    BY <2>2, <2>3, <2>14, <2>16, Zenon
  <2> QED BY <1>4, <2>17, Zenon DEF a, b, w, high, low
<1> QED BY <1>1, <1>8, <1>9
-----------------------------------------------------------------------------
(***************************************************************************)
(* The inductive invariant: types, and where late attempts can be.  Only   *)
(* a running attempt, or an execution that has ended, can have begun after *)
(* maxDuration.                                                            *)
(***************************************************************************)
LateInv ==
  /\ late \in 0..1
  /\ phase = "run" /\ late = 1 => config.maxDuration # 0 /\ elapsed > config.maxDuration
  /\ phase \in {"build", "failed", "delay"} => late = 0

CountInv ==
  /\ phase \in {"build", "run", "success"} => failedAttempts + 1 = attempts
  /\ phase \in {"failed", "delay", "aborted", "exceeded"} => failedAttempts = attempts

Numbers == {"delay", "delayMin", "delayMax", "delayFactor", "maxDelay", "jitter", "jitterFactor",
            "maxDuration"}

ConfigOK(c) ==
  /\ DOMAIN c = DOMAIN retryBuilder
  /\ c.maxRetries \in Int /\ c.delayFunc \in {"none", "http", "any"}
  /\ \A f \in Numbers : c[f] \in Nat

LEMMA Fields ==
  DOMAIN retryBuilder = Numbers \cup {"conditions", "delayFunc", "maxRetries"}
BY DEF retryBuilder, Numbers

LEMMA Builders == ConfigOK(retryBuilder) /\ ConfigOK(httpBuilder) /\ ConfigOK(grpcBuilder)
<1>1. ConfigOK(retryBuilder)
  BY DEF ConfigOK, retryBuilder, Numbers
<1>2. ConfigOK(httpBuilder)
  BY DEF ConfigOK, retryBuilder, httpBuilder, Numbers
<1>3. ConfigOK(grpcBuilder)
  BY DEF ConfigOK, retryBuilder, grpcBuilder, Numbers
<1> QED BY <1>1, <1>2, <1>3

\* One equation per call of the builder.
Conditioned(c, p) == [c EXCEPT !.conditions = p]

LEMMA Calling ==
  ASSUME NEW c, NEW b
  PROVE  /\ b.op = "WithMaxAttempts" => configured(c, b) = WithMaxAttempts(c, b.n)
         /\ b.op = "WithMaxRetries" => configured(c, b) = WithMaxRetries(c, b.n)
         /\ b.op = "WithMaxDuration" => configured(c, b) = WithMaxDuration(c, b.d)
         /\ b.op = "WithDelay" => configured(c, b) = WithDelay(c, b.d)
         /\ b.op = "WithDelayFunc" => configured(c, b) = WithDelayFunc(c, b.name)
         /\ b.op = "WithBackoffFactor" => configured(c, b) = WithBackoffFactor(c, b.d, b.max, b.factor)
         /\ b.op = "WithRandomDelay" => configured(c, b) = WithRandomDelay(c, b.min, b.max)
         /\ b.op = "WithJitter" => configured(c, b) = WithJitter(c, b.d)
         /\ b.op = "WithJitterFactor" => configured(c, b) = WithJitterFactor(c, b.d)
         /\ b.op = "HandleErrors" => configured(c, b) = Conditioned(c, HandleErrors(c.conditions, b.errs))
         /\ b.op = "HandleErrorTypes" => configured(c, b) = Conditioned(c, HandleErrorTypes(c.conditions, b.types))
         /\ b.op = "HandleResult" => configured(c, b) = Conditioned(c, HandleResult(c.conditions, b.result))
         /\ b.op = "HandleIf" => configured(c, b) = Conditioned(c, HandleIf(c.conditions, b.name))
         /\ b.op = "AbortOnErrors" => configured(c, b) = Conditioned(c, AbortOnErrors(c.conditions, b.errs))
         /\ b.op = "AbortOnErrorTypes" => configured(c, b) = Conditioned(c, AbortOnErrorTypes(c.conditions, b.types))
         /\ b.op = "AbortOnResult" => configured(c, b) = Conditioned(c, AbortOnResult(c.conditions, b.result))
         /\ b.op = "AbortIf" => configured(c, b) = Conditioned(c, AbortIf(c.conditions, b.name))
<1>1. b.op = "WithMaxAttempts" => configured(c, b) = WithMaxAttempts(c, b.n)
  BY SMTT(30) DEF configured
<1>2. b.op = "WithMaxRetries" => configured(c, b) = WithMaxRetries(c, b.n)
  BY SMTT(30) DEF configured
<1>3. b.op = "WithMaxDuration" => configured(c, b) = WithMaxDuration(c, b.d)
  BY SMTT(30) DEF configured
<1>4. b.op = "WithDelay" => configured(c, b) = WithDelay(c, b.d)
  BY SMTT(30) DEF configured
<1>5. b.op = "WithDelayFunc" => configured(c, b) = WithDelayFunc(c, b.name)
  BY SMTT(30) DEF configured
<1>6. b.op = "WithBackoffFactor" => configured(c, b) = WithBackoffFactor(c, b.d, b.max, b.factor)
  BY SMTT(30) DEF configured
<1>7. b.op = "WithRandomDelay" => configured(c, b) = WithRandomDelay(c, b.min, b.max)
  BY SMTT(30) DEF configured
<1>8. b.op = "WithJitter" => configured(c, b) = WithJitter(c, b.d)
  BY SMTT(30) DEF configured
<1>9. b.op = "WithJitterFactor" => configured(c, b) = WithJitterFactor(c, b.d)
  BY SMTT(30) DEF configured
<1>10. b.op = "HandleErrors" => configured(c, b) = Conditioned(c, HandleErrors(c.conditions, b.errs))
  BY SMTT(30) DEF configured, Conditioned
<1>11. b.op = "HandleErrorTypes" => configured(c, b) = Conditioned(c, HandleErrorTypes(c.conditions, b.types))
  BY SMTT(30) DEF configured, Conditioned
<1>12. b.op = "HandleResult" => configured(c, b) = Conditioned(c, HandleResult(c.conditions, b.result))
  BY SMTT(30) DEF configured, Conditioned
<1>13. b.op = "HandleIf" => configured(c, b) = Conditioned(c, HandleIf(c.conditions, b.name))
  BY SMTT(30) DEF configured, Conditioned
<1>14. b.op = "AbortOnErrors" => configured(c, b) = Conditioned(c, AbortOnErrors(c.conditions, b.errs))
  BY SMTT(30) DEF configured, Conditioned
<1>15. b.op = "AbortOnErrorTypes" => configured(c, b) = Conditioned(c, AbortOnErrorTypes(c.conditions, b.types))
  BY SMTT(30) DEF configured, Conditioned
<1>16. b.op = "AbortOnResult" => configured(c, b) = Conditioned(c, AbortOnResult(c.conditions, b.result))
  BY SMTT(30) DEF configured, Conditioned
<1>17. b.op = "AbortIf" => configured(c, b) = Conditioned(c, AbortIf(c.conditions, b.name))
  BY SMTT(30) DEF configured, Conditioned
<1> QED BY <1>1, <1>2, <1>3, <1>4, <1>5, <1>6, <1>7, <1>8, <1>9, <1>10, <1>11, <1>12, <1>13, <1>14, <1>15, <1>16, <1>17, Zenon

\* What a call has that sets a number.
LEMMA CallArguments ==
  ASSUME NEW b \in Calls
  PROVE  /\ b.op \in {"WithMaxAttempts", "WithMaxRetries"} => b.n \in Int
         /\ b.op \in {"WithMaxDuration", "WithDelay", "WithJitter", "WithJitterFactor"} => b.d \in Nat
         /\ b.op = "WithBackoffFactor" => b.d \in Nat /\ b.max \in Nat /\ b.factor \in Nat
         /\ b.op = "WithRandomDelay" => b.min \in Nat /\ b.max \in Nat
         /\ b.op = "WithDelayFunc" => b.name \in {"none", "http", "any"}
BY DEF Calls

\* Setting a number, or a field that is none, keeps the types of the fields.
LEMMA SetNumber ==
  ASSUME NEW c, ConfigOK(c), NEW f \in Numbers, NEW d \in Nat
  PROVE  ConfigOK([c EXCEPT ![f] = d])
BY Fields DEF ConfigOK, Numbers

LEMMA SetMaxRetries ==
  ASSUME NEW c, ConfigOK(c), NEW n \in Int
  PROVE  ConfigOK([c EXCEPT !.maxRetries = n])
BY Fields DEF ConfigOK, Numbers

LEMMA SetDelayFunc ==
  ASSUME NEW c, ConfigOK(c), NEW v \in {"none", "http", "any"}
  PROVE  ConfigOK([c EXCEPT !.delayFunc = v])
BY Fields DEF ConfigOK, Numbers

LEMMA SetConditions ==
  ASSUME NEW c, ConfigOK(c), NEW v
  PROVE  ConfigOK(Conditioned(c, v))
BY Fields DEF ConfigOK, Numbers, Conditioned

\* A call of the builder keeps the types of its fields.
LEMMA Configured ==
  ASSUME NEW c, ConfigOK(c), NEW b \in Calls
  PROVE  ConfigOK(configured(c, b))
<1>1. CASE b.op = "WithMaxAttempts"
  <2>1. configured(c, b) = WithMaxAttempts(c, b.n)
    BY <1>1, Calling, Zenon
  <2>2. (IF b.n = -1 THEN -1 ELSE b.n - 1) \in Int
    BY <1>1, CallArguments
  <2> QED BY <2>1, <2>2, SetMaxRetries DEF WithMaxAttempts
<1>2. CASE b.op = "WithMaxRetries"
  <2>1. configured(c, b) = WithMaxRetries(c, b.n)
    BY <1>2, Calling, Zenon
  <2> QED BY <1>2, <2>1, CallArguments, SetMaxRetries DEF WithMaxRetries
<1>3. CASE b.op = "WithMaxDuration"
  <2>1. configured(c, b) = WithMaxDuration(c, b.d)
    BY <1>3, Calling, Zenon
  <2> QED BY <1>3, <2>1, CallArguments, SetNumber DEF WithMaxDuration, Numbers
<1>4. CASE b.op = "WithDelay"
  <2>1. configured(c, b) = WithDelay(c, b.d)
    BY <1>4, Calling, Zenon
  <2> QED BY <1>4, <2>1, CallArguments, SetNumber DEF WithDelay, Numbers
<1>5. CASE b.op = "WithJitter"
  <2>1. configured(c, b) = WithJitter(c, b.d)
    BY <1>5, Calling, Zenon
  <2> QED BY <1>5, <2>1, CallArguments, SetNumber DEF WithJitter, Numbers
<1>6. CASE b.op = "WithJitterFactor"
  <2>1. configured(c, b) = WithJitterFactor(c, b.d)
    BY <1>6, Calling, Zenon
  <2> QED BY <1>6, <2>1, CallArguments, SetNumber DEF WithJitterFactor, Numbers
<1>7. CASE b.op = "WithBackoffFactor"
  <2>1. configured(c, b) = WithBackoffFactor(c, b.d, b.max, b.factor)
    BY <1>7, Calling, Zenon
  <2> QED BY <1>7, <2>1, CallArguments, Fields DEF WithBackoffFactor, ConfigOK, Numbers
<1>8. CASE b.op = "WithRandomDelay"
  <2>1. configured(c, b) = WithRandomDelay(c, b.min, b.max)
    BY <1>8, Calling, Zenon
  <2> DEFINE bounded == [[c EXCEPT !.delayMin = b.min] EXCEPT !.delayMax = b.max]
  <2>2. ConfigOK([c EXCEPT !.delayMin = b.min])
    BY <1>8, CallArguments, SetNumber DEF Numbers
  <2>3. ConfigOK(bounded)
    BY <1>8, <2>2, CallArguments, SetNumber, Zenon DEF Numbers
  <2>4. ConfigOK([bounded EXCEPT !.delay = 0])
    <3> HIDE DEF bounded
    <3> QED BY <2>3, SetNumber DEF Numbers
  <2>5. ConfigOK([[bounded EXCEPT !.delay = 0] EXCEPT !.maxDelay = 0])
    <3> DEFINE undelayed == [bounded EXCEPT !.delay = 0]
    <3> HIDE DEF undelayed
    <3>1. ConfigOK(undelayed)
      BY <2>4 DEF undelayed
    <3>2. ConfigOK([undelayed EXCEPT !.maxDelay = 0])
      BY <3>1, SetNumber DEF Numbers
    <3> QED BY <3>2 DEF undelayed
  <2>6. configured(c, b) = [[bounded EXCEPT !.delay = 0] EXCEPT !.maxDelay = 0]
    BY <2>1 DEF WithRandomDelay
  <2> QED BY <2>5, <2>6
<1>9. CASE b.op = "WithDelayFunc"
  <2>1. configured(c, b) = WithDelayFunc(c, b.name)
    BY <1>9, Calling, Zenon
  <2>2. b.name \in {"none", "http", "any"}
    BY <1>9, CallArguments
  <2>3. ConfigOK([c EXCEPT !.delayFunc = b.name])
    BY <2>2, SetDelayFunc, Zenon
  <2> QED BY <2>1, <2>3 DEF WithDelayFunc
<1>10. CASE b.op = "HandleErrors"
  <2>1. configured(c, b) = Conditioned(c, HandleErrors(c.conditions, b.errs))
    BY <1>10, Calling, Zenon
  <2> QED BY <2>1, SetConditions, Zenon
<1>11. CASE b.op = "HandleErrorTypes"
  <2>1. configured(c, b) = Conditioned(c, HandleErrorTypes(c.conditions, b.types))
    BY <1>11, Calling, Zenon
  <2> QED BY <2>1, SetConditions, Zenon
<1>12. CASE b.op = "HandleResult"
  <2>1. configured(c, b) = Conditioned(c, HandleResult(c.conditions, b.result))
    BY <1>12, Calling, Zenon
  <2> QED BY <2>1, SetConditions, Zenon
<1>13. CASE b.op = "HandleIf"
  <2>1. configured(c, b) = Conditioned(c, HandleIf(c.conditions, b.name))
    BY <1>13, Calling, Zenon
  <2> QED BY <2>1, SetConditions, Zenon
<1>14. CASE b.op = "AbortOnErrors"
  <2>1. configured(c, b) = Conditioned(c, AbortOnErrors(c.conditions, b.errs))
    BY <1>14, Calling, Zenon
  <2> QED BY <2>1, SetConditions, Zenon
<1>15. CASE b.op = "AbortOnErrorTypes"
  <2>1. configured(c, b) = Conditioned(c, AbortOnErrorTypes(c.conditions, b.types))
    BY <1>15, Calling, Zenon
  <2> QED BY <2>1, SetConditions, Zenon
<1>16. CASE b.op = "AbortOnResult"
  <2>1. configured(c, b) = Conditioned(c, AbortOnResult(c.conditions, b.result))
    BY <1>16, Calling, Zenon
  <2> QED BY <2>1, SetConditions, Zenon
<1>17. CASE b.op = "AbortIf"
  <2>1. configured(c, b) = Conditioned(c, AbortIf(c.conditions, b.name))
    BY <1>17, Calling, Zenon
  <2> QED BY <2>1, SetConditions, Zenon
<1> QED BY <1>1, <1>2, <1>3, <1>4, <1>5, <1>6, <1>7, <1>8, <1>9, <1>10, <1>11, <1>12, <1>13, <1>14, <1>15,
        <1>16, <1>17 DEF Calls
-----------------------------------------------------------------------------
\* TypeOK apart from the configuration and the one Boolean.
RestOK ==
  /\ program \in Programs
  /\ called \in 0..Len(program.calls)
  /\ phase \in {"build", "run", "failed", "delay", "success", "aborted", "exceeded"}
  /\ elapsed \in Nat /\ attempts \in Nat \ {0} /\ failedAttempts \in 0..attempts
  /\ lastDelay \in Nat /\ drawn \in Int /\ delay \in Nat
  /\ backoffs \in Nat /\ late \in Nat

LEMMA Types1 == TypeOK <=> ConfigOK(config) /\ RestOK /\ computed \in BOOLEAN
<1>1. (DOMAIN config = DOMAIN retryBuilder) /\ config.maxRetries \in Int
        /\ config.delayFunc \in {"none", "http", "any"}
        /\ (\A f \in Numbers : config[f] \in Nat) <=> ConfigOK(config)
  BY DEF ConfigOK
<1> QED BY <1>1 DEF TypeOK, RestOK, Numbers

IInv == ConfigOK(config) /\ RestOK /\ computed \in BOOLEAN /\ LateInv /\ CountInv

\* What a program is.
LEMMA Program ==
  ASSUME NEW p \in Programs
  PROVE  /\ p.builder \in {"retrypolicy", "http", "grpc"}
         /\ p.calls \in Seq(Calls)
         /\ p.outcomes \subseteq [result : Results, err : Errors]
BY RetryAssumption

LEMMA Initial == Init => IInv
<1> SUFFICES ASSUME Init PROVE IInv
  OBVIOUS
<1>1. ConfigOK(config)
  <2>1. config \in {retryBuilder, httpBuilder, grpcBuilder}
    BY Program DEF Init
  <2> QED BY <2>1, Builders
<1>2. Len(program.calls) \in Nat
  BY Program DEF Init
<1>3. /\ program \in Programs /\ called = 0 /\ phase = "build"
      /\ elapsed = 0 /\ attempts = 1 /\ failedAttempts = 0 /\ lastDelay = 0
      /\ drawn = 0 /\ delay = 0 /\ backoffs = 0 /\ late = 0
  BY DEF Init
<1>4. RestOK
  BY <1>2, <1>3 DEF RestOK
<1>5. computed \in BOOLEAN
  BY Zenon DEF Init
<1>6. LateInv /\ CountInv
  BY <1>3 DEF LateInv, CountInv
<1> QED BY <1>1, <1>4, <1>5, <1>6 DEF IInv

LEMMA Building ==
  ASSUME IInv, callBuilder
  PROVE  IInv'
<1>1. program.calls[called + 1] \in Calls
  <2>1. program.calls \in Seq(Calls)
    BY Program DEF IInv, RestOK
  <2>2. called \in Nat /\ called < Len(program.calls) /\ Len(program.calls) \in Nat
    BY <2>1 DEF IInv, RestOK, callBuilder
  <2>3. called + 1 \in 1..Len(program.calls)
    BY <2>2
  <2> QED BY <2>1, <2>3
<1>2. ConfigOK(config)'
  BY <1>1, Configured DEF IInv, callBuilder
<1>3. RestOK'
  <2>1. Len(program.calls) \in Nat
    BY Program DEF IInv, RestOK
  <2> QED BY <2>1 DEF IInv, RestOK, callBuilder
<1> QED BY <1>2, <1>3 DEF IInv, callBuilder, LateInv, CountInv

LEMMA Built ==
  ASSUME IInv, Build
  PROVE  IInv'
<1>1. ConfigOK(config)'
  BY DEF IInv, Build
<1>2. RestOK'
  BY DEF IInv, RestOK, Build
<1> QED BY <1>1, <1>2 DEF IInv, Build, LateInv, CountInv

\* The function returns: a late attempt ends the execution, since more than
\* maxDuration has then passed.
LEMMA Returning ==
  ASSUME IInv, NEW o \in program.outcomes, NEW time \in 0..MaxRun, fnReturns(o, time)
  PROVE  IInv'
<1> USE DEF IInv
<1>1. config.maxDuration \in Nat /\ config.maxRetries \in Int
  BY DEF ConfigOK, Numbers
<1>2. time \in Nat
  BY RetryAssumption
<1>3. CASE ~IsFailure(config.conditions, o.result, o.err)
  <2>1. phase' = "success" /\ failedAttempts' = failedAttempts
    BY <1>3 DEF fnReturns
  <2>2. RestOK'
    BY <1>2, <2>1 DEF fnReturns, RestOK
  <2> QED BY <2>1, <2>2 DEF fnReturns, LateInv, CountInv
<1>4. CASE IsFailure(config.conditions, o.result, o.err)
  <2>1. /\ failedAttempts' = failedAttempts + 1
        /\ phase' \in {"exceeded", "failed", "aborted"}
        /\ exceeds(failedAttempts + 1, elapsed + time) => phase' = "exceeded"
    BY <1>4 DEF fnReturns
  <2>2. failedAttempts + 1 = attempts
    BY DEF CountInv, fnReturns
  <2>3. RestOK'
    BY <1>2, <2>1, <2>2 DEF fnReturns, RestOK
  <2>4. LateInv'
    <3>1. late = 1 => phase' = "exceeded"
      BY <1>1, <1>2, <2>1 DEF exceeds, LateInv, fnReturns, RestOK
    <3> QED BY <2>1, <3>1 DEF LateInv, fnReturns
  <2>5. CountInv'
    BY <2>1, <2>2 DEF CountInv, fnReturns
  <2>6. ConfigOK(config)' /\ computed' \in BOOLEAN
    BY DEF fnReturns
  <2> QED BY <2>3, <2>4, <2>5, <2>6
<1> QED BY <1>3, <1>4

\* What adjustForMaxDuration gives is never negative.
LEMMA Adjusted ==
  ASSUME NEW d \in Int, NEW time \in Nat, config.maxDuration \in Nat
  PROVE  adjustForMaxDuration(d, time) \in Nat
BY DEF adjustForMaxDuration, min, max

LEMMA JitterInt ==
  ASSUME NEW x \in Int, config.jitter \in Nat, config.jitterFactor \in Nat
  PROVE  adjustForJitter(x) \subseteq Int
<1>1. RandomDelay(x, config.jitter) \subseteq Int
  BY DEF RandomDelay
<1>2. RandomDelayFactor(x, config.jitterFactor) \subseteq Int
  <2> SUFFICES ASSUME NEW part \in (1 - config.jitterFactor)..config.jitterFactor
               PROVE  scaled(x, float32(One + part)) \in Int
    BY DEF RandomDelayFactor
  <2>1. One + part \in Int
    BY OnePositive
  <2>2. float32(One + part) \in Int
    BY <2>1, FloatInt
  <2> QED BY <2>2, ScaledInt
<1> QED BY <1>1, <1>2 DEF adjustForJitter

\* The delays before jitter and maxDuration.
LEMMA Drawn ==
  ASSUME IInv, NEW time, getDelay(time)
  PROVE  drawn' \in Int /\ lastDelay' \in Nat /\ backoffs' \in Nat
<1>1. /\ lastDelay \in Nat /\ backoffs \in Nat
      /\ \A f \in Numbers : config[f] \in Nat
  BY DEF IInv, RestOK, ConfigOK
<1>2. backoff \in Nat
  <2>1. config.delay \in Nat /\ config.maxDelay \in Nat /\ config.delayFactor \in Nat
    BY <1>1 DEF Numbers
  <2>2. scaled(lastDelay, config.delayFactor) \in Nat
    BY <1>1, <2>1, Scaled, Zenon
  <2> QED BY <2>1, <2>2 DEF backoff, min
<1>3. randomDelays \subseteq Int
  BY <1>1 DEF randomDelays, min, max, Numbers
<1>4. ComputeDelay \subseteq Int
  BY DEF ComputeDelay, NoDelay, httpDelay, ConfigOK, IInv
<1>5. PICK c \in ComputeDelay :
        \/ drawn' = c /\ lastDelay' = lastDelay /\ backoffs' = backoffs
        \/ drawn' = backoff /\ lastDelay' = backoff /\ backoffs' = backoffs + 1
        \/ drawn' \in randomDelays /\ lastDelay' = lastDelay /\ backoffs' = backoffs
  BY DEF getDelay
<1>6. drawn' \in ComputeDelay \/ drawn' = backoff \/ drawn' \in randomDelays
  BY <1>5
<1>7. drawn' \in Int
  <2>1. CASE drawn' \in ComputeDelay
    BY <2>1, <1>4
  <2>2. CASE drawn' = backoff
    BY <2>2, <1>2
  <2>3. CASE drawn' \in randomDelays
    BY <2>3, <1>3
  <2> QED BY <1>6, <2>1, <2>2, <2>3
<1>8. lastDelay' \in {lastDelay, backoff} /\ backoffs' \in {backoffs, backoffs + 1}
  BY <1>5
<1>9. lastDelay' \in Nat /\ backoffs' \in Nat
  BY <1>1, <1>2, <1>8
<1> QED BY <1>7, <1>9

LEMMA Delaying ==
  ASSUME IInv, NEW time \in 0..MaxLate, getDelay(time)
  PROVE  IInv'
<1>0. drawn' \in Int /\ lastDelay' \in Nat /\ backoffs' \in Nat
  BY Drawn
<1> USE DEF IInv
<1>1. /\ \A f \in Numbers : config[f] \in Nat
      /\ time \in Nat /\ elapsed' = elapsed + time /\ elapsed' \in Nat
  BY RetryAssumption DEF ConfigOK, RestOK, getDelay
<1>2. config.maxDuration \in Nat /\ config.jitter \in Nat /\ config.jitterFactor \in Nat
  BY <1>1 DEF Numbers
<1>3. adjustForJitter(drawn') \subseteq Int
  <2> DEFINE x == drawn'
  <2>1. x \in Int
    BY <1>0
  <2> HIDE DEF x
  <2>2. adjustForJitter(x) \subseteq Int
    BY <1>2, <2>1, JitterInt
  <2> QED BY <2>2 DEF x
<1>4. PICK d \in Int : delay' = adjustForMaxDuration(d, elapsed')
  BY <1>3 DEF getDelay
<1>5. delay' \in Nat
  BY <1>1, <1>2, <1>4, Adjusted
<1>6. ConfigOK(config)' /\ computed' \in BOOLEAN
  BY DEF getDelay
<1>7. RestOK'
  BY <1>0, <1>1, <1>5 DEF RestOK, getDelay
<1>8. LateInv' /\ CountInv'
  BY <1>5 DEF LateInv, CountInv, getDelay
<1> QED BY <1>6, <1>7, <1>8

LEMMA Retrying ==
  ASSUME IInv, NEW time \in 0..MaxLate, timerFires(time)
  PROVE  IInv'
<1> USE DEF IInv
<1>1. time \in Nat /\ config.maxDuration \in Nat
  BY RetryAssumption DEF ConfigOK, Numbers
<1>2. ConfigOK(config)' /\ computed' \in BOOLEAN
  BY DEF timerFires
<1>3. late = 0 /\ failedAttempts = attempts
  BY DEF LateInv, CountInv, timerFires
<1>4. RestOK'
  BY <1>1, <1>3 DEF RestOK, timerFires
<1>5. LateInv'
  BY <1>1, <1>3 DEF LateInv, timerFires
<1>6. CountInv'
  BY <1>3 DEF CountInv, timerFires
<1> QED BY <1>2, <1>4, <1>5, <1>6

LEMMA Stuttering ==
  ASSUME IInv, UNCHANGED vars
  PROVE  IInv'
<1>1. ConfigOK(config)' /\ computed' \in BOOLEAN /\ RestOK'
  BY DEF IInv, vars, RestOK
<1>2. LateInv' /\ CountInv'
  BY DEF IInv, vars, LateInv, CountInv
<1> QED BY <1>1, <1>2 DEF IInv

LEMMA Inductive == IInv /\ [Next]_vars => IInv'
<1> SUFFICES ASSUME IInv, [Next]_vars
             PROVE  IInv'
  OBVIOUS
<1>1. CASE callBuilder
  BY <1>1, Building
<1>2. CASE Build
  BY <1>2, Built
<1>3. CASE \E o \in program.outcomes, time \in 0..MaxRun : fnReturns(o, time)
  BY <1>3, Returning
<1>4. CASE \E time \in 0..MaxLate : getDelay(time)
  BY <1>4, Delaying
<1>5. CASE \E time \in 0..MaxLate : timerFires(time)
  BY <1>5, Retrying
<1>6. CASE UNCHANGED vars
  BY <1>6, Stuttering
<1> QED BY <1>1, <1>2, <1>3, <1>4, <1>5, <1>6 DEF Next, Terminated

(***************************************************************************)
(* At most one attempt begins after maxDuration: the one whose timer was   *)
(* late, after which OnFailure finds the time exceeded.                    *)
(***************************************************************************)
THEOREM LateAttempts == Spec => []OneLateAttempt
<1>1. IInv => OneLateAttempt
  BY DEF IInv, LateInv, OneLateAttempt
<1> QED BY <1>1, Initial, Inductive, PTL DEF Spec
-----------------------------------------------------------------------------
(***************************************************************************)
(* The builder.  A call sets the fields in Sets and keeps the others.      *)
(***************************************************************************)
Sets(op) ==
  CASE op \in LimitOps -> {"maxRetries"}
    [] op = "WithMaxDuration" -> {"maxDuration"}
    [] op = "WithDelay" -> {"delay"}
    [] op = "WithDelayFunc" -> {"delayFunc"}
    [] op = "WithJitter" -> {"jitter"}
    [] op = "WithJitterFactor" -> {"jitterFactor"}
    [] op = "WithBackoffFactor" -> {"delay", "maxDelay", "delayFactor", "delayMin", "delayMax"}
    [] op = "WithRandomDelay" -> {"delay", "maxDelay", "delayMin", "delayMax"}
    [] OTHER -> {"conditions"}

ConditionOps == {"HandleErrors", "HandleErrorTypes", "HandleResult", "HandleIf",
                 "AbortOnErrors", "AbortOnErrorTypes", "AbortOnResult", "AbortIf"}

LEMMA Kept ==
  ASSUME NEW c, ConfigOK(c), NEW b \in Calls, NEW f \in DOMAIN retryBuilder \ Sets(b.op)
  PROVE  configured(c, b)[f] = c[f]
<1>0. f \in DOMAIN c
  BY DEF ConfigOK
<1>1. CASE b.op = "WithMaxAttempts"
  <2>1. configured(c, b) = WithMaxAttempts(c, b.n)
    BY <1>1, Calling, Zenon
  <2>2. f # "maxRetries"
    BY <1>1 DEF Sets, LimitOps
  <2> QED BY <1>0, <2>1, <2>2 DEF WithMaxAttempts
<1>2. CASE b.op = "WithMaxRetries"
  <2>1. configured(c, b) = WithMaxRetries(c, b.n)
    BY <1>2, Calling, Zenon
  <2>2. f # "maxRetries"
    BY <1>2 DEF Sets, LimitOps
  <2> QED BY <1>0, <2>1, <2>2 DEF WithMaxRetries
<1>3. CASE b.op = "WithMaxDuration"
  <2>1. configured(c, b) = WithMaxDuration(c, b.d)
    BY <1>3, Calling, Zenon
  <2>2. f # "maxDuration"
    BY <1>3 DEF Sets, LimitOps
  <2> QED BY <1>0, <2>1, <2>2 DEF WithMaxDuration
<1>4. CASE b.op = "WithDelay"
  <2>1. configured(c, b) = WithDelay(c, b.d)
    BY <1>4, Calling, Zenon
  <2>2. f # "delay"
    BY <1>4 DEF Sets, LimitOps
  <2> QED BY <1>0, <2>1, <2>2 DEF WithDelay
<1>5. CASE b.op = "WithDelayFunc"
  <2>1. configured(c, b) = WithDelayFunc(c, b.name)
    BY <1>5, Calling, Zenon
  <2>2. f # "delayFunc"
    BY <1>5 DEF Sets, LimitOps
  <2> QED BY <1>0, <2>1, <2>2 DEF WithDelayFunc
<1>6. CASE b.op = "WithJitter"
  <2>1. configured(c, b) = WithJitter(c, b.d)
    BY <1>6, Calling, Zenon
  <2>2. f # "jitter"
    BY <1>6 DEF Sets, LimitOps
  <2> QED BY <1>0, <2>1, <2>2 DEF WithJitter
<1>7. CASE b.op = "WithJitterFactor"
  <2>1. configured(c, b) = WithJitterFactor(c, b.d)
    BY <1>7, Calling, Zenon
  <2>2. f # "jitterFactor"
    BY <1>7 DEF Sets, LimitOps
  <2> QED BY <1>0, <2>1, <2>2 DEF WithJitterFactor
<1>8. CASE b.op = "WithBackoffFactor"
  <2>1. configured(c, b) = WithBackoffFactor(c, b.d, b.max, b.factor)
    BY <1>8, Calling, Zenon
  <2>2. f \notin {"delay", "maxDelay", "delayMin", "delayMax", "delayFactor"}
    BY <1>8 DEF Sets, LimitOps
  <2> QED BY <1>0, <2>1, <2>2, Zenon DEF WithBackoffFactor
<1>9. CASE b.op = "WithRandomDelay"
  <2>1. configured(c, b) = WithRandomDelay(c, b.min, b.max)
    BY <1>9, Calling, Zenon
  <2>2. f \notin {"delay", "maxDelay", "delayMin", "delayMax"}
    BY <1>9 DEF Sets, LimitOps
  <2> QED BY <1>0, <2>1, <2>2, Zenon DEF WithRandomDelay
<1>10. CASE b.op \in ConditionOps
  <2>1. PICK p : configured(c, b) = Conditioned(c, p)
    <3>1. b.op = "HandleErrors" => configured(c, b) = Conditioned(c, HandleErrors(c.conditions, b.errs))
      BY Calling, Zenon
    <3>2. b.op = "HandleErrorTypes" => configured(c, b) = Conditioned(c, HandleErrorTypes(c.conditions, b.types))
      BY Calling, Zenon
    <3>3. b.op = "HandleResult" => configured(c, b) = Conditioned(c, HandleResult(c.conditions, b.result))
      BY Calling, Zenon
    <3>4. b.op = "HandleIf" => configured(c, b) = Conditioned(c, HandleIf(c.conditions, b.name))
      BY Calling, Zenon
    <3>5. b.op = "AbortOnErrors" => configured(c, b) = Conditioned(c, AbortOnErrors(c.conditions, b.errs))
      BY Calling, Zenon
    <3>6. b.op = "AbortOnErrorTypes" => configured(c, b) = Conditioned(c, AbortOnErrorTypes(c.conditions, b.types))
      BY Calling, Zenon
    <3>7. b.op = "AbortOnResult" => configured(c, b) = Conditioned(c, AbortOnResult(c.conditions, b.result))
      BY Calling, Zenon
    <3>8. b.op = "AbortIf" => configured(c, b) = Conditioned(c, AbortIf(c.conditions, b.name))
      BY Calling, Zenon
    <3> QED BY <1>10, <3>1, <3>2, <3>3, <3>4, <3>5, <3>6, <3>7, <3>8, Zenon DEF ConditionOps
  <2>2. f # "conditions"
    BY <1>10 DEF Sets, LimitOps, ConditionOps
  <2> QED BY <1>0, <2>1, <2>2 DEF Conditioned
<1> QED BY <1>1, <1>2, <1>3, <1>4, <1>5, <1>6, <1>7, <1>8, <1>9, <1>10 DEF Calls, ConditionOps

\* What a call sets its fields to.
LEMMA MaxRetriesSet ==
  ASSUME NEW c, ConfigOK(c), NEW b \in Calls, b.op \in LimitOps
  PROVE  configured(c, b).maxRetries = LimitOf(b) - 1
<1>1. b.n \in Int /\ "maxRetries" \in DOMAIN c
  BY CallArguments, Fields DEF LimitOps, ConfigOK
<1>2. CASE b.op = "WithMaxAttempts"
  <2>1. configured(c, b) = WithMaxAttempts(c, b.n)
    BY <1>2, Calling, Zenon
  <2> QED BY <1>1, <1>2, <2>1 DEF WithMaxAttempts, LimitOf
<1>3. CASE b.op = "WithMaxRetries"
  <2>1. configured(c, b) = WithMaxRetries(c, b.n)
    BY <1>3, Calling, Zenon
  <2> QED BY <1>1, <1>3, <2>1 DEF WithMaxRetries, LimitOf
<1> QED BY <1>2, <1>3 DEF LimitOps

DelayOf(b) == IF b.op = "WithRandomDelay" THEN 0 ELSE b.d

\* What the last of WithBackoff and WithRandomDelay leaves behind.
Clearing == {"WithBackoffFactor", "WithRandomDelay"}
Cleared(c, b) ==
  /\ b.op = "WithRandomDelay" => c.maxDelay = 0 /\ c.delayMin = b.min /\ c.delayMax = b.max
  /\ b.op = "WithBackoffFactor" =>
       c.maxDelay = b.max /\ c.delayFactor = b.factor /\ c.delayMin = 0 /\ c.delayMax = 0

LEMMA DelayFieldsSet ==
  ASSUME NEW c, ConfigOK(c), NEW b \in Calls
  PROVE  /\ b.op \in DelaySetters => configured(c, b).delay = DelayOf(b)
         /\ b.op \in Clearing => Cleared(configured(c, b), b)
<1>1. Numbers \subseteq DOMAIN c
  BY Fields DEF ConfigOK
<1>2. CASE b.op = "WithDelay"
  <2>1. configured(c, b) = WithDelay(c, b.d)
    BY <1>2, Calling, Zenon
  <2> QED BY <1>1, <1>2, <2>1 DEF WithDelay, DelayOf, Clearing, Numbers
<1>3. CASE b.op = "WithBackoffFactor"
  <2>1. configured(c, b) = WithBackoffFactor(c, b.d, b.max, b.factor)
    BY <1>3, Calling, Zenon
  <2> QED BY <1>1, <1>3, <2>1 DEF WithBackoffFactor, DelayOf, Cleared, Numbers
<1>4. CASE b.op = "WithRandomDelay"
  <2>1. configured(c, b) = WithRandomDelay(c, b.min, b.max)
    BY <1>4, Calling, Zenon
  <2> QED BY <1>1, <1>4, <2>1 DEF WithRandomDelay, DelayOf, Cleared, Numbers
<1> QED BY <1>2, <1>3, <1>4 DEF DelaySetters, Clearing

(***************************************************************************)
(* What the calls made so far have left in the fields: the last call of a  *)
(* kind decides.                                                           *)
(***************************************************************************)
Upto(n, ops) == {i \in 1..n : program.calls[i].op \in ops}
IsLast(i, S) == i \in S /\ \A j \in S : j <= i

LimitSet ==
  \/ Upto(called, LimitOps) = {} /\ config.maxRetries = 2
  \/ \E i : IsLast(i, Upto(called, LimitOps)) /\ config.maxRetries = LimitOf(program.calls[i]) - 1

DelaySet ==
  \/ Upto(called, DelaySetters) = {} /\ config.delay = 0
  \/ \E i : IsLast(i, Upto(called, DelaySetters)) /\ config.delay = DelayOf(program.calls[i])

RangeSet ==
  \/ Upto(called, Clearing) = {} /\ config.delayMin = 0 /\ config.delayMax = 0 /\ config.maxDelay = 0
  \/ \E i : IsLast(i, Upto(called, Clearing)) /\ Cleared(config, program.calls[i])

LEMMA Grows ==
  ASSUME NEW n \in Nat, NEW ops
  PROVE  /\ program.calls[n + 1].op \in ops => IsLast(n + 1, Upto(n + 1, ops))
         /\ program.calls[n + 1].op \notin ops => Upto(n + 1, ops) = Upto(n, ops)
<1>1. 1..(n + 1) = (1..n) \cup {n + 1}
  OBVIOUS
<1>2. program.calls[n + 1].op \in ops => n + 1 \in Upto(n + 1, ops)
  BY DEF Upto
<1>3. \A j \in Upto(n + 1, ops) : j <= n + 1
  BY DEF Upto
<1>4. program.calls[n + 1].op \notin ops => Upto(n + 1, ops) = Upto(n, ops)
  BY <1>1 DEF Upto
<1> QED BY <1>2, <1>3, <1>4 DEF IsLast

\* The call that is made next.
LEMMA NextCall ==
  ASSUME IInv, callBuilder
  PROVE  program.calls[called + 1] \in Calls /\ called \in Nat
<1>1. program.calls \in Seq(Calls)
  BY Program DEF IInv, RestOK
<1>2. called \in Nat /\ called < Len(program.calls) /\ Len(program.calls) \in Nat
  BY <1>1 DEF IInv, RestOK, callBuilder
<1>3. called + 1 \in 1..Len(program.calls)
  BY <1>2
<1> QED BY <1>1, <1>2, <1>3

\* The numbers that one call each sets.
Setters == {<<"WithJitter", "jitter">>, <<"WithJitterFactor", "jitterFactor">>,
            <<"WithMaxDuration", "maxDuration">>}

GivenIn(op, field) ==
  \/ Upto(called, {op}) = {} /\ config[field] = 0
  \/ \E i : IsLast(i, Upto(called, {op})) /\ config[field] = program.calls[i].d

LEMMA GivenCalled ==
  ASSUME IInv, callBuilder, NEW op, NEW field, <<op, field>> \in Setters, GivenIn(op, field)
  PROVE  GivenIn(op, field)'
<1> DEFINE b == program.calls[called + 1]
<1>1. b \in Calls /\ called \in Nat /\ ConfigOK(config)
  BY NextCall DEF IInv
<1>2. config' = configured(config, b) /\ called' = called + 1 /\ program' = program
  BY DEF callBuilder
<1>3. field \in DOMAIN config
  BY <1>1, Fields DEF ConfigOK, Setters, Numbers
<1>4. CASE b.op = op
  <2>1. configured(config, b) = [config EXCEPT ![field] = b.d]
    <3>1. CASE op = "WithJitter"
      <4>1. configured(config, b) = WithJitter(config, b.d) /\ field = "jitter"
        BY <1>4, <3>1, Calling DEF Setters
      <4> QED BY <4>1 DEF WithJitter
    <3>2. CASE op = "WithJitterFactor"
      <4>1. configured(config, b) = WithJitterFactor(config, b.d) /\ field = "jitterFactor"
        BY <1>4, <3>2, Calling DEF Setters
      <4> QED BY <4>1 DEF WithJitterFactor
    <3>3. CASE op = "WithMaxDuration"
      <4>1. configured(config, b) = WithMaxDuration(config, b.d) /\ field = "maxDuration"
        BY <1>4, <3>3, Calling DEF Setters
      <4> QED BY <4>1 DEF WithMaxDuration
    <3> QED BY <3>1, <3>2, <3>3 DEF Setters
  <2>2. config'[field] = b.d
    BY <1>2, <1>3, <2>1
  <2>3. IsLast(called + 1, Upto(called + 1, {op}))
    BY <1>1, <1>4, Grows
  <2> QED BY <1>2, <2>2, <2>3 DEF GivenIn, IsLast, Upto
<1>5. CASE b.op # op
  <2>1. field \in DOMAIN retryBuilder \ Sets(b.op)
    <3>1. field \in DOMAIN retryBuilder
      BY Fields DEF Setters, Numbers
    <3>2. field \notin Sets(b.op)
      BY <1>5 DEF Sets, LimitOps, Setters
    <3> QED BY <3>1, <3>2
  <2>2. config'[field] = config[field]
    BY <1>1, <1>2, <2>1, Kept
  <2>3. Upto(called', {op}) = Upto(called, {op})
    BY <1>1, <1>2, <1>5, Grows, Zenon
  <2> QED BY <1>2, <2>2, <2>3, SMTT(20) DEF GivenIn, IsLast, Upto
<1> QED BY <1>4, <1>5

LEMMA LimitCalled ==
  ASSUME IInv, callBuilder, LimitSet
  PROVE  LimitSet'
<1> DEFINE b == program.calls[called + 1]
<1>1. b \in Calls /\ called \in Nat /\ ConfigOK(config)
  BY NextCall DEF IInv
<1>2. config' = configured(config, b) /\ called' = called + 1 /\ program' = program
  BY DEF callBuilder
<1>3. CASE b.op \in LimitOps
  <2>1. config'.maxRetries = LimitOf(b) - 1
    BY <1>1, <1>2, <1>3, MaxRetriesSet
  <2>2. IsLast(called + 1, Upto(called + 1, LimitOps))
    BY <1>1, <1>3, Grows
  <2> QED BY <1>2, <2>1, <2>2 DEF LimitSet, IsLast, Upto
<1>4. CASE b.op \notin LimitOps
  <2>1. "maxRetries" \in DOMAIN retryBuilder \ Sets(b.op)
    BY <1>4, Fields DEF Sets, LimitOps
  <2>2. config'.maxRetries = config.maxRetries
    BY <1>1, <1>2, <2>1, Kept
  <2>3. Upto(called', LimitOps) = Upto(called, LimitOps)
    BY <1>1, <1>2, <1>4, Grows
  <2> QED BY <1>2, <2>2, <2>3 DEF LimitSet, IsLast, Upto
<1> QED BY <1>3, <1>4

LEMMA DelayCalled ==
  ASSUME IInv, callBuilder, DelaySet
  PROVE  DelaySet'
<1> DEFINE b == program.calls[called + 1]
<1>1. b \in Calls /\ called \in Nat /\ ConfigOK(config)
  BY NextCall DEF IInv
<1>2. config' = configured(config, b) /\ called' = called + 1 /\ program' = program
  BY DEF callBuilder
<1>3. CASE b.op \in DelaySetters
  <2>1. config'.delay = DelayOf(b)
    BY <1>1, <1>2, <1>3, DelayFieldsSet
  <2>2. IsLast(called + 1, Upto(called + 1, DelaySetters))
    BY <1>1, <1>3, Grows
  <2> QED BY <1>2, <2>1, <2>2 DEF DelaySet, IsLast, Upto
<1>4. CASE b.op \notin DelaySetters
  <2>1. "delay" \in DOMAIN retryBuilder \ Sets(b.op)
    BY <1>4, Fields DEF Sets, LimitOps, DelaySetters, Numbers
  <2>2. config'.delay = config.delay
    BY <1>1, <1>2, <2>1, Kept
  <2>3. Upto(called', DelaySetters) = Upto(called, DelaySetters)
    BY <1>1, <1>2, <1>4, Grows
  <2> QED BY <1>2, <2>2, <2>3, SMTT(20) DEF DelaySet, IsLast, Upto
<1> QED BY <1>3, <1>4

LEMMA RangeCalled ==
  ASSUME IInv, callBuilder, RangeSet
  PROVE  RangeSet'
<1> DEFINE b == program.calls[called + 1]
           fields == {"delayMin", "delayMax", "maxDelay", "delayFactor"}
<1>1. b \in Calls /\ called \in Nat /\ ConfigOK(config)
  BY NextCall DEF IInv
<1>2. config' = configured(config, b) /\ called' = called + 1 /\ program' = program
  BY DEF callBuilder
<1>3. CASE b.op \in Clearing
  <2>1. Cleared(config', b)
    BY <1>1, <1>2, <1>3, DelayFieldsSet
  <2>2. IsLast(called + 1, Upto(called + 1, Clearing))
    BY <1>1, <1>3, Grows
  <2> QED BY <1>2, <2>1, <2>2 DEF RangeSet, IsLast, Upto
<1>4. CASE b.op \notin Clearing
  <2>1. \A f \in fields : f \in DOMAIN retryBuilder \ Sets(b.op)
    BY <1>4, Fields DEF Sets, LimitOps, Clearing, Numbers
  <2>2. \A f \in fields : config'[f] = config[f]
    BY <1>1, <1>2, <2>1, Kept
  <2>3. /\ config'.delayMin = config.delayMin /\ config'.delayMax = config.delayMax
        /\ config'.maxDelay = config.maxDelay /\ config'.delayFactor = config.delayFactor
    BY <2>2
  <2>4. Upto(called', Clearing) = Upto(called, Clearing)
    BY <1>1, <1>2, <1>4, Grows, SMTT(20)
  <2>5. \A i : Cleared(config, program.calls[i]) => Cleared(config', program.calls[i])
    BY <2>3 DEF Cleared
  <2> QED BY <1>2, <2>3, <2>4, <2>5, SMTT(20) DEF RangeSet, IsLast, Upto
<1> QED BY <1>3, <1>4

(***************************************************************************)
(* The conditions: every call adds its own.                                *)
(***************************************************************************)
CondOK(p) == DOMAIN p = {"failure", "errorsChecked", "abort"} /\ p.errorsChecked \in BOOLEAN

ErrorOps == {"HandleErrors", "HandleErrorTypes", "HandleIf"}
Kinds(kind, ofs) == {[kind |-> kind, of |-> x] : x \in ofs}

FailureOf(b) ==
  CASE b.op = "HandleErrors" -> Kinds("error", b.errs)
    [] b.op = "HandleErrorTypes" -> Kinds("type", b.types)
    [] b.op = "HandleResult" -> Kinds("result", {b.result})
    [] b.op = "HandleIf" -> Kinds("if", {b.name})
    [] OTHER -> {}
AbortOf(b) ==
  CASE b.op = "AbortOnErrors" -> Kinds("error", b.errs)
    [] b.op = "AbortOnErrorTypes" -> Kinds("type", b.types)
    [] b.op = "AbortOnResult" -> Kinds("result", {b.result})
    [] b.op = "AbortIf" -> Kinds("if", {b.name})
    [] OTHER -> {}

Adds(p, q, b) ==
  /\ CondOK(q)
  /\ q.failure = p.failure \cup FailureOf(b)
  /\ q.abort = p.abort \cup AbortOf(b)
  /\ q.errorsChecked <=> p.errorsChecked \/ b.op \in ErrorOps

\* The three ways in which a call changes the conditions.
FailsErrors(p, K) == [p EXCEPT !.failure = p.failure \cup K, !.errorsChecked = TRUE]
Fails(p, K) == [p EXCEPT !.failure = p.failure \cup K]
Aborts(p, K) == [p EXCEPT !.abort = p.abort \cup K]

LEMMA Changes ==
  ASSUME NEW p, CondOK(p), NEW K
  PROVE  /\ /\ CondOK(FailsErrors(p, K)) /\ FailsErrors(p, K).errorsChecked
            /\ FailsErrors(p, K).failure = p.failure \cup K /\ FailsErrors(p, K).abort = p.abort
         /\ /\ CondOK(Fails(p, K)) /\ Fails(p, K).errorsChecked = p.errorsChecked
            /\ Fails(p, K).failure = p.failure \cup K /\ Fails(p, K).abort = p.abort
         /\ /\ CondOK(Aborts(p, K)) /\ Aborts(p, K).errorsChecked = p.errorsChecked
            /\ Aborts(p, K).failure = p.failure /\ Aborts(p, K).abort = p.abort \cup K
<1>1. /\ CondOK(FailsErrors(p, K)) /\ FailsErrors(p, K).errorsChecked
      /\ FailsErrors(p, K).failure = p.failure \cup K /\ FailsErrors(p, K).abort = p.abort
  BY DEF CondOK, FailsErrors
<1>2. /\ CondOK(Fails(p, K)) /\ Fails(p, K).errorsChecked = p.errorsChecked
      /\ Fails(p, K).failure = p.failure \cup K /\ Fails(p, K).abort = p.abort
  BY DEF CondOK, Fails
<1>3. /\ CondOK(Aborts(p, K)) /\ Aborts(p, K).errorsChecked = p.errorsChecked
      /\ Aborts(p, K).failure = p.failure /\ Aborts(p, K).abort = p.abort \cup K
  BY DEF CondOK, Aborts
<1> QED BY <1>1, <1>2, <1>3

LEMMA AddsErrors ==
  ASSUME NEW p, CondOK(p), NEW b, b.op \in ErrorOps, AbortOf(b) = {}
  PROVE  Adds(p, FailsErrors(p, FailureOf(b)), b)
BY Changes DEF Adds

LEMMA AddsResult ==
  ASSUME NEW p, CondOK(p), NEW b, b.op \notin ErrorOps, AbortOf(b) = {}
  PROVE  Adds(p, Fails(p, FailureOf(b)), b)
BY Changes DEF Adds

LEMMA AddsAbort ==
  ASSUME NEW p, CondOK(p), NEW b, b.op \notin ErrorOps, FailureOf(b) = {}
  PROVE  Adds(p, Aborts(p, AbortOf(b)), b)
BY Changes DEF Adds

LEMMA ConditionsSet ==
  ASSUME NEW c, ConfigOK(c), CondOK(c.conditions), NEW b \in Calls
  PROVE  Adds(c.conditions, configured(c, b).conditions, b)
<1> DEFINE p == c.conditions
<1>1. "conditions" \in DOMAIN c
  BY Fields DEF ConfigOK
<1>2. \A q : Conditioned(c, q).conditions = q
  BY <1>1 DEF Conditioned
<1>4. CASE b.op \notin ConditionOps
  <2>1. "conditions" \in DOMAIN retryBuilder \ Sets(b.op)
    BY <1>4, Fields DEF Sets, LimitOps, ConditionOps, Calls
  <2>2. configured(c, b).conditions = p
    BY <2>1, Kept, Zenon
  <2>3. FailureOf(b) = {} /\ AbortOf(b) = {} /\ b.op \notin ErrorOps
    BY <1>4 DEF FailureOf, AbortOf, ErrorOps, ConditionOps
  <2> QED BY <2>2, <2>3 DEF Adds
<1>5. CASE b.op = "HandleErrors"
  <2>1. configured(c, b).conditions = HandleErrors(p, b.errs)
    BY <1>5, <1>2, Calling, Zenon
  <2>2. FailureOf(b) = Kinds("error", b.errs) /\ AbortOf(b) = {} /\ (b.op \in ErrorOps <=> TRUE)
    BY <1>5 DEF FailureOf, AbortOf, ErrorOps
  <2>3. HandleErrors(p, b.errs) = FailsErrors(p, Kinds("error", b.errs))
    BY DEF HandleErrors, FailsErrors, Kinds
  <2> QED BY <2>1, <2>2, <2>3, AddsErrors, Zenon
<1>6. CASE b.op = "HandleErrorTypes"
  <2>1. configured(c, b).conditions = HandleErrorTypes(p, b.types)
    BY <1>6, <1>2, Calling, Zenon
  <2>2. FailureOf(b) = Kinds("type", b.types) /\ AbortOf(b) = {} /\ (b.op \in ErrorOps <=> TRUE)
    BY <1>6 DEF FailureOf, AbortOf, ErrorOps
  <2>3. HandleErrorTypes(p, b.types) = FailsErrors(p, Kinds("type", b.types))
    BY DEF HandleErrorTypes, FailsErrors, Kinds
  <2> QED BY <2>1, <2>2, <2>3, AddsErrors, Zenon
<1>7. CASE b.op = "HandleResult"
  <2>1. configured(c, b).conditions = HandleResult(p, b.result)
    BY <1>7, <1>2, Calling, Zenon
  <2>2. FailureOf(b) = Kinds("result", {b.result}) /\ AbortOf(b) = {} /\ (b.op \in ErrorOps <=> FALSE)
    BY <1>7 DEF FailureOf, AbortOf, ErrorOps
  <2>3. HandleResult(p, b.result) = Fails(p, Kinds("result", {b.result}))
    BY DEF HandleResult, Fails, Kinds
  <2> QED BY <2>1, <2>2, <2>3, AddsResult, Zenon
<1>8. CASE b.op = "HandleIf"
  <2>1. configured(c, b).conditions = HandleIf(p, b.name)
    BY <1>8, <1>2, Calling, Zenon
  <2>2. FailureOf(b) = Kinds("if", {b.name}) /\ AbortOf(b) = {} /\ (b.op \in ErrorOps <=> TRUE)
    BY <1>8 DEF FailureOf, AbortOf, ErrorOps
  <2>3. HandleIf(p, b.name) = FailsErrors(p, Kinds("if", {b.name}))
    BY Zenon DEF HandleIf, FailsErrors, Kinds
  <2> QED BY <2>1, <2>2, <2>3, AddsErrors, Zenon
<1>9. CASE b.op = "AbortOnErrors"
  <2>1. configured(c, b).conditions = AbortOnErrors(p, b.errs)
    BY <1>9, <1>2, Calling, Zenon
  <2>2. FailureOf(b) = {} /\ AbortOf(b) = Kinds("error", b.errs) /\ (b.op \in ErrorOps <=> FALSE)
    BY <1>9 DEF FailureOf, AbortOf, ErrorOps
  <2>3. AbortOnErrors(p, b.errs) = Aborts(p, Kinds("error", b.errs))
    BY DEF AbortOnErrors, Aborts, Kinds
  <2> QED BY <2>1, <2>2, <2>3, AddsAbort, Zenon
<1>10. CASE b.op = "AbortOnErrorTypes"
  <2>1. configured(c, b).conditions = AbortOnErrorTypes(p, b.types)
    BY <1>10, <1>2, Calling, Zenon
  <2>2. FailureOf(b) = {} /\ AbortOf(b) = Kinds("type", b.types) /\ (b.op \in ErrorOps <=> FALSE)
    BY <1>10 DEF FailureOf, AbortOf, ErrorOps
  <2>3. AbortOnErrorTypes(p, b.types) = Aborts(p, Kinds("type", b.types))
    BY DEF AbortOnErrorTypes, Aborts, Kinds
  <2> QED BY <2>1, <2>2, <2>3, AddsAbort, Zenon
<1>11. CASE b.op = "AbortOnResult"
  <2>1. configured(c, b).conditions = AbortOnResult(p, b.result)
    BY <1>11, <1>2, Calling, Zenon
  <2>2. FailureOf(b) = {} /\ AbortOf(b) = Kinds("result", {b.result}) /\ (b.op \in ErrorOps <=> FALSE)
    BY <1>11 DEF FailureOf, AbortOf, ErrorOps
  <2>3. AbortOnResult(p, b.result) = Aborts(p, Kinds("result", {b.result}))
    BY DEF AbortOnResult, Aborts, Kinds
  <2> QED BY <2>1, <2>2, <2>3, AddsAbort, Zenon
<1>12. CASE b.op = "AbortIf"
  <2>1. configured(c, b).conditions = AbortIf(p, b.name)
    BY <1>12, <1>2, Calling, Zenon
  <2>2. FailureOf(b) = {} /\ AbortOf(b) = Kinds("if", {b.name}) /\ (b.op \in ErrorOps <=> FALSE)
    BY <1>12 DEF FailureOf, AbortOf, ErrorOps
  <2>3. AbortIf(p, b.name) = Aborts(p, Kinds("if", {b.name}))
    BY DEF AbortIf, Aborts, Kinds
  <2> QED BY <2>1, <2>2, <2>3, AddsAbort, Zenon
<1> QED BY <1>4, <1>5, <1>6, <1>7, <1>8, <1>9, <1>10, <1>11, <1>12 DEF ConditionOps

BaseFailure ==
  IF program.builder = "retrypolicy" THEN {} ELSE Kinds("if", {program.builder})
BaseAbort == IF program.builder = "http" THEN Kinds("error", {"canceled"}) ELSE {}

FailuresUpto(n) == BaseFailure \cup UNION {FailureOf(program.calls[i]) : i \in 1..n}
AbortsUpto(n) == BaseAbort \cup UNION {AbortOf(program.calls[i]) : i \in 1..n}

CondSet ==
  /\ CondOK(config.conditions)
  /\ config.conditions.failure = FailuresUpto(called)
  /\ config.conditions.abort = AbortsUpto(called)
  /\ config.conditions.errorsChecked <=> program.builder # "retrypolicy" \/ Upto(called, ErrorOps) # {}

LEMMA CondCalled ==
  ASSUME IInv, callBuilder, CondSet
  PROVE  CondSet'
<1> DEFINE b == program.calls[called + 1]
           p == config.conditions
           q == configured(config, b).conditions
<1>1. b \in Calls /\ called \in Nat /\ ConfigOK(config)
  BY NextCall DEF IInv
<1>2. config'.conditions = q /\ called' = called + 1 /\ program' = program
  BY DEF callBuilder
<1>3. Adds(p, q, b)
  BY <1>1, ConditionsSet, Zenon DEF CondSet
<1>4. 1..(called + 1) = (1..called) \cup {called + 1}
  BY <1>1
<1>5. FailuresUpto(called + 1) = FailuresUpto(called) \cup FailureOf(b)
  BY <1>4 DEF FailuresUpto
<1>6. AbortsUpto(called + 1) = AbortsUpto(called) \cup AbortOf(b)
  BY <1>4 DEF AbortsUpto
<1>7. Upto(called + 1, ErrorOps) # {} <=> Upto(called, ErrorOps) # {} \/ b.op \in ErrorOps
  BY <1>4 DEF Upto
<1> HIDE DEF b, p, q
<1>8. /\ CondOK(q)
      /\ q.failure = FailuresUpto(called + 1)
      /\ q.abort = AbortsUpto(called + 1)
  BY <1>3, <1>5, <1>6 DEF Adds, CondSet, p
<1>9. q.errorsChecked <=> program.builder # "retrypolicy" \/ Upto(called + 1, ErrorOps) # {}
  BY <1>3, <1>7, Zenon DEF Adds, CondSet, p
<1> QED BY <1>2, <1>8, <1>9 DEF CondSet, FailuresUpto, AbortsUpto, BaseFailure, BaseAbort, Upto

\* The fields before the first call.
LEMMA Fresh ==
  ASSUME Init
  PROVE  /\ config.maxRetries = 2 /\ config.delay = 0
         /\ config.delayMin = 0 /\ config.delayMax = 0 /\ config.maxDelay = 0
         /\ config.jitter = 0 /\ config.jitterFactor = 0 /\ config.maxDuration = 0
         /\ CondOK(config.conditions)
         /\ config.conditions.failure = BaseFailure
         /\ config.conditions.abort = BaseAbort
         /\ config.conditions.errorsChecked <=> program.builder # "retrypolicy"
<1>1. program.builder \in {"retrypolicy", "http", "grpc"}
  BY Program DEF Init
<1>2. CASE program.builder = "retrypolicy"
  <2>1. config = retryBuilder
    BY <1>2 DEF Init
  <2> QED BY <1>2, <2>1, Zenon DEF retryBuilder, NoConditions, CondOK, BaseFailure, BaseAbort
<1>3. CASE program.builder = "http"
  <2>1. config = httpBuilder
    BY <1>3 DEF Init
  <2> QED BY <1>3, <2>1, Zenon
          DEF httpBuilder, retryBuilder, NoConditions, AbortOnErrors, HandleIf, CondOK, BaseFailure, BaseAbort, Kinds
<1>4. CASE program.builder = "grpc"
  <2>1. config = grpcBuilder
    BY <1>4 DEF Init
  <2> QED BY <1>4, <2>1, Zenon
          DEF grpcBuilder, retryBuilder, NoConditions, HandleIf, CondOK, BaseFailure, BaseAbort, Kinds
<1> QED BY <1>1, <1>2, <1>3, <1>4

(***************************************************************************)
(* The fields are what the calls made so far say, and all calls have been  *)
(* made when the policy is used.                                           *)
(***************************************************************************)
BuilderInv ==
  /\ LimitSet /\ DelaySet /\ RangeSet /\ CondSet
  /\ \A setter \in Setters : GivenIn(setter[1], setter[2])
  /\ phase # "build" => called = Len(program.calls)

LEMMA BuilderInitial == Init => BuilderInv
<1> SUFFICES ASSUME Init PROVE BuilderInv
  OBVIOUS
<1>1. called = 0 /\ phase = "build"
  BY DEF Init
<1>2. 1..0 = {}
  OBVIOUS
<1>3. \A ops : Upto(called, ops) = {}
  BY <1>1, <1>2 DEF Upto
<1>4. FailuresUpto(called) = BaseFailure /\ AbortsUpto(called) = BaseAbort
  BY <1>1, <1>2 DEF FailuresUpto, AbortsUpto
<1>5. LimitSet /\ DelaySet /\ RangeSet
  BY <1>3, Fresh DEF LimitSet, DelaySet, RangeSet
<1>6. CondSet
  BY <1>3, <1>4, Fresh DEF CondSet
<1>7. \A setter \in Setters : GivenIn(setter[1], setter[2])
  <2>1. \A setter \in Setters : config[setter[2]] = 0
    BY Fresh DEF Setters
  <2> QED BY <1>3, <2>1 DEF GivenIn
<1> QED BY <1>1, <1>5, <1>6, <1>7 DEF BuilderInv

LEMMA BuilderInductive == IInv /\ BuilderInv /\ [Next]_vars => BuilderInv'
<1> SUFFICES ASSUME IInv, BuilderInv, [Next]_vars
             PROVE  BuilderInv'
  OBVIOUS
<1>1. CASE callBuilder
  <2>1. phase' = "build"
    BY <1>1 DEF callBuilder
  <2>2. \A setter \in Setters : GivenIn(setter[1], setter[2])'
    <3> TAKE setter \in Setters
    <3>1. PICK op, field : setter = <<op, field>>
      BY DEF Setters
    <3>2. GivenIn(op, field)
      BY <3>1 DEF BuilderInv
    <3>3. GivenIn(op, field)'
      BY <1>1, <3>1, <3>2, GivenCalled
    <3> QED BY <3>1, <3>3
  <2>3. LimitSet' /\ DelaySet' /\ RangeSet' /\ CondSet'
    BY <1>1, LimitCalled, DelayCalled, RangeCalled, CondCalled DEF BuilderInv
  <2> QED BY <2>1, <2>2, <2>3 DEF BuilderInv
<1>2. CASE UNCHANGED <<program, called, config>> /\ (phase' = "build" \/ called = Len(program.calls))
  <2>1. LimitSet' /\ DelaySet'
    BY <1>2 DEF BuilderInv, LimitSet, DelaySet, Upto
  <2>2. RangeSet'
    BY <1>2, SMTT(20) DEF BuilderInv, RangeSet, Upto
  <2>3. CondSet'
    <3>1. FailuresUpto(called)' = FailuresUpto(called)
      BY <1>2 DEF FailuresUpto, BaseFailure
    <3>2. AbortsUpto(called)' = AbortsUpto(called)
      BY <1>2 DEF AbortsUpto, BaseAbort
    <3>3. Upto(called, ErrorOps)' = Upto(called, ErrorOps)
      BY <1>2 DEF Upto
    <3> QED BY <1>2, <3>1, <3>2, <3>3, Zenon DEF BuilderInv, CondSet
  <2>4. \A setter \in Setters : GivenIn(setter[1], setter[2])'
    BY <1>2, SMTT(20) DEF BuilderInv, GivenIn, Upto
  <2> QED BY <1>2, <2>1, <2>2, <2>3, <2>4 DEF BuilderInv
<1>3. CASE Build
  BY <1>2, <1>3 DEF Build
<1>4. CASE \E o \in program.outcomes, time \in 0..MaxRun : fnReturns(o, time)
  BY <1>2, <1>4 DEF fnReturns, BuilderInv
<1>5. CASE \E time \in 0..MaxLate : getDelay(time)
  BY <1>2, <1>5 DEF getDelay, BuilderInv
<1>6. CASE \E time \in 0..MaxLate : timerFires(time)
  BY <1>2, <1>6 DEF timerFires, BuilderInv
<1>7. CASE UNCHANGED vars
  BY <1>2, <1>7, SMTT(20) DEF vars, BuilderInv
<1> QED BY <1>1, <1>3, <1>4, <1>5, <1>6, <1>7 DEF Next, Terminated
-----------------------------------------------------------------------------
(***************************************************************************)
(* errors.Is and errorAs look at an error and at everything it wraps.      *)
(***************************************************************************)
Shallow(e) ==
  /\ Unwrap[e] \subseteq Errors
  /\ \A c \in Unwrap[e] : \A d \in Unwrap[c] : d \in Errors /\ Unwrap[d] = {}

LEMMA TwoDeep == \A e \in Errors : Shallow(e)
<1> DEFINE Plain == {"nil", "refused", "canceled", "deadline", "scheme", "urlRedirects", "authority",
                     "urlCertificate", "unavailable", "invalid", "canceledStatus", "deadlineStatus"}
           Wrappers == {"wrapped", "verification"}
           Outer == {"joined", "urlRefused", "urlCanceled", "urlScheme", "urlAuthority", "urlVerification"}
<1>1. Errors = Plain \cup Wrappers \cup Outer
  BY DEF Errors, Unwrap
<1>2. \A e \in Plain : Unwrap[e] = {}
  BY DEF Unwrap
<1>3. \A e \in Wrappers : Unwrap[e] \subseteq Plain
  BY DEF Unwrap
<1>4. \A e \in Outer : Unwrap[e] \subseteq Plain \cup Wrappers
  BY DEF Unwrap
<1> HIDE DEF Plain, Wrappers, Outer
<1> QED BY <1>1, <1>2, <1>3, <1>4 DEF Shallow

LEMMA CausesAre ==
  ASSUME NEW e, NEW t
  PROVE  t \in Causes(e) <=> e = t \/ \E c \in Unwrap[e] : t = c \/ t \in Unwrap[c]
BY DEF Causes, Deeper

LEMMA CausesOf ==
  ASSUME NEW e \in Errors, NEW t
  PROVE  t \in Causes(e) <=> e = t \/ \E c \in Unwrap[e] : t \in Causes(c)
BY TwoDeep, CausesAre DEF Shallow

IsEq(f, t) == f = [e \in Errors |-> e = t \/ \E c \in Unwrap[e] : f[c]]

LEMMA IsCause == \A e, t \in Errors : Is(e, t) <=> t \in Causes(e)
<1> SUFFICES ASSUME NEW e \in Errors, NEW t \in Errors PROVE Is(e, t) <=> t \in Causes(e)
  OBVIOUS
<1> DEFINE g == [x \in Errors |-> t \in Causes(x)]
<1>1. ASSUME NEW x \in Errors PROVE g[x] = (x = t \/ \E c \in Unwrap[x] : g[c])
  <2>1. \A c \in Unwrap[x] : c \in Errors
    BY TwoDeep DEF Shallow
  <2>2. \A y \in Errors : g[y] = (t \in Causes(y))
    BY Zenon
  <2> HIDE DEF g
  <2>3. (\E c \in Unwrap[x] : g[c]) <=> \E c \in Unwrap[x] : t \in Causes(c)
    BY <2>1, <2>2, Zenon
  <2>4. t \in Causes(x) <=> (x = t \/ \E c \in Unwrap[x] : t \in Causes(c))
    BY CausesOf, Zenon
  <2>5. (t \in Causes(x)) = (x = t \/ \E c \in Unwrap[x] : g[c])
    BY <2>3, <2>4
  <2> QED BY <2>2, <2>5, Zenon
<1>2. IsEq(g, t)
  BY <1>1, Zenon DEF IsEq
<1> DEFINE f == CHOOSE h : IsEq(h, t)
<1>3. IsEq(f, t)
  BY <1>2
<1>4. Is(e, t) = f[e]
  BY DEF Is, IsEq
<1> HIDE DEF f
<1>5. \A x \in Errors : f[x] = (x = t \/ \E c \in Unwrap[x] : f[c])
  BY <1>3, Zenon DEF IsEq
<1>6. f[e] <=> t \in Causes(e)
  <2>1. \A d \in Errors : Unwrap[d] = {} => (f[d] <=> d = t)
    BY <1>5, Zenon
  <2>2. \A c \in Unwrap[e] : f[c] <=> c = t \/ t \in Unwrap[c]
    BY <1>5, <2>1, TwoDeep, Zenon DEF Shallow
  <2>3. f[e] <=> e = t \/ \E c \in Unwrap[e] : c = t \/ t \in Unwrap[c]
    BY <1>5, <2>2, Zenon
  <2> QED BY <2>3, CausesAre, Zenon
<1> QED BY <1>4, <1>6, Zenon

AsEq(f, t) == f = [e \in Errors |-> TypeOf(e) = t \/ \E c \in Unwrap[e] : f[c]]
HasType(e, t) == \E x \in Causes(e) : TypeOf(x) = t

LEMMA AsCause == \A e \in Errors : \A t : errorAs(e, t) <=> HasType(e, t)
<1> SUFFICES ASSUME NEW e \in Errors, NEW t PROVE errorAs(e, t) <=> HasType(e, t)
  OBVIOUS
<1> DEFINE g == [x \in Errors |-> HasType(x, t)]
<1>1. ASSUME NEW x \in Errors PROVE g[x] = (TypeOf(x) = t \/ \E c \in Unwrap[x] : g[c])
  <2>1. \A c \in Unwrap[x] : c \in Errors
    BY TwoDeep DEF Shallow
  <2>2. \A y \in Errors : g[y] = HasType(y, t)
    BY Zenon DEF HasType
  <2>3. HasType(x, t) <=> (TypeOf(x) = t \/ \E c \in Unwrap[x] : HasType(c, t))
    BY CausesOf, Zenon DEF HasType
  <2> HIDE DEF g
  <2>4. (\E c \in Unwrap[x] : g[c]) <=> \E c \in Unwrap[x] : HasType(c, t)
    BY <2>1, <2>2, Zenon
  <2>5. HasType(x, t) = (TypeOf(x) = t \/ \E c \in Unwrap[x] : g[c])
    BY <2>3, <2>4, Zenon DEF HasType
  <2> QED BY <2>2, <2>5, Zenon
<1>2. AsEq(g, t)
  BY <1>1, Zenon DEF AsEq
<1> DEFINE f == CHOOSE h : AsEq(h, t)
<1>3. AsEq(f, t)
  BY <1>2
<1>4. errorAs(e, t) = f[e]
  BY DEF errorAs, AsEq
<1> HIDE DEF f
<1>5. \A x \in Errors : f[x] = (TypeOf(x) = t \/ \E c \in Unwrap[x] : f[c])
  BY <1>3, Zenon DEF AsEq
<1>6. f[e] <=> HasType(e, t)
  <2>1. \A d \in Errors : Unwrap[d] = {} => (f[d] <=> TypeOf(d) = t)
    BY <1>5, Zenon
  <2>2. \A c \in Unwrap[e] : f[c] <=> TypeOf(c) = t \/ \E d \in Unwrap[c] : TypeOf(d) = t
    BY <1>5, <2>1, TwoDeep, Zenon DEF Shallow
  <2>3. f[e] <=> TypeOf(e) = t \/ \E c \in Unwrap[e] : TypeOf(c) = t \/ \E d \in Unwrap[c] : TypeOf(d) = t
    BY <1>5, <2>2, Zenon
  <2> QED BY <2>3, CausesAre, Zenon DEF HasType
<1> QED BY <1>4, <1>6, Zenon

(***************************************************************************)
(* The conditions that a call adds match exactly what the call says.       *)
(***************************************************************************)
OutcomeOK == last.result \in Results /\ last.err \in Errors

LEMMA KindsMatch ==
  ASSUME OutcomeOK, NEW ofs
  PROVE  /\ ofs \subseteq Errors =>
              (AppliesToAny(Kinds("error", ofs), last.result, last.err) <=> ofs \cap Causes(last.err) # {})
         /\ AppliesToAny(Kinds("type", ofs), last.result, last.err)
              <=> last.err # "nil" /\ \E e \in Causes(last.err) : TypeOf(e) \in ofs
         /\ AppliesToAny(Kinds("result", ofs), last.result, last.err) <=> last.result \in ofs
         /\ AppliesToAny(Kinds("if", ofs), last.result, last.err)
              <=> \E name \in ofs : Predicate(name, last.result, last.err)
<1> DEFINE C(kind, x) == [kind |-> kind, of |-> x]
<1>1. \A kind : AppliesToAny(Kinds(kind, ofs), last.result, last.err)
                  <=> \E x \in ofs : matches(C(kind, x), last.result, last.err)
  BY Zenon DEF AppliesToAny, Kinds
<1>2. \A x : matches(C("error", x), last.result, last.err) <=> Is(last.err, x)
  BY DEF matches
<1>3. \A x : matches(C("type", x), last.result, last.err) <=> ErrorTypesMatch(last.err, x)
  BY DEF matches
<1>4. \A x : matches(C("result", x), last.result, last.err) <=> last.result = x
  BY DEF matches
<1>5. \A x : matches(C("if", x), last.result, last.err) <=> Predicate(x, last.result, last.err)
  BY DEF matches
<1> HIDE DEF C
<1>6. ASSUME ofs \subseteq Errors
      PROVE  AppliesToAny(Kinds("error", ofs), last.result, last.err) <=> ofs \cap Causes(last.err) # {}
  <2>1. \A x \in ofs : Is(last.err, x) <=> x \in Causes(last.err)
    BY <1>6, IsCause DEF OutcomeOK
  <2> QED BY <1>1, <1>2, <2>1, Zenon
<1>7. AppliesToAny(Kinds("type", ofs), last.result, last.err)
        <=> last.err # "nil" /\ \E e \in Causes(last.err) : TypeOf(e) \in ofs
  <2>1. \A x : errorAs(last.err, x) <=> HasType(last.err, x)
    BY AsCause DEF OutcomeOK
  <2> QED BY <1>1, <1>3, <2>1, Zenon DEF ErrorTypesMatch, HasType
<1>8. AppliesToAny(Kinds("result", ofs), last.result, last.err) <=> last.result \in ofs
  <2>1. (\E x \in ofs : matches(C("result", x), last.result, last.err)) <=> \E x \in ofs : last.result = x
    BY <1>4, Zenon
  <2> QED BY <1>1, <2>1
<1>9. AppliesToAny(Kinds("if", ofs), last.result, last.err)
        <=> \E name \in ofs : Predicate(name, last.result, last.err)
  BY <1>1, <1>5, Zenon
<1> QED BY <1>6, <1>7, <1>8, <1>9, Zenon

FailureSaid(b) == CallSays(b, "HandleErrors", "HandleErrorTypes", "HandleResult", "HandleIf")
AbortSaid(b) == CallSays(b, "AbortOnErrors", "AbortOnErrorTypes", "AbortOnResult", "AbortIf")

LEMMA CallMatches ==
  ASSUME OutcomeOK, NEW b \in Calls
  PROVE  /\ AppliesToAny(FailureOf(b), last.result, last.err) <=> FailureSaid(b)
         /\ AppliesToAny(AbortOf(b), last.result, last.err) <=> AbortSaid(b)
<1>0. ~AppliesToAny({}, last.result, last.err)
  BY DEF AppliesToAny
<1>1. CASE b.op = "HandleErrors"
  <2>1. FailureOf(b) = Kinds("error", b.errs) /\ AbortOf(b) = {}
    BY <1>1 DEF FailureOf, AbortOf
  <2>2. FailureSaid(b) <=> b.errs \cap Causes(last.err) # {}
    BY <1>1 DEF FailureSaid, AbortSaid, CallSays
  <2>3. ~AbortSaid(b)
    BY <1>1 DEF FailureSaid, AbortSaid, CallSays
  <2>4. b.errs \subseteq Errors
    BY <1>1 DEF Calls
  <2>5. AppliesToAny(Kinds("error", b.errs), last.result, last.err)
          <=> b.errs \cap Causes(last.err) # {}
    BY <2>4, KindsMatch, Zenon
  <2> QED BY <1>0, <2>1, <2>2, <2>3, <2>5, Zenon
<1>2. CASE b.op = "HandleErrorTypes"
  <2>1. FailureOf(b) = Kinds("type", b.types) /\ AbortOf(b) = {}
    BY <1>2 DEF FailureOf, AbortOf
  <2>2. FailureSaid(b) <=> last.err # "nil" /\ \E e \in Causes(last.err) : TypeOf(e) \in b.types
    BY <1>2 DEF FailureSaid, AbortSaid, CallSays
  <2>3. ~AbortSaid(b)
    BY <1>2 DEF FailureSaid, AbortSaid, CallSays
  <2>5. AppliesToAny(Kinds("type", b.types), last.result, last.err)
          <=> last.err # "nil" /\ \E e \in Causes(last.err) : TypeOf(e) \in b.types
    BY KindsMatch, Zenon
  <2> QED BY <1>0, <2>1, <2>2, <2>3, <2>5, Zenon
<1>3. CASE b.op = "HandleResult"
  <2>1. FailureOf(b) = Kinds("result", {b.result}) /\ AbortOf(b) = {}
    BY <1>3 DEF FailureOf, AbortOf
  <2>2. FailureSaid(b) <=> last.result = b.result
    BY <1>3 DEF FailureSaid, AbortSaid, CallSays
  <2>3. ~AbortSaid(b)
    BY <1>3 DEF FailureSaid, AbortSaid, CallSays
  <2>5. AppliesToAny(Kinds("result", {b.result}), last.result, last.err)
          <=> last.result = b.result
    <3>1. AppliesToAny(Kinds("result", {b.result}), last.result, last.err) <=> last.result \in {b.result}
      BY KindsMatch, Zenon
    <3> QED BY <3>1
  <2> QED BY <1>0, <2>1, <2>2, <2>3, <2>5, Zenon
<1>4. CASE b.op = "HandleIf"
  <2>1. FailureOf(b) = Kinds("if", {b.name}) /\ AbortOf(b) = {}
    BY <1>4 DEF FailureOf, AbortOf
  <2>2. FailureSaid(b) <=> Predicate(b.name, last.result, last.err)
    BY <1>4 DEF FailureSaid, AbortSaid, CallSays
  <2>3. ~AbortSaid(b)
    BY <1>4 DEF FailureSaid, AbortSaid, CallSays
  <2>5. AppliesToAny(Kinds("if", {b.name}), last.result, last.err)
          <=> Predicate(b.name, last.result, last.err)
    <3>1. AppliesToAny(Kinds("if", {b.name}), last.result, last.err)
            <=> \E name \in {b.name} : Predicate(name, last.result, last.err)
      BY KindsMatch
    <3>2. (\E name \in {b.name} : Predicate(name, last.result, last.err))
            <=> Predicate(b.name, last.result, last.err)
      BY Zenon
    <3> QED BY <3>1, <3>2, Zenon
  <2> QED BY <1>0, <2>1, <2>2, <2>3, <2>5, Zenon
<1>5. CASE b.op = "AbortOnErrors"
  <2>1. FailureOf(b) = {} /\ AbortOf(b) = Kinds("error", b.errs)
    BY <1>5 DEF FailureOf, AbortOf
  <2>2. AbortSaid(b) <=> b.errs \cap Causes(last.err) # {}
    BY <1>5 DEF FailureSaid, AbortSaid, CallSays
  <2>3. ~FailureSaid(b)
    BY <1>5 DEF FailureSaid, AbortSaid, CallSays
  <2>4. b.errs \subseteq Errors
    BY <1>5 DEF Calls
  <2>5. AppliesToAny(Kinds("error", b.errs), last.result, last.err)
          <=> b.errs \cap Causes(last.err) # {}
    BY <2>4, KindsMatch, Zenon
  <2> QED BY <1>0, <2>1, <2>2, <2>3, <2>5, Zenon
<1>6. CASE b.op = "AbortOnErrorTypes"
  <2>1. FailureOf(b) = {} /\ AbortOf(b) = Kinds("type", b.types)
    BY <1>6 DEF FailureOf, AbortOf
  <2>2. AbortSaid(b) <=> last.err # "nil" /\ \E e \in Causes(last.err) : TypeOf(e) \in b.types
    BY <1>6 DEF FailureSaid, AbortSaid, CallSays
  <2>3. ~FailureSaid(b)
    BY <1>6 DEF FailureSaid, AbortSaid, CallSays
  <2>5. AppliesToAny(Kinds("type", b.types), last.result, last.err)
          <=> last.err # "nil" /\ \E e \in Causes(last.err) : TypeOf(e) \in b.types
    BY KindsMatch, Zenon
  <2> QED BY <1>0, <2>1, <2>2, <2>3, <2>5, Zenon
<1>7. CASE b.op = "AbortOnResult"
  <2>1. FailureOf(b) = {} /\ AbortOf(b) = Kinds("result", {b.result})
    BY <1>7 DEF FailureOf, AbortOf
  <2>2. AbortSaid(b) <=> last.result = b.result
    BY <1>7 DEF FailureSaid, AbortSaid, CallSays
  <2>3. ~FailureSaid(b)
    BY <1>7 DEF FailureSaid, AbortSaid, CallSays
  <2>5. AppliesToAny(Kinds("result", {b.result}), last.result, last.err)
          <=> last.result = b.result
    <3>1. AppliesToAny(Kinds("result", {b.result}), last.result, last.err) <=> last.result \in {b.result}
      BY KindsMatch, Zenon
    <3> QED BY <3>1
  <2> QED BY <1>0, <2>1, <2>2, <2>3, <2>5, Zenon
<1>8. CASE b.op = "AbortIf"
  <2>1. FailureOf(b) = {} /\ AbortOf(b) = Kinds("if", {b.name})
    BY <1>8 DEF FailureOf, AbortOf
  <2>2. AbortSaid(b) <=> Predicate(b.name, last.result, last.err)
    BY <1>8 DEF FailureSaid, AbortSaid, CallSays
  <2>3. ~FailureSaid(b)
    BY <1>8 DEF FailureSaid, AbortSaid, CallSays
  <2>5. AppliesToAny(Kinds("if", {b.name}), last.result, last.err)
          <=> Predicate(b.name, last.result, last.err)
    <3>1. AppliesToAny(Kinds("if", {b.name}), last.result, last.err)
            <=> \E name \in {b.name} : Predicate(name, last.result, last.err)
      BY KindsMatch
    <3>2. (\E name \in {b.name} : Predicate(name, last.result, last.err))
            <=> Predicate(b.name, last.result, last.err)
      BY Zenon
    <3> QED BY <3>1, <3>2, Zenon
  <2> QED BY <1>0, <2>1, <2>2, <2>3, <2>5, Zenon
<1>9. CASE b.op \notin ConditionOps
  <2>1. FailureOf(b) = {} /\ AbortOf(b) = {}
    BY <1>9 DEF FailureOf, AbortOf, ConditionOps
  <2>2. ~FailureSaid(b) /\ ~AbortSaid(b)
    BY <1>9 DEF FailureSaid, AbortSaid, CallSays, ConditionOps
  <2> QED BY <1>0, <2>1, <2>2, Zenon
<1> QED BY <1>1, <1>2, <1>3, <1>4, <1>5, <1>6, <1>7, <1>8, <1>9, SMTT(20) DEF ConditionOps

LEMMA AddsNone == ASSUME NEW b PROVE FailureOf(b) = {} <=> ~IsCondition(b)
<1>1. \A kind, ofs : Kinds(kind, ofs) = {} <=> ofs = {}
  BY Zenon DEF Kinds
<1>2. \A x : {x} # {}
  OBVIOUS
<1>3. CASE b.op = "HandleErrors"
  BY <1>1, <1>3 DEF FailureOf, IsCondition
<1>4. CASE b.op = "HandleErrorTypes"
  BY <1>1, <1>4 DEF FailureOf, IsCondition
<1>5. CASE b.op = "HandleResult"
  BY <1>1, <1>2, <1>5 DEF FailureOf, IsCondition
<1>6. CASE b.op = "HandleIf"
  BY <1>1, <1>2, <1>6 DEF FailureOf, IsCondition
<1>7. CASE b.op \notin {"HandleErrors", "HandleErrorTypes", "HandleResult", "HandleIf"}
  BY <1>7 DEF FailureOf, IsCondition
<1> QED BY <1>3, <1>4, <1>5, <1>6, <1>7

\* All calls have been made.
LEMMA AllMade ==
  ASSUME IInv, BuilderInv, phase # "build"
  PROVE  /\ called \in Nat /\ DOMAIN program.calls = 1..called
         /\ \A i \in DOMAIN program.calls : program.calls[i] \in Calls
         /\ \A ops : CallsOf(ops) = Upto(called, ops)
<1>1. program.calls \in Seq(Calls)
  BY Program DEF IInv, RestOK
<1>2. called = Len(program.calls)
  BY DEF BuilderInv
<1>3. called \in Nat /\ DOMAIN program.calls = 1..called
  BY <1>1, <1>2
<1>4. \A i \in DOMAIN program.calls : program.calls[i] \in Calls
  BY <1>1
<1> QED BY <1>3, <1>4 DEF CallsOf, Upto

FailureJudged == IsFailure(config.conditions, last.result, last.err)
AbortJudged == IsAbortable(config.conditions, last.result, last.err)

LEMMA Judgement ==
  ASSUME IInv, BuilderInv, OutcomeOK, phase # "build"
  PROVE  (FailureJudged <=> SaysFailure) /\ (AbortJudged <=> SaysAbort)
<1> DEFINE A(conditions) == AppliesToAny(conditions, last.result, last.err)
           calls == program.calls
           said == Says("HandleErrors", "HandleErrorTypes", "HandleResult", "HandleIf")
           byDefault == \A i \in DOMAIN calls : ~IsCondition(calls[i])
           builtIn == program.builder # "retrypolicy" /\ Predicate(program.builder, last.result, last.err)
<1>1. /\ DOMAIN calls = 1..called
      /\ \A i \in DOMAIN calls : calls[i] \in Calls
      /\ CallsOf(ErrorOps) = Upto(called, ErrorOps)
  BY AllMade
<1>2. A(FailuresUpto(called)) <=> A(BaseFailure) \/ \E i \in DOMAIN calls : A(FailureOf(calls[i]))
  BY <1>1, Zenon DEF AppliesToAny, FailuresUpto
<1>3. A(AbortsUpto(called)) <=> A(BaseAbort) \/ \E i \in DOMAIN calls : A(AbortOf(calls[i]))
  BY <1>1, Zenon DEF AppliesToAny, AbortsUpto
<1>4. ~A({})
  BY DEF AppliesToAny
<1>5. A(BaseFailure) <=> builtIn
  <2>1. CASE program.builder = "retrypolicy"
    BY <1>4, <2>1, Zenon DEF BaseFailure
  <2>2. CASE program.builder # "retrypolicy"
    <3>1. A(Kinds("if", {program.builder}))
            <=> \E name \in {program.builder} : Predicate(name, last.result, last.err)
      BY KindsMatch
    <3>2. (\E name \in {program.builder} : Predicate(name, last.result, last.err))
            <=> Predicate(program.builder, last.result, last.err)
      BY Zenon
    <3> QED BY <2>2, <3>1, <3>2, Zenon DEF BaseFailure
  <2> QED BY <2>1, <2>2, Zenon
<1>6. A(BaseAbort) <=> program.builder = "http" /\ "canceled" \in Causes(last.err)
  <2>1. CASE program.builder # "http"
    BY <1>4, <2>1, Zenon DEF BaseAbort
  <2>2. CASE program.builder = "http"
    <3>1. {"canceled"} \subseteq Errors
      BY Zenon DEF Errors, Unwrap
    <3>2. A(Kinds("error", {"canceled"})) <=> {"canceled"} \cap Causes(last.err) # {}
      BY <3>1, KindsMatch, Zenon
    <3>3. {"canceled"} \cap Causes(last.err) # {} <=> "canceled" \in Causes(last.err)
      BY Zenon
    <3> QED BY <2>2, <3>2, <3>3, Zenon DEF BaseAbort
  <2> QED BY <2>1, <2>2, Zenon
<1>7. (\E i \in DOMAIN calls : A(FailureOf(calls[i]))) <=> said
  BY <1>1, CallMatches, Zenon DEF Says, FailureSaid
<1>8. (\E i \in DOMAIN calls : A(AbortOf(calls[i])))
        <=> Says("AbortOnErrors", "AbortOnErrorTypes", "AbortOnResult", "AbortIf")
  BY <1>1, CallMatches, Zenon DEF Says, AbortSaid
<1>9. FailuresUpto(called) = {} <=> program.builder = "retrypolicy" /\ byDefault
  <2>1. BaseFailure = {} <=> program.builder = "retrypolicy"
    BY Zenon DEF BaseFailure, Kinds
  <2>2. (UNION {FailureOf(calls[i]) : i \in 1..called}) = {} <=> \A i \in DOMAIN calls : FailureOf(calls[i]) = {}
    BY <1>1, Zenon
  <2>3. (\A i \in DOMAIN calls : FailureOf(calls[i]) = {}) <=> byDefault
    BY AddsNone, Zenon
  <2>4. FailuresUpto(called) = {} <=> BaseFailure = {} /\ (UNION {FailureOf(calls[i]) : i \in 1..called}) = {}
    BY Zenon DEF FailuresUpto
  <2> QED BY <2>1, <2>2, <2>3, <2>4, Zenon
<1>10. ErrorsFail <=> program.builder = "retrypolicy" /\ (byDefault \/ Upto(called, ErrorOps) = {})
  BY <1>1, Zenon DEF ErrorsFail, ErrorOps
<1> DEFINE checked == config.conditions.errorsChecked
<1>11. checked <=> program.builder # "retrypolicy" \/ Upto(called, ErrorOps) # {}
  BY Zenon DEF BuilderInv, CondSet
<1>12. config.conditions.failure = FailuresUpto(called) /\ config.conditions.abort = AbortsUpto(called)
  BY Zenon DEF BuilderInv, CondSet
<1>13. FailureJudged <=> IF FailuresUpto(called) = {} THEN last.err # "nil"
                         ELSE A(FailuresUpto(called)) \/ (last.err # "nil" /\ ~checked)
  BY <1>12, Zenon DEF FailureJudged, IsFailure
<1>14. SaysFailure <=> said \/ builtIn \/ (ErrorsFail /\ last.err # "nil")
  BY Zenon DEF SaysFailure
<1>15. AbortJudged <=> A(AbortsUpto(called))
  BY <1>12, Zenon DEF AbortJudged, IsAbortable
<1>16. A(FailuresUpto(called)) <=> builtIn \/ said
  BY <1>2, <1>5, <1>7, Zenon
<1>17. AbortJudged <=> SaysAbort
  BY <1>3, <1>6, <1>8, <1>15, Zenon DEF SaysAbort
<1>18. FailuresUpto(called) = {} => ~A(FailuresUpto(called))
  BY <1>4, Zenon
<1> HIDE DEF A, said, byDefault, builtIn, checked
<1>19. FailureJudged <=> SaysFailure
  BY <1>9, <1>10, <1>11, <1>13, <1>14, <1>16, <1>18, Zenon DEF builtIn
<1> QED BY <1>17, <1>19

(***************************************************************************)
(* The phase of the execution tells how the last outcome was judged.       *)
(***************************************************************************)
Judged ==
  /\ OutcomeOK
  /\ phase = "success" => ~FailureJudged
  /\ phase \in {"failed", "delay", "aborted", "exceeded"} => FailureJudged
  /\ phase \in {"failed", "delay"} => ~AbortJudged
  /\ phase = "aborted" => AbortJudged

LEMMA JudgedInitial == Init => Judged
BY DEF Init, Judged, OutcomeOK, Results, Errors, Unwrap

LEMMA JudgedInductive == IInv /\ Judged /\ [Next]_vars => Judged'
<1> SUFFICES ASSUME IInv, Judged, [Next]_vars
             PROVE  Judged'
  OBVIOUS
<1>1. CASE phase = "build" /\ phase' \in {"build", "run"} /\ last' = last
  BY <1>1 DEF Judged, OutcomeOK
<1>2. CASE UNCHANGED <<config, last>> /\ (phase' \in {phase, "run"} \/ (phase = "failed" /\ phase' = "delay"))
  BY <1>2 DEF Judged, OutcomeOK, FailureJudged, AbortJudged
<1>3. CASE \E o \in program.outcomes, time \in 0..MaxRun : fnReturns(o, time)
  <2>1. PICK o \in program.outcomes, time \in 0..MaxRun : fnReturns(o, time)
    BY <1>3
  <2>2. last' = o /\ config' = config
    BY <2>1 DEF fnReturns
  <2>3. OutcomeOK'
    <3>1. program.outcomes \subseteq [result : Results, err : Errors]
      BY Program DEF IInv, RestOK
    <3> QED BY <2>2, <3>1 DEF OutcomeOK
  <2>4. /\ FailureJudged' <=> IsFailure(config.conditions, o.result, o.err)
        /\ AbortJudged' <=> IsAbortable(config.conditions, o.result, o.err)
    BY <2>2, Zenon DEF FailureJudged, AbortJudged
  <2>5. CASE ~IsFailure(config.conditions, o.result, o.err)
    <3>1. phase' = "success"
      BY <2>1, <2>5 DEF fnReturns
    <3> QED BY <2>3, <2>4, <2>5, <3>1 DEF Judged
  <2>6. CASE IsFailure(config.conditions, o.result, o.err)
    <3> DEFINE exceeded == exceeds(failedAttempts + 1, elapsed + time)
               aborts == IsAbortable(config.conditions, o.result, o.err)
    <3>1. phase' = CASE exceeded -> "exceeded"
                     [] ~exceeded /\ ~aborts /\ allowsRetries -> "failed"
                     [] OTHER -> "aborted"
      BY <2>1, <2>6 DEF fnReturns
    <3>2. ~exceeded => allowsRetries
      <4>1. config.maxRetries \in Int /\ failedAttempts \in Nat
        BY DEF IInv, ConfigOK, RestOK
      <4> QED BY <4>1 DEF exceeds, allowsRetries
    <3> HIDE DEF exceeded, aborts
    <3>3. /\ phase' \in {"exceeded", "failed", "aborted"}
          /\ phase' = "failed" => ~aborts
          /\ phase' = "aborted" => aborts
      BY <3>1, <3>2
    <3> QED BY <2>3, <2>4, <2>6, <3>3 DEF Judged, aborts
  <2> QED BY <2>5, <2>6
<1>4. CASE callBuilder
  BY <1>1, <1>4 DEF callBuilder
<1>5. CASE Build
  BY <1>1, <1>5 DEF Build
<1>6. CASE \E time \in 0..MaxLate : getDelay(time)
  BY <1>2, <1>6 DEF getDelay
<1>7. CASE \E time \in 0..MaxLate : timerFires(time)
  BY <1>2, <1>7 DEF timerFires
<1>8. CASE UNCHANGED vars
  BY <1>2, <1>8 DEF vars
<1> QED BY <1>3, <1>4, <1>5, <1>6, <1>7, <1>8 DEF Next, Terminated

(***************************************************************************)
(* Whatever conditions the builder was given, in whatever order, an        *)
(* outcome is judged as the calls say.                                     *)
(***************************************************************************)
THEOREM JudgedByCalls == Spec => []JudgedAsConfigured
<1>1. IInv /\ BuilderInv /\ Judged => JudgedAsConfigured
  <2> SUFFICES ASSUME IInv, BuilderInv, Judged PROVE JudgedAsConfigured
    OBVIOUS
  <2>1. CASE phase \in {"build", "run"}
    BY <2>1 DEF JudgedAsConfigured
  <2>2. CASE phase \notin {"build", "run"}
    <3>1. (FailureJudged <=> SaysFailure) /\ (AbortJudged <=> SaysAbort)
      BY <2>2, Judgement DEF Judged
    <3> QED BY <3>1 DEF Judged, JudgedAsConfigured
  <2> QED BY <2>1, <2>2
<1> QED BY <1>1, Initial, Inductive, BuilderInitial, BuilderInductive, JudgedInitial, JudgedInductive, PTL
    DEF Spec
-----------------------------------------------------------------------------
\* The last element of a set of positions, and Max.
LEMMA LastExists ==
  ASSUME NEW n \in Nat, NEW S \in SUBSET (1..n), S # {}
  PROVE  \E i : IsLast(i, S)
<1> DEFINE T == {n - i : i \in S}
<1>1. T \in SUBSET Nat /\ T # {}
  <2>1. \A i \in S : n - i \in Nat
    OBVIOUS
  <2>2. PICK i : i \in S
    OBVIOUS
  <2>3. n - i \in T
    BY <2>2
  <2>4. T \in SUBSET Nat
    BY <2>1, Zenon
  <2> QED BY <2>3, <2>4, Zenon
<1>2. PICK m \in T : \A k \in T : m <= k
  <2> HIDE DEF T
  <2> QED BY <1>1, Least
<1>3. PICK i \in S : m = n - i
  BY <1>2
<1>4. \A j \in S : j <= i
  BY <1>2, <1>3
<1> QED BY <1>4 DEF IsLast

LEMMA MaxIsLast ==
  ASSUME NEW S \in SUBSET Int, NEW i, IsLast(i, S)
  PROVE  Max(S) = i
<1>1. i \in S /\ \A y \in S : i >= y
  BY DEF IsLast
<1>2. Max(S) \in S /\ \A y \in S : Max(S) >= y
  BY <1>1, Zenon DEF Max
<1> DEFINE m == Max(S)
<1>3. i \in Int /\ m \in Int /\ i >= m /\ m >= i
  BY <1>1, <1>2, Zenon
<1> HIDE DEF m
<1>4. m = i
  BY <1>3
<1> QED BY <1>4 DEF m

\* The fields are what the calls gave.
LEMMA GivenIs ==
  ASSUME IInv, BuilderInv, phase # "build"
  PROVE  /\ config.jitter = Given("WithJitter") /\ config.jitterFactor = Given("WithJitterFactor")
         /\ config.maxDuration = Given("WithMaxDuration")
<1>1. ASSUME NEW op, NEW field, <<op, field>> \in Setters PROVE config[field] = Given(op)
  <2>1. GivenIn(op, field)
    BY <1>1 DEF BuilderInv
  <2>2. called \in Nat /\ CallsOf({op}) = Upto(called, {op})
    BY AllMade
  <2>3. CallsOf({op}) \in SUBSET Int
    BY <2>2 DEF Upto
  <2>4. CASE CallsOf({op}) = {}
    BY <2>1, <2>2, <2>4 DEF GivenIn, IsLast, Given
  <2>5. CASE CallsOf({op}) # {}
    <3>1. PICK i : IsLast(i, CallsOf({op})) /\ config[field] = program.calls[i].d
      BY <2>1, <2>2, <2>5 DEF GivenIn
    <3>2. Max(CallsOf({op})) = i
      BY <2>3, <3>1, MaxIsLast, SMTT(20)
    <3> QED BY <2>5, <3>1, <3>2 DEF Given, LastCall
  <2> QED BY <2>4, <2>5
<1>2. config["jitter"] = Given("WithJitter")
  BY <1>1 DEF Setters
<1>3. config["jitterFactor"] = Given("WithJitterFactor")
  BY <1>1 DEF Setters
<1>4. config["maxDuration"] = Given("WithMaxDuration")
  BY <1>1 DEF Setters
<1> QED BY <1>2, <1>3, <1>4

(***************************************************************************)
(* Limits: how the attempts relate to maxRetries.                          *)
(***************************************************************************)
AttemptsInv ==
  /\ phase = "build" => attempts = 1
  /\ phase \in {"failed", "delay"} => config.maxRetries = -1 \/ attempts <= config.maxRetries
  /\ config.maxRetries = -1 \/ attempts <= config.maxRetries + 1 \/ attempts = 1
  /\ phase = "exceeded" =>
       \/ config.maxRetries # -1 /\ attempts > config.maxRetries
       \/ config.maxDuration # 0 /\ elapsed > config.maxDuration

LEMMA AttemptsInitial == Init => AttemptsInv
BY DEF Init, AttemptsInv

LEMMA AttemptsInductive == IInv /\ AttemptsInv /\ [Next]_vars => AttemptsInv'
<1> SUFFICES ASSUME IInv, AttemptsInv, [Next]_vars
             PROVE  AttemptsInv'
  OBVIOUS
<1>1. config.maxRetries \in Int /\ attempts \in Nat \ {0}
  BY DEF IInv, ConfigOK, RestOK
<1>2. CASE callBuilder
  <2>1. phase' = "build" /\ attempts' = 1
    BY <1>2 DEF AttemptsInv, callBuilder
  <2> QED BY <2>1 DEF AttemptsInv
<1>3. CASE Build
  BY <1>3 DEF AttemptsInv, Build
<1>4. CASE \E o \in program.outcomes, time \in 0..MaxRun : fnReturns(o, time)
  <2>1. PICK o \in program.outcomes, time \in 0..MaxRun : fnReturns(o, time)
    BY <1>4
  <2>2. UNCHANGED <<config, attempts>> /\ elapsed' = elapsed + time /\ failedAttempts + 1 = attempts
    BY <2>1 DEF fnReturns, IInv, CountInv
  <2>3. CASE ~IsFailure(config.conditions, o.result, o.err)
    <3>1. phase' = "success"
      BY <2>1, <2>3 DEF fnReturns
    <3> QED BY <2>2, <3>1 DEF AttemptsInv
  <2>4. CASE IsFailure(config.conditions, o.result, o.err)
    <3>1. /\ phase' \in {"exceeded", "failed", "aborted"}
          /\ phase' = "exceeded" <=> exceeds(attempts, elapsed')
      BY <2>1, <2>2, <2>4 DEF fnReturns
    <3> QED BY <1>1, <2>2, <3>1 DEF AttemptsInv, exceeds
  <2> QED BY <2>3, <2>4
<1>5. CASE \E time \in 0..MaxLate : getDelay(time)
  BY <1>5 DEF AttemptsInv, getDelay
<1>6. CASE \E time \in 0..MaxLate : timerFires(time)
  <2>1. phase = "delay" /\ phase' = "run" /\ config' = config /\ attempts' = attempts + 1
    BY <1>6 DEF timerFires
  <2> QED BY <1>1, <2>1 DEF AttemptsInv
<1>7. CASE UNCHANGED vars
  BY <1>7 DEF vars, AttemptsInv
<1> QED BY <1>2, <1>3, <1>4, <1>5, <1>6, <1>7 DEF Next, Terminated

LEMMA LimitType == IInv => Limit \in Int
<1> SUFFICES ASSUME IInv, CallsOf(LimitOps) # {} PROVE LimitOf(LastCall(LimitOps)) \in Int
  BY DEF Limit
<1>1. program.calls \in Seq(Calls)
  BY Program DEF IInv, RestOK
<1>2. Len(program.calls) \in Nat /\ CallsOf(LimitOps) \in SUBSET (1..Len(program.calls))
  BY <1>1 DEF CallsOf
<1>3. PICK i : IsLast(i, CallsOf(LimitOps))
  BY <1>2, LastExists, Zenon
<1>4. LastCall(LimitOps) = program.calls[i]
  BY <1>2, <1>3, MaxIsLast DEF LastCall
<1>5. program.calls[i] \in Calls /\ program.calls[i].op \in LimitOps
  BY <1>1, <1>3 DEF IsLast, CallsOf
<1>6. program.calls[i].n \in Int
  BY <1>5, CallArguments DEF LimitOps
<1> QED BY <1>4, <1>6 DEF LimitOf

LEMMA LimitIs ==
  ASSUME IInv, BuilderInv, phase # "build"
  PROVE  config.maxRetries = Limit - 1
<1>1. called \in Nat /\ CallsOf(LimitOps) = Upto(called, LimitOps)
  BY AllMade
<1>2. CallsOf(LimitOps) \in SUBSET Int
  BY <1>1 DEF Upto
<1>3. CASE CallsOf(LimitOps) = {}
  <2>1. config.maxRetries = 2
    BY <1>1, <1>3 DEF BuilderInv, LimitSet, IsLast
  <2> QED BY <1>3, <2>1 DEF Limit
<1>4. CASE CallsOf(LimitOps) # {}
  <2>1. PICK i : IsLast(i, CallsOf(LimitOps)) /\ config.maxRetries = LimitOf(program.calls[i]) - 1
    BY <1>1, <1>4 DEF BuilderInv, LimitSet
  <2>2. Max(CallsOf(LimitOps)) = i
    BY <1>2, <2>1, MaxIsLast, SMTT(20)
  <2> QED BY <1>4, <2>1, <2>2 DEF Limit, LastCall
<1> QED BY <1>3, <1>4

(***************************************************************************)
(* The last call that sets a limit is the limit, and an ExceededError      *)
(* means that it, or maxDuration, was used up.                             *)
(***************************************************************************)
THEOREM AttemptsLimited == Spec => []AttemptsAsConfigured
<1>1. IInv /\ BuilderInv /\ AttemptsInv => AttemptsAsConfigured
  <2> SUFFICES ASSUME IInv, BuilderInv, AttemptsInv PROVE AttemptsAsConfigured
    OBVIOUS
  <2>1. Limit \in Int /\ attempts \in Nat \ {0} /\ config.maxRetries \in Int
    BY LimitType DEF IInv, RestOK, ConfigOK
  <2>2. CASE phase = "build"
    BY <2>1, <2>2 DEF AttemptsInv, AttemptsAsConfigured, max
  <2>3. CASE phase # "build"
    <3>1. config.maxRetries = Limit - 1 /\ config.maxDuration = Given("WithMaxDuration")
      BY <2>3, LimitIs, GivenIs
    <3> HIDE DEF Limit, Given
    <3> QED BY <2>1, <3>1 DEF AttemptsInv, AttemptsAsConfigured, max
  <2> QED BY <2>2, <2>3
<1> QED BY <1>1, Initial, Inductive, BuilderInitial, BuilderInductive, AttemptsInitial, AttemptsInductive, PTL
    DEF Spec
-----------------------------------------------------------------------------
\* The factor is that of a call.
LEMMA FactorLarge ==
  ASSUME IInv, BuilderInv, phase # "build", config.maxDelay # 0
  PROVE  config.delayFactor \in Nat /\ config.delayFactor >= One
<1>1. PICK i : IsLast(i, Upto(called, Clearing)) /\ Cleared(config, program.calls[i])
  BY DEF BuilderInv, RangeSet
<1>2. i \in 1..called /\ program.calls[i].op \in Clearing
  BY <1>1 DEF IsLast, Upto
<1>3. program.calls[i] \in Calls
  BY <1>2, AllMade
<1>4. program.calls[i].op = "WithBackoffFactor"
  BY <1>1, <1>2 DEF Cleared, Clearing
<1>5. program.calls[i].factor \in Nat /\ program.calls[i].factor >= One
  BY <1>3, <1>4 DEF Calls
<1> QED BY <1>1, <1>4, <1>5 DEF Cleared

\* The equations of the bounds of a delay.
LEMMA GrownIs ==
  ASSUME IInv, NEW sign \in {-1, 1}
  PROVE  /\ Grown(sign, 0) = config.delay
         /\ \A n \in Nat : /\ Grown(sign, n) \in Nat
                           /\ Grown(sign, n + 1)
                                = min(Off(Grown(sign, n) * config.delayFactor, sign, 2) \div One, config.maxDelay)
<1> DEFINE m == config.maxDelay
           f == config.delayFactor
           grow == [d \in Nat |-> min(Off(d * f, sign, 2) \div One, m)]
<1>1. config.delay \in Nat /\ m \in Nat /\ f \in Nat
  BY DEF IInv, ConfigOK, Numbers
<1>2. \A n : Grown(sign, n) = Iterate(grow, config.delay, n)
  BY DEF Grown
<1> HIDE DEF m, f
<1>3. \A d \in Nat : Off(d * f, sign, 2) \div One \in Nat
  BY <1>1, GrowthBounds
<1>4. grow \in [Nat -> Nat] /\ \A d \in Nat : grow[d] = min(Off(d * f, sign, 2) \div One, m)
  <2>1. \A d \in Nat : min(Off(d * f, sign, 2) \div One, m) \in Nat
    BY <1>1, <1>3, Zenon DEF min
  <2> QED BY <2>1
<1> HIDE DEF grow
<1>5. /\ Iterate(grow, config.delay, 0) = config.delay
      /\ \A n \in Nat : Iterate(grow, config.delay, n + 1) = grow[Iterate(grow, config.delay, n)]
      /\ \A n \in Nat : Iterate(grow, config.delay, n) \in Nat
  BY <1>1, <1>4, Iteration, Zenon
<1> QED BY <1>2, <1>4, <1>5 DEF m, f

(***************************************************************************)
(* Backoff: lastDelay is set exactly if a delay was computed, which is     *)
(* never 0, and at most one is computed per attempt.                       *)
(***************************************************************************)
BackoffInv ==
  /\ BackoffIsExponential
  /\ backoffs = 0 <=> lastDelay = 0
  /\ phase = "build" => backoffs = 0
  /\ backoffs > 0 => config.delay # 0
  /\ backoffs <= attempts /\ (phase # "delay" => backoffs < attempts)

LEMMA BackoffInitial == Init => BackoffInv
BY DEF Init, BackoffInv, BackoffIsExponential

\* What BackoffIsExponential says of the delay after n multiplications.
ExponentialAt(d, n) ==
  IF config.maxDelay = 0 THEN d = config.delay
  ELSE /\ Grown(-1, n) <= d /\ d <= Grown(1, n)
       /\ n > 0 /\ config.delayFactor = 2 * One /\ float32(config.delay) = config.delay
            => d = min(config.delay * Power(2, n), config.maxDelay)

\* The next delay, of one that is exactly a power.
LEMMA NextPower ==
  ASSUME NEW d \in Nat, NEW m \in Nat, NEW k \in Nat, NEW L \in Nat, float32(d) = d,
         (L = d /\ k = 0) \/ L = min(d * Power(2, k), m)
  PROVE  min(scaled(L, 2 * One), m) = min(d * Power(2, k + 1), m)
<1> DEFINE p == Power(2, k)
<1>1. p \in Nat /\ Power(2, k + 1) = 2 * p /\ (k = 0 => p = 1)
  <2>1. 2 \in Nat
    OBVIOUS
  <2>2. /\ Power(2, 0) = 1
        /\ \A n \in Nat : Power(2, n + 1) = 2 * Power(2, n) /\ Power(2, n) \in Nat
    BY <2>1, Powers, Zenon
  <2> QED BY <2>2, Zenon
<1>2. nearest(d) = d
  BY DEF float32
<1>3. nearest(d * p) = d * p
  BY <1>2, ExactTimesPower
<1> HIDE DEF p
<1>4. d * p \in Nat /\ d * (2 * p) = 2 * (d * p) /\ (k = 0 => d * p = d)
  BY <1>1
<1>5. CASE L = d * p
  <2>1. scaled(L, 2 * One) = 2 * L
    BY <1>3, <1>5, ScaledTwice
  <2> QED BY <1>1, <1>4, <1>5, <2>1
<1>6. CASE L = m /\ m <= d * p
  <2>1. scaled(L, 2 * One) >= m /\ scaled(L, 2 * One) \in Nat
    <3>1. 2 * One \in Nat
      BY OnePositive
    <3> QED BY <1>6, <3>1, ScaledTwice, Scaled
  <2>2. min(scaled(L, 2 * One), m) = m
    BY <2>1 DEF min
  <2>3. min(2 * (d * p), m) = m
    BY <1>4, <1>6 DEF min
  <2> QED BY <1>1, <1>4, <2>2, <2>3
<1>7. L = d * p \/ (L = m /\ m <= d * p)
  BY <1>4 DEF min, p
<1> QED BY <1>5, <1>6, <1>7

\* The next backoff delay is the next power.
LEMMA NextBackoff ==
  ASSUME IInv, BuilderInv, BackoffInv, phase = "failed", config.delay # 0
  PROVE  backoff \in Nat \ {0} /\ ExponentialAt(backoff, backoffs)
<1> DEFINE d == config.delay
           m == config.maxDelay
           f == config.delayFactor
           L == lastDelay
<1>1. d \in Nat \ {0} /\ m \in Nat /\ f \in Nat /\ L \in Nat /\ backoffs \in Nat
  BY DEF IInv, ConfigOK, RestOK, Numbers
<1>2. CASE m = 0
  BY <1>1, <1>2 DEF backoff, ExponentialAt
<1>3. CASE backoffs = 0 /\ m # 0
  <2>1. backoff = d
    BY <1>3 DEF backoff, BackoffInv
  <2>2. Grown(-1, 0) = d /\ Grown(1, 0) = d
    BY GrownIs
  <2> QED BY <1>1, <1>3, <2>1, <2>2 DEF ExponentialAt
<1>4. CASE backoffs > 0 /\ m # 0
  <2> DEFINE k == backoffs - 1
             next == scaled(L, f)
             lo == Grown(-1, k)
             hi == Grown(1, k)
             dn == Off(lo * f, -1, 2) \div One
             up == Off(hi * f, 1, 2) \div One
             doubles == f = 2 * One /\ float32(d) = d
  <2>1. k \in Nat /\ k + 1 = backoffs
    BY <1>1, <1>4
  <2>2. attempts > 1 /\ L # 0
    BY <1>1, <1>4 DEF BackoffInv, IInv, RestOK
  <2>3. f >= One
    BY <1>4, FactorLarge
  <2>4. backoff = min(next, m)
    BY <1>4, <2>2 DEF backoff
  <2>5. next \in Nat \ {0}
    BY <1>1, <2>2, <2>3, ScaledPositive
  <2>6. /\ lo <= L /\ L <= hi
        /\ k > 0 /\ doubles => L = min(d * Power(2, k), m)
    BY <1>4 DEF BackoffInv, BackoffIsExponential
  <2>7. /\ lo \in Nat /\ hi \in Nat
        /\ Grown(-1, backoffs) = min(dn, m) /\ Grown(1, backoffs) = min(up, m)
        /\ k = 0 => lo = d /\ hi = d
    BY <2>1, GrownIs
  <2>8. dn \in Nat /\ up \in Nat /\ dn <= next /\ next <= up
    <3> HIDE DEF lo, hi, k
    <3>1. L >= lo
      BY <1>1, <2>6, <2>7
    <3>2. dn \in Nat /\ up \in Nat /\ next >= dn /\ next <= up
      BY <1>1, <2>6, <2>7, <3>1, GrowthBounds, ZenonT(30)
    <3> QED BY <2>5, <3>2
  <2>9. doubles => min(next, m) = min(d * Power(2, k + 1), m)
    <3> SUFFICES ASSUME f = 2 * One, float32(d) = d PROVE min(scaled(L, 2 * One), m) = min(d * Power(2, k + 1), m)
      OBVIOUS
    <3>1. (L = d /\ k = 0) \/ L = min(d * Power(2, k), m)
      <4>1. CASE k = 0
        BY <1>1, <2>6, <2>7, <4>1
      <4>2. CASE k # 0
        BY <2>1, <2>6, <4>2
      <4> QED BY <4>1, <4>2
    <3> QED BY <1>1, <2>1, <3>1, NextPower
  <2> HIDE DEF next, dn, up, m
  <2>10. min(dn, m) <= min(next, m) /\ min(next, m) <= min(up, m) /\ min(next, m) \in Nat \ {0}
    BY <1>1, <1>4, <2>5, <2>8 DEF min
  <2> QED BY <1>4, <2>1, <2>4, <2>7, <2>9, <2>10 DEF ExponentialAt, m
<1> QED BY <1>1, <1>2, <1>3, <1>4

LEMMA BackoffInductive == IInv /\ BuilderInv /\ BackoffInv /\ [Next]_vars => BackoffInv'
<1> SUFFICES ASSUME IInv, BuilderInv, BackoffInv, [Next]_vars
             PROVE  BackoffInv'
  OBVIOUS
<1>1. attempts \in Nat \ {0} /\ backoffs \in Nat
  BY DEF IInv, RestOK
<1>2. CASE callBuilder
  <2>1. backoffs' = 0 /\ lastDelay' = 0 /\ attempts' = attempts
    BY <1>2 DEF callBuilder, BackoffInv
  <2>2. BackoffIsExponential'
    BY <2>1 DEF BackoffIsExponential
  <2> QED BY <1>1, <1>2, <2>1, <2>2 DEF BackoffInv, callBuilder
<1>3. CASE UNCHANGED <<config, lastDelay, backoffs>> /\ phase' \notin {"build", "delay"}
             /\ (attempts' = attempts + 1 \/ (attempts' = attempts /\ phase # "delay"))
  <2>1. BackoffIsExponential'
    BY <1>3 DEF BackoffInv, BackoffIsExponential, Grown
  <2> QED BY <1>1, <1>3, <2>1 DEF BackoffInv
<1>4. CASE UNCHANGED vars
  <2>1. BackoffIsExponential'
    BY <1>4 DEF vars, BackoffInv, BackoffIsExponential, Grown
  <2> QED BY <1>4, <2>1 DEF vars, BackoffInv
<1>5. CASE Build
  BY <1>3, <1>5 DEF Build
<1>6. CASE \E o \in program.outcomes, time \in 0..MaxRun : fnReturns(o, time)
  <2>1. PICK o \in program.outcomes, time \in 0..MaxRun : fnReturns(o, time)
    BY <1>6
  <2>2. phase' \notin {"build", "delay"}
    BY <2>1 DEF fnReturns
  <2>3. UNCHANGED <<config, lastDelay, backoffs, attempts>> /\ phase = "run"
    BY <2>1 DEF fnReturns
  <2> QED BY <1>3, <2>2, <2>3
<1>7. CASE \E time \in 0..MaxLate : getDelay(time)
  <2>1. PICK time \in 0..MaxLate : getDelay(time)
    BY <1>7
  <2>2. phase = "failed" /\ phase' = "delay" /\ UNCHANGED <<config, attempts>> /\ backoffs < attempts
    BY <2>1 DEF getDelay, BackoffInv
  <2>3. \/ lastDelay' = lastDelay /\ backoffs' = backoffs
        \/ config.delay # 0 /\ lastDelay' = backoff /\ backoffs' = backoffs + 1
    BY <2>1 DEF getDelay
  <2>4. CASE lastDelay' = lastDelay /\ backoffs' = backoffs
    <3>1. BackoffIsExponential'
      BY <2>2, <2>4 DEF BackoffInv, BackoffIsExponential, Grown
    <3> QED BY <1>1, <2>2, <2>4, <3>1, SMTT(20) DEF BackoffInv
  <2>5. CASE config.delay # 0 /\ lastDelay' = backoff /\ backoffs' = backoffs + 1
    <3>1. backoff \in Nat \ {0} /\ ExponentialAt(backoff, backoffs)
      BY <2>2, <2>5, NextBackoff
    <3>2. backoffs' > 0 /\ backoffs' - 1 = backoffs
      BY <1>1, <2>5
    <3>3. BackoffIsExponential'
      <4>1. \A sign, n : Grown(sign, n)' = Grown(sign, n)
        BY <2>2 DEF Grown
      <4> QED BY <2>2, <2>5, <3>1, <3>2, <4>1 DEF BackoffIsExponential, ExponentialAt
    <3> QED BY <1>1, <2>2, <2>5, <3>1, <3>3 DEF BackoffInv
  <2> QED BY <2>3, <2>4, <2>5
<1>8. CASE \E time \in 0..MaxLate : timerFires(time)
  BY <1>3, <1>8 DEF timerFires
<1> QED BY <1>2, <1>4, <1>5, <1>6, <1>7, <1>8 DEF Next, Terminated

(***************************************************************************)
(* For every delay, limit and factor of at least one, and however often a  *)
(* DelayFunc comes in between, backoff delays are the powers of the        *)
(* factor, cut at the limit, within two roundings per power; they are      *)
(* exactly the powers of 2 if the factor is 2 and the delay a float32.     *)
(***************************************************************************)
THEOREM BackoffPowers == Spec => []BackoffIsExponential
<1>1. BackoffInv => BackoffIsExponential
  BY DEF BackoffInv
<1> QED BY <1>1, Initial, Inductive, BuilderInitial, BuilderInductive, BackoffInitial, BackoffInductive, PTL
    DEF Spec
-----------------------------------------------------------------------------
\* A fixed or backoff delay is not above the delay and the limit.
LEMMA BackoffRange ==
  ASSUME IInv, config.delay # 0
  PROVE  /\ config.maxDelay = 0 => backoff = config.delay
         /\ backoff \in 0..max(config.delay, config.maxDelay)
<1>1. config.delay \in Nat /\ config.maxDelay \in Nat /\ config.delayFactor \in Nat /\ lastDelay \in Nat
  BY DEF IInv, ConfigOK, RestOK, Numbers
<1>2. scaled(lastDelay, config.delayFactor) \in Nat
  BY <1>1, Scaled, Zenon
<1> QED BY <1>1, <1>2 DEF backoff, min, max

\* Of WithBackoff and WithRandomDelay, the one that was called last counts.
LEMMA LastClears ==
  ASSUME DOMAIN program.calls \in SUBSET Int, NEW k, IsLast(k, CallsOf(Clearing))
  PROVE  /\ program.calls[k].op = "WithRandomDelay" => IsLast(k, Random) /\ Growing = {}
         /\ program.calls[k].op = "WithBackoffFactor" => IsLast(k, Growing) /\ Random = {}
<1>1. /\ k \in CallsOf(Clearing) /\ k \in Int
      /\ \A j \in CallsOf({"WithRandomDelay"}) \cup CallsOf({"WithBackoffFactor"}) : j \in Int /\ j <= k
  BY DEF IsLast, CallsOf, Clearing
<1>2. \A j : ~(j \in CallsOf({"WithRandomDelay"}) /\ j \in CallsOf({"WithBackoffFactor"}))
  BY DEF CallsOf
<1>3. ASSUME program.calls[k].op = "WithRandomDelay" PROVE IsLast(k, Random) /\ Growing = {}
  <2>1. k \in CallsOf({"WithRandomDelay"})
    BY <1>1, <1>3 DEF CallsOf
  <2>2. \A j \in CallsOf({"WithBackoffFactor"}) : j < k
    BY <1>1, <1>2, <2>1
  <2>3. k \in Random /\ \A j \in Random : j <= k
    BY <1>1, <2>1, <2>2 DEF Random
  <2>4. \A i \in CallsOf({"WithBackoffFactor"}) : ~(k < i)
    BY <1>1
  <2>5. Growing = {}
    BY <2>1, <2>4, Zenon DEF Growing
  <2> QED BY <2>3, <2>5 DEF IsLast
<1>4. ASSUME program.calls[k].op = "WithBackoffFactor" PROVE IsLast(k, Growing) /\ Random = {}
  <2>1. k \in CallsOf({"WithBackoffFactor"})
    BY <1>1, <1>4 DEF CallsOf
  <2>2. \A j \in CallsOf({"WithRandomDelay"}) : j < k
    BY <1>1, <1>2, <2>1
  <2>3. k \in Growing /\ \A j \in Growing : j <= k
    BY <1>1, <2>1, <2>2 DEF Growing
  <2>4. \A i \in CallsOf({"WithRandomDelay"}) : ~(k < i)
    BY <1>1
  <2>5. Random = {}
    BY <2>1, <2>4, Zenon DEF Random
  <2> QED BY <2>3, <2>5 DEF IsLast
<1> QED BY <1>3, <1>4

\* What the fields give is what the calls allow.
Gives(range) == IF config.delay # 0 THEN backoff \in range ELSE randomDelays \subseteq range

LEMMA RangeGiven ==
  ASSUME IInv, BuilderInv, phase = "failed"
  PROVE  Gives(DelayRange)
<1> DEFINE d == config.delay
           m == config.maxDelay
           calls == program.calls
<1>0. d \in Nat /\ m \in Nat /\ config.delayMin \in Nat /\ config.delayMax \in Nat
  BY DEF IInv, ConfigOK, Numbers
<1>1. /\ DOMAIN calls = 1..called /\ called \in Nat
      /\ \A i \in DOMAIN calls : calls[i] \in Calls
      /\ \A ops : CallsOf(ops) = Upto(called, ops)
  BY AllMade
<1>2. DOMAIN calls \in SUBSET Int /\ \A ops : CallsOf(ops) \in SUBSET Int
  BY <1>1 DEF CallsOf
<1>3. Random \in SUBSET Int /\ Growing \in SUBSET Int
  BY <1>2 DEF Random, Growing
<1>4. /\ d # 0 /\ m = 0 => backoff = d
      /\ d # 0 => backoff \in 0..max(d, m)
  BY BackoffRange
<1>5. config.delayMin = 0 /\ config.delayMax = 0 => randomDelays = {0}
  BY DEF randomDelays
<1>6. CASE CallsOf(DelaySetters) = {}
  <2>1. d = 0
    BY <1>1, <1>6 DEF BuilderInv, DelaySet, IsLast
  <2>2. CallsOf(Clearing) = {}
    BY <1>6 DEF CallsOf, Clearing, DelaySetters
  <2>3. config.delayMin = 0 /\ config.delayMax = 0
    BY <1>1, <2>2 DEF BuilderInv, RangeSet, IsLast
  <2>4. Random = {}
    BY <1>6 DEF Random, CallsOf, DelaySetters
  <2>5. DelayRange = {0}
    BY <1>6, <2>4 DEF DelayRange
  <2> QED BY <1>5, <2>1, <2>3, <2>5 DEF Gives
<1>7. CASE CallsOf(DelaySetters) # {}
  <2>1. PICK i : IsLast(i, CallsOf(DelaySetters)) /\ d = DelayOf(calls[i])
    BY <1>1, <1>7 DEF BuilderInv, DelaySet
  <2> DEFINE by == calls[i]
  <2>2. by \in Calls /\ by.op \in DelaySetters
    BY <1>1, <2>1 DEF IsLast, CallsOf
  <2>3. LastCall(DelaySetters) = by
    BY <1>2, <2>1, MaxIsLast DEF LastCall
  <2>4. CASE CallsOf(Clearing) = {}
    <3>1. Random = {} /\ Growing = {} /\ by.op = "WithDelay"
      BY <2>1, <2>2, <2>4 DEF Random, Growing, CallsOf, Clearing, DelaySetters, IsLast
    <3>2. config.delayMin = 0 /\ config.delayMax = 0 /\ m = 0
      BY <1>1, <2>4 DEF BuilderInv, RangeSet, IsLast
    <3>3. d = by.d /\ DelayRange = {by.d}
      BY <1>7, <2>1, <2>3, <3>1 DEF DelayRange, DelayOf
    <3>4. d \in DelayRange
      BY <3>3
    <3> QED BY <1>4, <1>5, <3>2, <3>4 DEF Gives
  <2>5. CASE CallsOf(Clearing) # {}
    <3>1. PICK k : IsLast(k, CallsOf(Clearing)) /\ Cleared(config, calls[k])
      BY <1>1, <2>5, SMTT(20) DEF BuilderInv, RangeSet
    <3> DEFINE c == calls[k]
    <3>2. c \in Calls /\ c.op \in Clearing /\ k \in CallsOf(DelaySetters) /\ k <= i /\ k \in Int /\ i \in Int
      BY <1>1, <1>2, <2>1, <3>1, Zenon DEF IsLast, CallsOf, Clearing, DelaySetters
    <3>3. by.op \in Clearing => i = k
      <4>1. by.op \in Clearing => i \in CallsOf(Clearing)
        BY <2>1 DEF IsLast, CallsOf
      <4>2. by.op \in Clearing => i <= k
        BY <3>1, <4>1 DEF IsLast
      <4> QED BY <3>2, <4>2
    <3>4. CASE c.op = "WithRandomDelay"
      <4>1. IsLast(k, Random) /\ Growing = {}
        BY <1>2, <3>1, <3>4, LastClears
      <4>2. Random # {} /\ calls[Max(Random)] = c
        BY <1>3, <4>1, MaxIsLast, SMTT(20) DEF IsLast
      <4>3. m = 0 /\ config.delayMin = c.min /\ config.delayMax = c.max
        BY <3>1, <3>4 DEF Cleared
      <4>4. by.op # "WithBackoffFactor"
        BY <3>3, <3>4 DEF Clearing
      <4>5. CASE by.op = "WithRandomDelay" \/ by.d = 0
        <5>1. DelayRange = min(c.min, c.max)..max(c.min, c.max)
          BY <1>7, <2>3, <4>2, <4>5, SMTT(20) DEF DelayRange
        <5>2. d = 0
          BY <2>1, <4>5, SMTT(20) DEF DelayOf
        <5>3. randomDelays \subseteq min(c.min, c.max)..max(c.min, c.max)
          BY <1>0, <4>3, SMTT(20) DEF randomDelays, min, max
        <5> QED BY <5>1, <5>2, <5>3 DEF Gives
      <4>6. CASE by.op = "WithDelay" /\ by.d # 0
        <5>1. DelayRange = {by.d}
          BY <1>7, <2>3, <4>1, <4>6, SMTT(20) DEF DelayRange
        <5>2. d = by.d
          BY <2>1, <4>6 DEF DelayOf
        <5>3. d \in DelayRange
          BY <5>1, <5>2
        <5> QED BY <1>4, <4>3, <4>6, <5>2, <5>3, SMTT(20) DEF Gives
      <4> QED BY <2>2, <4>4, <4>5, <4>6, SMTT(20) DEF DelaySetters
    <3>5. CASE c.op = "WithBackoffFactor"
      <4>1. IsLast(k, Growing) /\ Random = {}
        BY <1>2, <3>1, <3>5, LastClears
      <4>2. Growing # {} /\ calls[Max(Growing)] = c
        BY <1>3, <4>1, MaxIsLast, SMTT(20) DEF IsLast
      <4>3. m = c.max /\ config.delayMin = 0 /\ config.delayMax = 0
        BY <3>1, <3>5 DEF Cleared
      <4>4. by.op # "WithRandomDelay"
        BY <3>3, <3>5 DEF Clearing
      <4>5. d = by.d
        BY <2>1, <4>4 DEF DelayOf
      <4>6. DelayRange = 0..max(d, m)
        BY <1>7, <2>3, <4>1, <4>2, <4>3, <4>4, <4>5, SMTT(20) DEF DelayRange
      <4>7. d = 0 => 0 \in DelayRange
        BY <1>0, <4>6 DEF max
      <4> QED BY <1>4, <1>5, <4>3, <4>6, <4>7, SMTT(20) DEF Gives
    <3> QED BY <3>2, <3>4, <3>5 DEF Clearing
  <2> QED BY <2>4, <2>5
<1> QED BY <1>6, <1>7

\* How far the fields let jitter move a delay.
JitterOf(x, sign) ==
  CASE config.jitter # 0 -> x + sign * config.jitter
    [] config.jitter = 0 /\ config.jitterFactor # 0 ->
         Off(x * (One + sign * config.jitterFactor), sign, 3) \div One
    [] OTHER -> x

\* Jitter and maxDuration move a delay by no more than they say.
LEMMA JitterMoves ==
  ASSUME NEW x \in Nat \ {0}, NEW time \in Nat,
         config.jitter \in Nat, config.jitterFactor \in Nat, config.maxDuration \in Nat,
         NEW d \in adjustForJitter(x)
  PROVE  /\ adjustForMaxDuration(d, time) <= JitterOf(x, 1)
         /\ config.maxDuration = 0 => adjustForMaxDuration(d, time) >= JitterOf(x, -1)
<1> DEFINE hi == JitterOf(x, 1)
           lo == JitterOf(x, -1)
<1>1. hi \in Nat /\ lo \in Int /\ d \in Int /\ d <= hi /\ (d >= lo \/ lo <= 0)
  <2>1. CASE config.jitter # 0
    <3>1. adjustForJitter(x) = RandomDelay(x, config.jitter)
      BY <2>1 DEF adjustForJitter
    <3>2. hi = x + config.jitter /\ lo = x - config.jitter
      BY <2>1 DEF JitterOf
    <3> QED BY <3>1, <3>2 DEF RandomDelay
  <2>2. CASE config.jitter = 0 /\ config.jitterFactor # 0
    <3> DEFINE j == config.jitterFactor
    <3>1. adjustForJitter(x) = RandomDelayFactor(x, j)
      BY <2>2 DEF adjustForJitter
    <3>2. PICK part \in (1 - j)..j : d = scaled(x, float32(One + part))
      BY <3>1 DEF RandomDelayFactor
    <3>3. One \in Nat \ {0} /\ One + 1 * j = One + j /\ One + (-1) * j = One - j
      BY OnePositive
    <3>4. hi = Off(x * (One + j), 1, 3) \div One /\ lo = Off(x * (One - j), -1, 3) \div One
      BY <2>2, <3>3 DEF JitterOf
    <3>5. d \in Int
      BY JitterInt
    <3> HIDE DEF j
    <3>6. j \in Nat
      BY DEF j
    <3>7. /\ Off(x * (One + j), 1, 3) \div One \in Nat
          /\ Off(x * (One - j), -1, 3) \div One \in Int
          /\ d <= Off(x * (One + j), 1, 3) \div One
          /\ d >= Off(x * (One - j), -1, 3) \div One \/ Off(x * (One - j), -1, 3) \div One <= 0
      BY <3>2, <3>6, JitterBounds, ZenonT(30)
    <3> QED BY <3>4, <3>5, <3>7, Zenon
  <2>3. CASE config.jitter = 0 /\ config.jitterFactor = 0
    BY <2>3 DEF adjustForJitter, JitterOf
  <2> QED BY <2>1, <2>2, <2>3
<1> HIDE DEF hi, lo
<1>2. /\ adjustForMaxDuration(d, time) <= hi
      /\ config.maxDuration = 0 => adjustForMaxDuration(d, time) >= lo
  BY <1>1 DEF adjustForMaxDuration, min, max
<1> QED BY <1>2 DEF hi, lo

LEMMA Delayed ==
  ASSUME IInv, IInv', BuilderInv, NEW time \in 0..MaxLate, getDelay(time)
  PROVE  DelayAsConfigured'
<1>1. phase = "failed" /\ UNCHANGED <<program, config>>
  BY DEF getDelay
<1>2. Gives(DelayRange)
  BY <1>1, RangeGiven
<1>3. DelayRange' = DelayRange
  BY <1>1 DEF DelayRange, Random, Growing, LastCall, CallsOf
<1>4. computed' \/ drawn' \in DelayRange'
  <2>1. PICK c \in ComputeDelay :
          /\ computed' = (c # NoDelay)
          /\ \/ c # NoDelay
             \/ c = NoDelay /\ config.delay # 0 /\ drawn' = backoff
             \/ c = NoDelay /\ config.delay = 0 /\ drawn' \in randomDelays
    BY DEF getDelay
  <2>2. CASE c # NoDelay
    BY <2>1, <2>2, Zenon
  <2>3. CASE c = NoDelay
    <3>1. \/ config.delay # 0 /\ drawn' = backoff
          \/ config.delay = 0 /\ drawn' \in randomDelays
      BY <2>1, <2>3
    <3> QED BY <1>2, <1>3, <3>1 DEF Gives
  <2> QED BY <2>2, <2>3
<1>5. /\ drawn' \in Int /\ elapsed' \in Nat /\ delay' \in Nat
      /\ config.jitter \in Nat /\ config.jitterFactor \in Nat /\ config.maxDuration \in Nat
  BY DEF IInv, RestOK, ConfigOK, Numbers
<1>6. /\ config.jitter = Given("WithJitter") /\ config.jitterFactor = Given("WithJitterFactor")
      /\ config.maxDuration = Given("WithMaxDuration")
  BY <1>1, GivenIs
<1>7. \A op : Given(op)' = Given(op)
  BY <1>1 DEF Given, LastCall, CallsOf
<1>9. PICK d \in (IF drawn' = 0 THEN {0} ELSE adjustForJitter(drawn')) :
        delay' = adjustForMaxDuration(d, elapsed')
  BY DEF getDelay
<1> DEFINE x == drawn'
           e == elapsed'
<1>10. x \in Int /\ e \in Nat /\ d \in IF x = 0 THEN {0} ELSE adjustForJitter(x)
  BY <1>5, <1>9
<1> HIDE DEF x, e
<1>11. x > 0 => /\ adjustForMaxDuration(d, e) <= JitterOf(x, 1)
                /\ config.maxDuration = 0 => adjustForMaxDuration(d, e) >= JitterOf(x, -1)
  <2> SUFFICES ASSUME x > 0
               PROVE  /\ adjustForMaxDuration(d, e) <= JitterOf(x, 1)
                      /\ config.maxDuration = 0 => adjustForMaxDuration(d, e) >= JitterOf(x, -1)
    OBVIOUS
  <2>1. x \in Nat \ {0} /\ d \in adjustForJitter(x)
    BY <1>10
  <2> QED BY <1>5, <1>10, <2>1, JitterMoves
<1>12. x = 0 => adjustForMaxDuration(d, e) = 0
  BY <1>5, <1>10 DEF adjustForMaxDuration, min, max
<1>13. /\ drawn' > 0 => delay' <= Moved(drawn, 1)'
       /\ drawn' > 0 /\ Given("WithMaxDuration")' = 0 => delay' >= Moved(drawn, -1)'
       /\ drawn' = 0 => delay' = 0
  <2>1. Moved(drawn, 1)' = JitterOf(x, 1) /\ Moved(drawn, -1)' = JitterOf(x, -1)
    BY <1>6, <1>7 DEF Moved, JitterOf, x
  <2>2. delay' = adjustForMaxDuration(d, e)
    BY <1>9 DEF e
  <2>3. Given("WithMaxDuration")' = config.maxDuration
    BY <1>6, <1>7
  <2> QED BY <1>11, <1>12, <2>1, <2>2, <2>3, Zenon DEF x
<1> QED BY <1>1, <1>4, <1>13, Zenon DEF DelayAsConfigured

LEMMA DelayedInductive ==
  IInv /\ IInv' /\ BuilderInv /\ DelayAsConfigured /\ [Next]_vars => DelayAsConfigured'
<1> SUFFICES ASSUME IInv, IInv', BuilderInv, DelayAsConfigured, [Next]_vars
             PROVE  DelayAsConfigured'
  OBVIOUS
<1>1. CASE \E time \in 0..MaxLate : getDelay(time)
  BY <1>1, Delayed
<1>2. CASE UNCHANGED vars
  <2>1. DelayRange' = DelayRange /\ \A op : Given(op)' = Given(op)
    BY <1>2 DEF vars, DelayRange, Random, Growing, Given, LastCall, CallsOf
  <2>2. Moved(drawn, 1)' = Moved(drawn, 1) /\ Moved(drawn, -1)' = Moved(drawn, -1)
    BY <1>2, <2>1 DEF vars, Moved
  <2> QED BY <1>2, <2>1, <2>2 DEF vars, DelayAsConfigured
<1>3. CASE phase' # "delay"
  BY <1>3 DEF DelayAsConfigured
<1>4. CASE \E o \in program.outcomes, time \in 0..MaxRun : fnReturns(o, time)
  <2>1. phase' # "delay"
    BY <1>4 DEF fnReturns
  <2> QED BY <1>3, <2>1
<1> QED BY <1>1, <1>2, <1>3, <1>4, Zenon DEF Next, Terminated, callBuilder, Build, timerFires

(***************************************************************************)
(* For every sequence of calls of the builder, a delay is in the range     *)
(* that the last of them sets, the last WithJitter or WithJitterFactor     *)
(* moves it by no more than it says, within three roundings, and           *)
(* maxDuration only shortens it.                                           *)
(***************************************************************************)
THEOREM DelaysAsSet == Spec => []DelayAsConfigured
<1>1. Init => DelayAsConfigured
  BY DEF Init, DelayAsConfigured
<1> QED BY <1>1, Initial, Inductive, BuilderInitial, BuilderInductive, DelayedInductive, PTL DEF Spec
=============================================================================
