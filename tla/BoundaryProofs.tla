--------------------------- MODULE BoundaryProofs ---------------------------
(***************************************************************************)
(* Proofs about the two components at the boundary of an execution: the    *)
(* rate limiter that lets it in, and the client whose request it runs.     *)
(*                                                                         *)
(* The rate limiter's schedule, smooth and bursty, for every interval,     *)
(* period, number of permits and of callers, any requests and any bounds.  *)
(* For every set of uses of a client, so every number of attempts, and     *)
(* every length of a body: what attempts send, and whether the response    *)
(* can be read.                                                            *)
(***************************************************************************)
EXTENDS RateLimiter, Client, SumTheorems, TLAPS

LEMMA DivisionMonotone ==
  ASSUME NEW a \in Nat, NEW c \in Nat, a <= c, NEW b \in Nat \ {0}
  PROVE  a \div b <= c \div b
<1> DEFINE d == a \div b
           e == c \div b
<1>1. d \in Int /\ b * d <= a /\ e \in Int /\ c < b * e + b
  BY Division
<1> HIDE DEF d, e
<1>2. ~(e < d)
  <2> SUFFICES ASSUME e + 1 <= d PROVE FALSE
    BY <1>1
  <2>1. b * (e + 1) <= b * d /\ b * (e + 1) = b * e + b
    BY <1>1
  <2> QED BY <1>1, <2>1
<1>3. d <= e
  BY <1>1, <1>2
<1> QED BY <1>3 DEF d, e

LEMMA Quotient ==
  ASSUME NEW a \in Int, NEW b \in Nat \ {0}, NEW q \in Int, b * q <= a, a < b * q + b
  PROVE  a \div b = q
<1> DEFINE d == a \div b
<1>1. d \in Int /\ b * d <= a /\ a < b * d + b
  BY Division
<1> HIDE DEF d
<1>2. ~(d < q)
  <2> SUFFICES ASSUME d < q PROVE FALSE
    OBVIOUS
  <2>1. d + 1 <= q
    BY <1>1
  <2>2. b * (d + 1) <= b * q
    BY <1>1, <2>1
  <2>3. b * (d + 1) = b * d + b
    BY <1>1
  <2> QED BY <1>1, <2>2, <2>3
<1>3. ~(q < d)
  <2> SUFFICES ASSUME q < d PROVE FALSE
    OBVIOUS
  <2>1. q + 1 <= d
    BY <1>1
  <2>2. b * (q + 1) <= b * d
    BY <1>1, <2>1
  <2>3. b * (q + 1) = b * q + b
    BY <1>1
  <2> QED BY <1>1, <2>2, <2>3
<1> QED BY <1>1, <1>2, <1>3 DEF d
-----------------------------------------------------------------------------
(***************************************************************************)
(* What a granted request asks of stats.acquirePermits: the slot, that is  *)
(* the period in which the caller goes on, and the permits given out so    *)
(* far.  The k-th permit of a smooth limiter belongs to slot k - 1.        *)
(***************************************************************************)
SmoothSlotIs(P, k, t, r) ==
  LET upcoming == Smooth!newNextFreePermitTime(k * P, t, P, r)
      w == Smooth!waitTime(upcoming, t, P)
  IN \E m \in Nat : upcoming = m * P /\ m - r >= k /\ w \in Nat /\ (t + w) \div P = m - 1

LEMMA SmoothSlot ==
  ASSUME NEW P \in Nat \ {0}, NEW k \in Nat, NEW t \in Nat, NEW r \in Nat \ {0}
  PROVE  SmoothSlotIs(P, k, t, r)
<1> DEFINE upcoming == Smooth!newNextFreePermitTime(k * P, t, P, r)
           w == Smooth!waitTime(upcoming, t, P)
           d == t \div P
           base == IF t >= k * P THEN d ELSE k
           m == base + r
<1>1. d \in Int /\ P * d <= t /\ t < P * d + P /\ t % P = t - P * d
  BY Division
<1>2. d \in Nat
  BY DivisionNat
<1> HIDE DEF d
<1>3. base \in Nat /\ base >= k /\ (base * P > t => k * P > t /\ base = k) /\ t < base * P + P
  <2>1. CASE t >= k * P
    <3>1. ~(d < k)
      <4> SUFFICES ASSUME d + 1 <= k PROVE FALSE
        BY <1>2
      <4>1. (d + 1) * P <= k * P /\ (d + 1) * P = P * d + P
        BY <1>2
      <4> QED BY <1>1, <1>2, <2>1, <4>1
    <3>2. d * P = P * d
      BY <1>2
    <3> QED BY <1>1, <1>2, <2>1, <3>1, <3>2
  <2>2. CASE t < k * P
    BY <2>2
  <2> QED BY <2>1, <2>2
<1>4. upcoming = base * P + P * r
  BY <1>1, <1>2 DEF Smooth!newNextFreePermitTime, Smooth!RoundDown
<1> HIDE DEF base
<1>5. m \in Nat /\ upcoming = m * P /\ m - r >= k
  BY <1>3, <1>4
<1>6. P * (m - 1) = upcoming - P /\ upcoming \in Nat
  BY <1>3, <1>5
<1>7. w \in Nat /\ (t + w) \div P = m - 1
  <2> HIDE DEF upcoming, m
  <2>1. m \in Nat /\ m - 1 \in Int
    BY <1>5
  <2>2. CASE upcoming - t - P >= 0
    <3>1. w = upcoming - t - P
      BY <2>2 DEF Smooth!waitTime
    <3>2. w \in Nat /\ t + w = P * (m - 1)
      BY <1>6, <2>1, <2>2, <3>1
    <3> QED BY <2>1, <3>2, Quotient
  <2>3. CASE ~(upcoming - t - P >= 0)
    <3>1. w = 0
      BY <2>3 DEF Smooth!waitTime
    <3>2. P * (m - 1) < t
      BY <1>6, <2>1, <2>3
    <3>3. P * (m - 1) + P = upcoming /\ base * P + P <= upcoming
      <4>1. P * r >= P
        OBVIOUS
      <4> QED BY <1>3, <1>4, <1>6, <4>1
    <3>4. t < P * (m - 1) + P
      BY <1>3, <1>6, <3>3
    <3> QED BY <2>1, <3>1, <3>2, <3>4, Quotient
  <2> QED BY <2>2, <2>3
<1> HIDE DEF upcoming, w, m
<1> QED BY <1>5, <1>7 DEF upcoming, w, SmoothSlotIs

BurstyType == [availablePermits : Int, currentPeriod : Nat]

\* The permits of the periods up to the current one that are not left.
Given(b, PP) == (b.currentPeriod + 1) * PP - b.availablePermits

\* A new period never gives out permits that its predecessors already gave out.
LEMMA BurstyRefresh ==
  ASSUME NEW P \in Nat \ {0}, NEW PP \in Nat \ {0}, NEW t \in Nat,
         NEW b \in BurstyType, b.currentPeriod <= t \div P
  PROVE  LET f == Bursty!refreshed(b, t, P, PP)
         IN /\ f \in BurstyType /\ f.currentPeriod = t \div P
            /\ Given(f, PP) \in Int /\ Given(b, PP) \in Int /\ Given(b, PP) <= Given(f, PP)
<1> DEFINE f == Bursty!refreshed(b, t, P, PP)
           n == t \div P
           c == b.currentPeriod
           a == b.availablePermits
<1>1. n \in Int /\ c \in Nat /\ a \in Int /\ c <= n
  BY Division DEF BurstyType
<1>2. CASE c >= n
  <2>1. f = b
    BY <1>2 DEF Bursty!refreshed
  <2> HIDE DEF n, f
  <2>2. c = n
    BY <1>1, <1>2
  <2>3. Given(b, PP) \in Int
    BY <1>1 DEF Given
  <2> QED BY <2>1, <2>2, <2>3 DEF f, n
<1>3. CASE ~(c >= n)
  <2> DEFINE v == IF a < 0 THEN a + (n - c) * PP ELSE PP
  <2>1. f = [availablePermits |-> v, currentPeriod |-> n]
    BY <1>3 DEF Bursty!refreshed
  <2> HIDE DEF n, f, c, a
  <2>2. n \in Nat /\ c + 1 <= n
    BY <1>1, <1>3
  <2>3. v \in Int
    BY <1>1, <2>2
  <2>4. (c + 1) * PP - a <= (n + 1) * PP - v /\ (c + 1) * PP - a \in Int /\ (n + 1) * PP - v \in Int
    <3>1. (c + 1) * PP <= n * PP
      BY <1>1, <2>2
    <3>2. (n + 1) * PP = n * PP + PP /\ (c + 1) * PP = c * PP + PP /\ (n - c) * PP = n * PP - c * PP
      BY <1>1, <2>2
    <3>3. n * PP \in Int /\ c * PP \in Int
      BY <1>1
    <3> QED BY <1>1, <3>1, <3>2, <3>3
  <2>5. Given(b, PP) = (c + 1) * PP - a /\ Given(f, PP) = (n + 1) * PP - v
    BY <2>1 DEF Given, a, c
  <2> HIDE DEF v
  <2>6. f \in BurstyType /\ f.currentPeriod = n
    BY <2>1, <2>2, <2>3 DEF BurstyType
  <2> QED BY <2>4, <2>5, <2>6 DEF f, n
<1> QED BY <1>2, <1>3

\* The slot of a request is the first whose permits, with those before it, are enough.
BurstySlotIs(P, PP, t, r, f) ==
  LET w == Bursty!waitTime(f, t, P, PP, r)
      s == (t + w) \div P
      n == Bursty!taken(f, r)
  IN /\ w \in Nat /\ s \in Nat /\ n \in BurstyType /\ n.currentPeriod = f.currentPeriod
     /\ Given(n, PP) = Given(f, PP) + r /\ Given(f, PP) + r <= (s + 1) * PP

LEMMA BurstySlot ==
  ASSUME NEW P \in Nat \ {0}, NEW PP \in Nat \ {0}, NEW t \in Nat, NEW r \in Nat \ {0},
         NEW f \in BurstyType, f.currentPeriod = t \div P
  PROVE  BurstySlotIs(P, PP, t, r, f)
<1> DEFINE w == Bursty!waitTime(f, t, P, PP, r)
           s == (t + w) \div P
           c == f.currentPeriod
           a == f.availablePermits
<1>1. c \in Nat /\ a \in Int /\ c = t \div P /\ P * c <= t /\ t < P * c + P
  BY Division DEF BurstyType
<1>2. /\ Bursty!taken(f, r) \in BurstyType /\ Bursty!taken(f, r).currentPeriod = c
      /\ Given(Bursty!taken(f, r), PP) = Given(f, PP) + r
  <2>1. Bursty!taken(f, r) = [availablePermits |-> a - r, currentPeriod |-> c]
    BY DEF Bursty!taken, BurstyType
  <2>2. Given(Bursty!taken(f, r), PP) = (c + 1) * PP - (a - r)
    BY <2>1 DEF Given
  <2>3. (c + 1) * PP - (a - r) = ((c + 1) * PP - a) + r
    BY <1>1
  <2> QED BY <1>1, <2>1, <2>2, <2>3 DEF Given, BurstyType
<1>3. Given(f, PP) = (c + 1) * PP - a
  BY DEF Given
<1>4. CASE r <= a
  <2>1. w = 0
    BY <1>4 DEF Bursty!waitTime
  <2>2. s = c /\ w \in Nat
    BY <1>1, <2>1
  <2> HIDE DEF s, w, c, a
  <2>3. (c + 1) * PP - a + r <= (c + 1) * PP
    <3>1. (c + 1) * PP \in Int
      BY <1>1
    <3> QED BY <1>1, <1>4, <3>1
  <2> QED BY <1>1, <1>2, <1>3, <2>2, <2>3 DEF s, w, c, BurstySlotIs
<1>5. CASE ~(r <= a)
  <2> DEFINE d == r - a
             x == d \div PP
             u == d % PP
             j == IF u = 0 THEN x - 1 ELSE x
  <2>1. d \in Nat \ {0} /\ x \in Int /\ PP * x <= d /\ d < PP * x + PP /\ u = d - PP * x
    <3>1. d \in Nat \ {0}
      BY <1>1, <1>5
    <3> HIDE DEF d
    <3> QED BY <3>1, Division
  <2>2. w = (c + 1) * P - t + j * P
    BY <1>5 DEF Bursty!waitTime
  <2> HIDE DEF d, x, u, w, s, a, c
  <2>3. x >= 0 /\ j \in Int /\ j >= 0
    <3>1. ~(x < 0)
      <4> SUFFICES ASSUME x + 1 <= 0 PROVE FALSE
        BY <2>1
      <4>1. PP * (x + 1) <= 0 /\ PP * (x + 1) = PP * x + PP
        BY <2>1
      <4> QED BY <2>1, <4>1
    <3>2. u = 0 => x # 0
      BY <2>1
    <3> QED BY <2>1, <3>1, <3>2
  <2>4. d <= (j + 1) * PP
    <3>1. CASE u = 0
      <4>1. d = PP * x /\ j + 1 = x
        BY <2>1, <3>1
      <4> QED BY <2>1, <4>1
    <3>2. CASE u # 0
      <4>1. j = x /\ (x + 1) * PP = PP * x + PP
        BY <2>1, <3>2
      <4> QED BY <2>1, <4>1
    <3> QED BY <3>1, <3>2
  <2> HIDE DEF j
  <2>5. w \in Nat /\ t + w = P * (c + 1 + j)
    <3>1. (c + 1) * P = P * c + P /\ j * P >= 0 /\ j * P \in Int /\ P * c \in Int
      BY <1>1, <2>3
    <3>2. P * (c + 1 + j) = P * c + P + j * P
      BY <1>1, <2>3
    <3> QED BY <1>1, <2>2, <3>1, <3>2
  <2>6. s = c + 1 + j
    <3>1. c + 1 + j \in Int /\ t + w \in Int
      BY <1>1, <2>3, <2>5
    <3>2. P * (c + 1 + j) <= t + w /\ t + w < P * (c + 1 + j) + P
      BY <2>5, <3>1
    <3> QED BY <3>1, <3>2, Quotient DEF s
  <2>7. (c + 1) * PP - a + r <= (s + 1) * PP
    <3>1. (s + 1) * PP = (c + 1) * PP + (j + 1) * PP
      BY <1>1, <2>3, <2>6
    <3>2. (c + 1) * PP \in Int /\ (j + 1) * PP \in Int
      BY <1>1, <2>3
    <3> QED BY <1>1, <2>4, <3>1, <3>2 DEF d
  <2>8. s \in Nat
    BY <1>1, <2>3, <2>6
  <2> QED BY <1>2, <1>3, <2>5, <2>7, <2>8 DEF s, w, c, a, BurstySlotIs
<1> QED BY <1>4, <1>5
-----------------------------------------------------------------------------
(***************************************************************************)
(* The permits claimed in a set S of periods: those that were used in      *)
(* them, and those of the callers that wait for one of them.               *)
(***************************************************************************)
Waits == [Exec -> [left : Nat \cup {-1}, permits : Nat]]

Share(n, t, P, S) == IF (t + n.left) \div P \in S THEN n.permits ELSE 0

Claims(w, t, P, S) == [e \in Exec |-> Share(w[e], t, P, S)]

Claimed(u, w, t, P, S) == SumFunctionOnSet(u, S) + SumFunctionOnSet(Claims(w, t, P, S), Exec)

LEMMA ClaimedCovers ==
  ASSUME NEW S, IsFiniteSet(S), NEW u, \A x \in S : u[x] \in Nat, NEW w \in Waits, NEW t, NEW P
  PROVE  /\ Claimed(u, w, t, P, S) \in Int
         /\ SumFunctionOnSet(u, S) \in Int /\ SumFunctionOnSet(u, S) <= Claimed(u, w, t, P, S)
         /\ SumFunctionOnSet(Claims(w, t, P, S), Exec) \in Int
<1> DEFINE c == Claims(w, t, P, S)
           z == [e \in Exec |-> 0]
<1>1. IsFiniteSet(Exec)
  BY LimiterAssumption
<1>2. \A e \in Exec : c[e] \in Nat /\ z[e] = 0
  BY DEF Claims, Share, Waits
<1> HIDE DEF c, z
<1>3. SumFunctionOnSet(u, S) \in Int
  <2>1. \A x \in S : u[x] \in Int
    OBVIOUS
  <2> QED BY <2>1, SumType
<1>4. SumFunctionOnSet(c, Exec) \in Int
  <2>1. \A e \in Exec : c[e] \in Int
    BY <1>2
  <2> QED BY <1>1, <2>1, SumType
<1>5. SumFunctionOnSet(z, Exec) = 0 * Cardinality(Exec)
  BY <1>1, <1>2, SumConstant
<1>6. SumFunctionOnSet(z, Exec) <= SumFunctionOnSet(c, Exec)
  <2>1. \A e \in Exec : z[e] \in Int /\ c[e] \in Int /\ z[e] <= c[e]
    BY <1>2
  <2> QED BY <1>1, <2>1, SumMonotone
<1>7. Cardinality(Exec) \in Nat
  BY <1>1, FS_CardinalityType
<1>8. 0 <= SumFunctionOnSet(c, Exec)
  BY <1>5, <1>6, <1>7
<1> QED BY <1>3, <1>4, <1>8 DEF Claimed, c

\* A caller's wait becomes n; r permits are used in a period.
Put(w, e, n) == [w EXCEPT ![e] = n]
UseIn(u, s, r) == [u EXCEPT ![s] = @ + r]

\* A caller's new wait adds its permits in its slot and takes away the old ones.
LEMMA ClaimsChange ==
  ASSUME NEW S, NEW w \in Waits, NEW t, NEW P, NEW e \in Exec,
         NEW n \in [left : Nat \cup {-1}, permits : Nat]
  PROVE  LET v == Put(w, e, n)
         IN /\ v \in Waits
            /\ SumFunctionOnSet(Claims(v, t, P, S), Exec)
                 = SumFunctionOnSet(Claims(w, t, P, S), Exec)
                     + (Share(n, t, P, S) - Share(w[e], t, P, S))
<1> DEFINE v == Put(w, e, n)
           c == Claims(w, t, P, S)
           d == Claims(v, t, P, S)
<1>1. v \in Waits /\ v[e] = n /\ \A x \in Exec \ {e} : v[x] = w[x]
  BY DEF Waits, Put
<1> HIDE DEF v
<1>2. \A x \in Exec : c[x] \in Int /\ d[x] \in Int
  BY <1>1 DEF Claims, Share, Waits
<1>3. \A x \in Exec \ {e} : c[x] = d[x]
  BY <1>1 DEF Claims
<1>4. c[e] = Share(w[e], t, P, S) /\ d[e] = Share(n, t, P, S)
  BY <1>1 DEF Claims
<1> HIDE DEF c, d
<1>5. SumFunctionOnSet(d, Exec) = SumFunctionOnSet(c, Exec) + (d[e] - c[e])
  BY <1>2, <1>3, SumChange, LimiterAssumption
<1> QED BY <1>1, <1>4, <1>5 DEF v, c, d

GrantClaims(u, w, t, P, e, left, r, S) ==
  Claimed(u, Put(w, e, [left |-> left, permits |-> r]), t, P, S)
    = Claimed(u, w, t, P, S) + (IF (t + left) \div P \in S THEN r ELSE 0)

UsedAsClaimed(u, w, t, P, e, S) ==
  Claimed(UseIn(u, t \div P, w[e].permits), Put(w, e, Idle), t, P, S) = Claimed(u, w, t, P, S)

\* A grant claims the permits in its slot, ...
LEMMA ClaimGrant ==
  ASSUME NEW S, IsFiniteSet(S), NEW u, \A x \in S : u[x] \in Nat, NEW w \in Waits,
         NEW t, NEW P, NEW e \in Exec, w[e] = Idle, NEW left \in Nat, NEW r \in Nat
  PROVE  GrantClaims(u, w, t, P, e, left, r, S)
<1> DEFINE n == [left |-> left, permits |-> r]
           v == Put(w, e, n)
           a == SumFunctionOnSet(Claims(w, t, P, S), Exec)
           b == SumFunctionOnSet(Claims(v, t, P, S), Exec)
           g == IF (t + left) \div P \in S THEN r ELSE 0
           k == SumFunctionOnSet(u, S)
<1>1. n \in [left : Nat \cup {-1}, permits : Nat] /\ n.left = left /\ n.permits = r
  OBVIOUS
<1>2. w[e].permits = 0
  BY DEF Idle
<1> HIDE DEF n
<1>3. v \in Waits /\ b = a + (Share(n, t, P, S) - Share(w[e], t, P, S))
  BY <1>1, ClaimsChange
<1>4. v \in Waits /\ b = a + (g - 0)
  BY <1>1, <1>2, <1>3 DEF Share
<1>5. a \in Int /\ k \in Int /\ g \in Int
  BY ClaimedCovers
<1> HIDE DEF v, a, b, g, k
<1>6. k + b = (k + a) + g
  BY <1>4, <1>5
<1> QED BY <1>6 DEF Claimed, GrantClaims, v, a, b, g, k, n

\* ... a use in the slot is what was claimed for it, ...
LEMMA ClaimUsed ==
  ASSUME NEW H, NEW S \in SUBSET H, IsFiniteSet(S), NEW u \in [H -> Nat], NEW w \in Waits,
         NEW t \in Int, NEW P, NEW e \in Exec, w[e].left = 0
  PROVE  /\ Put(w, e, Idle) \in Waits /\ UseIn(u, t \div P, w[e].permits) \in [H -> Nat]
         /\ UsedAsClaimed(u, w, t, P, e, S)
<1> DEFINE v == Put(w, e, Idle)
           r == w[e].permits
           s == t \div P
           z == UseIn(u, s, r)
           a == SumFunctionOnSet(Claims(w, t, P, S), Exec)
           b == SumFunctionOnSet(Claims(v, t, P, S), Exec)
           g == IF s \in S THEN r ELSE 0
           k == SumFunctionOnSet(u, S)
           l == SumFunctionOnSet(z, S)
<1>1. Idle \in [left : Nat \cup {-1}, permits : Nat] /\ Idle.permits = 0
  BY DEF Idle
<1>2. r \in Nat /\ t + w[e].left = t
  BY DEF Waits
<1>3. v \in Waits /\ b = a + (Share(Idle, t, P, S) - Share(w[e], t, P, S))
  BY <1>1, ClaimsChange
<1>4. v \in Waits /\ b = a + (0 - g)
  BY <1>1, <1>2, <1>3 DEF Share
<1> HIDE DEF s, r
<1>5. z \in [H -> Nat]
  <2>1. z = [x \in H |-> IF x = s THEN u[x] + r ELSE u[x]]
    BY Zenon DEF UseIn
  <2>2. \A x \in H : u[x] \in Nat /\ u[x] + r \in Nat
    BY <1>2
  <2> QED BY <2>1, <2>2
<1>6. a \in Int /\ k \in Int /\ g \in Int
  BY <1>2, ClaimedCovers
<1>7. l = k + g
  <2>1. CASE s \in S
    <3>1. z[s] = u[s] + r /\ \A x \in S \ {s} : u[x] = z[x]
      BY <2>1 DEF UseIn
    <3>2. \A x \in S : u[x] \in Int /\ z[x] \in Int
      BY <1>5
    <3>3. u[s] \in Nat
      BY <2>1
    <3> HIDE DEF z
    <3>4. l = k + (z[s] - u[s])
      BY <2>1, <3>1, <3>2, SumChange
    <3> QED BY <1>2, <1>6, <2>1, <3>1, <3>3, <3>4
  <2>2. CASE s \notin S
    <3>1. \A x \in S : z[x] = u[x]
      BY <2>2 DEF UseIn
    <3> HIDE DEF z
    <3>2. l = k
      BY <3>1, SumSame
    <3> QED BY <1>6, <2>2, <3>2
  <2> QED BY <2>1, <2>2
<1> HIDE DEF v, z, a, b, g, k, l
<1>8. l + b = k + a
  BY <1>4, <1>6, <1>7
<1> QED BY <1>4, <1>5, <1>8 DEF Claimed, UsedAsClaimed, v, z, a, b, k, l, s, r

\* ... a canceled wait gives its claim up, ...
LEMMA ClaimDropped ==
  ASSUME NEW S, IsFiniteSet(S), NEW u, \A x \in S : u[x] \in Nat, NEW w \in Waits,
         NEW t, NEW P, NEW e \in Exec
  PROVE  LET v == Put(w, e, Idle)
         IN v \in Waits /\ Claimed(u, v, t, P, S) <= Claimed(u, w, t, P, S)
<1> DEFINE v == Put(w, e, Idle)
           a == SumFunctionOnSet(Claims(w, t, P, S), Exec)
           b == SumFunctionOnSet(Claims(v, t, P, S), Exec)
           g == Share(w[e], t, P, S)
           k == SumFunctionOnSet(u, S)
<1>1. Idle \in [left : Nat \cup {-1}, permits : Nat] /\ Share(Idle, t, P, S) = 0
  BY DEF Idle, Share
<1>2. v \in Waits /\ b = a + (0 - g)
  BY <1>1, ClaimsChange
<1>3. a \in Int /\ k \in Int
  BY ClaimedCovers
<1>4. g \in Nat
  BY DEF Share, Waits
<1> HIDE DEF v, a, b, g, k
<1>5. k + b <= k + a
  BY <1>2, <1>3, <1>4
<1> QED BY <1>2, <1>5 DEF Claimed, v, a, b, k

\* ... the passing of time moves no claim, ...
LEMMA ClaimKept ==
  ASSUME NEW S, NEW u, NEW w \in Waits, NEW t \in Nat, NEW P,
         \A e \in Exec : w[e].left # 0 /\ (w[e].left = -1 => w[e].permits = 0)
  PROVE  LET v == [e \in Exec |-> IF w[e].left > 0 THEN [w[e] EXCEPT !.left = @ - 1] ELSE w[e]]
         IN v \in Waits /\ Claimed(u, v, t + 1, P, S) = Claimed(u, w, t, P, S)
<1> DEFINE v == [e \in Exec |-> IF w[e].left > 0 THEN [w[e] EXCEPT !.left = @ - 1] ELSE w[e]]
           c == Claims(w, t, P, S)
           d == Claims(v, t + 1, P, S)
<1>1. \A e \in Exec : /\ v[e] \in [left : Nat \cup {-1}, permits : Nat]
                      /\ v[e].permits = w[e].permits
                      /\ v[e].left >= 0 => (t + 1) + v[e].left = t + w[e].left
                      /\ v[e].left < 0 => w[e].permits = 0
  BY DEF Waits
<1>2. v \in Waits
  BY <1>1 DEF Waits
<1> HIDE DEF v
<1>3. \A e \in Exec : d[e] = c[e]
  <2> SUFFICES ASSUME NEW e \in Exec PROVE Share(v[e], t + 1, P, S) = Share(w[e], t, P, S)
    BY DEF Claims
  <2>1. v[e].left \in Int
    BY <1>1
  <2>2. CASE v[e].left >= 0
    BY <1>1, <2>2 DEF Share
  <2>3. CASE v[e].left < 0
    BY <1>1, <2>3 DEF Share
  <2> QED BY <2>1, <2>2, <2>3
<1> HIDE DEF c, d
<1>4. SumFunctionOnSet(d, Exec) = SumFunctionOnSet(c, Exec)
  BY <1>3, SumSame, LimiterAssumption
<1> QED BY <1>2, <1>4 DEF Claimed, v, c, d

\* ... and after a Reset nothing is claimed.
LEMMA ClaimNone ==
  ASSUME NEW H, NEW S \in SUBSET H, IsFiniteSet(S), NEW w \in Waits, NEW P, NEW t,
         \A e \in Exec : w[e].permits = 0
  PROVE  Claimed([p \in H |-> 0], w, t, P, S) = 0
<1> DEFINE u == [p \in H |-> 0]
           c == Claims(w, t, P, S)
<1>1. (\A x \in S : u[x] = 0) /\ \A e \in Exec : c[e] = 0
  BY DEF Claims, Share
<1> HIDE DEF u, c
<1>2. SumFunctionOnSet(u, S) = 0 * Cardinality(S)
  BY <1>1, SumConstant
<1>3. SumFunctionOnSet(c, Exec) = 0 * Cardinality(Exec)
  BY <1>1, SumConstant, LimiterAssumption
<1>4. Cardinality(S) \in Nat /\ Cardinality(Exec) \in Nat
  BY FS_CardinalityType, LimiterAssumption
<1>5. SumFunctionOnSet(u, S) + SumFunctionOnSet(c, Exec) = 0
  BY <1>2, <1>3, <1>4
<1> QED BY <1>5 DEF Claimed, u, c

\* The largest request there is.
LEMMA LargestRequest ==
  Max(Requests) \in Nat \ {0} /\ \A r \in Requests : r <= Max(Requests)
<1> DEFINE F == {s \in SUBSET Requests : s = {} \/ \E x \in s : \A y \in s : y <= x}
<1>1. \A r \in Requests : r \in Nat \ {0}
  BY LimiterAssumption
<1>2. \A s \in SUBSET Requests : s \in F => \A x \in Requests \ s : s \cup {x} \in F
  <2> SUFFICES ASSUME NEW s \in SUBSET Requests, s \in F, NEW x \in Requests \ s
               PROVE  \E m \in s \cup {x} : \A y \in s \cup {x} : y <= m
    OBVIOUS
  <2>1. CASE s = {}
    BY <1>1, <2>1
  <2>2. CASE s # {}
    <3>1. PICK m \in s : \A y \in s : y <= m
      BY <2>2
    <3>2. m \in Nat /\ x \in Nat
      BY <1>1
    <3>3. CASE m <= x
      <4>1. \A y \in s : y \in Nat /\ y <= x
        BY <1>1, <3>1, <3>2, <3>3
      <4> QED BY <3>2, <4>1
    <3>4. CASE x <= m
      BY <3>1, <3>4
    <3> QED BY <3>2, <3>3, <3>4
  <2> QED BY <2>1, <2>2
<1>3. Requests \in F
  <2>1. {} \in F
    OBVIOUS
  <2> HIDE DEF F
  <2> QED BY <1>2, <2>1, FiniteInduction, LimiterAssumption, Zenon
<1>4. PICK m \in Requests : \A y \in Requests : y <= m
  BY <1>3, LimiterAssumption, Zenon
<1>5. \A y \in Requests : m >= y
  BY <1>1, <1>4
<1>6. Max(Requests) \in Requests /\ \A y \in Requests : Max(Requests) >= y
  BY <1>5 DEF Max
<1> QED BY <1>1, <1>6
-----------------------------------------------------------------------------
(***************************************************************************)
(* The bounds on the claims: by the end of a period no more is claimed     *)
(* than the periods until then give, nor than was given out; and of the k  *)
(* slots that a smooth limiter gave out, no run of slots has many claims.  *)
(***************************************************************************)
Averages(u, w, t, P, PP, H, given) ==
  \A p \in H : /\ Claimed(u, w, t, P, 0..p) <= (p + 1) * PP
               /\ Claimed(u, w, t, P, 0..p) <= given

Spaced(u, w, t, P, H, k) ==
  \A p, q \in H :
    p <= q => IF p < k THEN /\ Claimed(u, w, t, P, p..q) <= q - p + Max(Requests)
                            /\ Claimed(u, w, t, P, p..q) <= k - 1 - p + Max(Requests)
              ELSE Claimed(u, w, t, P, p..q) <= 0

\* Nothing new is claimed.
NoMore(u, w, t, z, v, s, P, H) ==
  \A p, q \in H : /\ Claimed(u, w, t, P, p..q) \in Int /\ Claimed(z, v, s, P, p..q) \in Int
                  /\ Claimed(z, v, s, P, p..q) <= Claimed(u, w, t, P, p..q)

LEMMA Runs ==
  ASSUME NEW h \in Nat, NEW p \in 0..h, NEW q \in 0..h
  PROVE  /\ p..q \in SUBSET (0..h) /\ IsFiniteSet(p..q) /\ 0 \in 0..h /\ p \in Nat /\ q \in Nat
         /\ \A x \in Int : x \in p..q <=> p <= x /\ x <= q
BY FS_Interval

LEMMA NoMoreKeeps ==
  ASSUME NEW u, NEW w, NEW t, NEW z, NEW v, NEW s, NEW P, NEW h \in Nat,
         NoMore(u, w, t, z, v, s, P, 0..h)
  PROVE  /\ \A PP \in Nat, c \in Int, d \in Int :
              c <= d /\ Averages(u, w, t, P, PP, 0..h, c) => Averages(z, v, s, P, PP, 0..h, d)
         /\ \A k \in Nat : Spaced(u, w, t, P, 0..h, k) => Spaced(z, v, s, P, 0..h, k)
<1>1. ASSUME NEW PP \in Nat, NEW c \in Int, NEW d \in Int, c <= d,
             Averages(u, w, t, P, PP, 0..h, c), NEW p \in 0..h
      PROVE  /\ Claimed(z, v, s, P, 0..p) <= (p + 1) * PP
             /\ Claimed(z, v, s, P, 0..p) <= d
  <2> DEFINE a == Claimed(u, w, t, P, 0..p)
             b == Claimed(z, v, s, P, 0..p)
             m == (p + 1) * PP
  <2>1. a \in Int /\ b \in Int /\ b <= a
    BY Runs DEF NoMore
  <2>2. a <= m /\ a <= c
    BY <1>1 DEF Averages
  <2>3. m \in Int
    OBVIOUS
  <2> HIDE DEF a, b, m
  <2>4. b <= m /\ b <= d
    BY <1>1, <2>1, <2>2, <2>3
  <2> QED BY <2>4 DEF b, m
<1>2. ASSUME NEW k \in Nat, Spaced(u, w, t, P, 0..h, k), NEW p \in 0..h, NEW q \in 0..h, p <= q
      PROVE  IF p < k THEN /\ Claimed(z, v, s, P, p..q) <= q - p + Max(Requests)
                           /\ Claimed(z, v, s, P, p..q) <= k - 1 - p + Max(Requests)
             ELSE Claimed(z, v, s, P, p..q) <= 0
  <2> DEFINE a == Claimed(u, w, t, P, p..q)
             b == Claimed(z, v, s, P, p..q)
             M == Max(Requests)
  <2>1. a \in Int /\ b \in Int /\ b <= a
    BY DEF NoMore
  <2>2. IF p < k THEN a <= q - p + M /\ a <= k - 1 - p + M ELSE a <= 0
    BY <1>2 DEF Spaced
  <2>3. M \in Int
    BY LargestRequest
  <2> HIDE DEF a, b, M
  <2>4. IF p < k THEN b <= q - p + M /\ b <= k - 1 - p + M ELSE b <= 0
    BY <2>1, <2>2, <2>3
  <2> QED BY <2>4 DEF b, M
<1> QED BY <1>1, <1>2 DEF Averages, Spaced

\* What a grant of r permits in slot s does to the claims.
Granted(u, w, t, v, P, H, s, r) ==
  \A p, q \in H : /\ Claimed(u, w, t, P, p..q) \in Int
                  /\ p <= s /\ s <= q => Claimed(u, v, t, P, p..q) = Claimed(u, w, t, P, p..q) + r
                  /\ ~(p <= s /\ s <= q) => Claimed(u, v, t, P, p..q) = Claimed(u, w, t, P, p..q)

LEMMA GrantAverages ==
  ASSUME NEW u, NEW w, NEW t, NEW v, NEW P, NEW h \in Nat, NEW s \in 0..h, NEW r \in Nat,
         Granted(u, w, t, v, P, 0..h, s, r), NEW PP \in Nat, NEW c \in Int, NEW d \in Int,
         c + r <= d, c + r <= (s + 1) * PP, Averages(u, w, t, P, PP, 0..h, c)
  PROVE  Averages(u, v, t, P, PP, 0..h, d)
<1> SUFFICES ASSUME NEW p \in 0..h
             PROVE  /\ Claimed(u, v, t, P, 0..p) <= (p + 1) * PP
                    /\ Claimed(u, v, t, P, 0..p) <= d
  BY DEF Averages
<1> DEFINE a == Claimed(u, w, t, P, 0..p)
           b == Claimed(u, v, t, P, 0..p)
           m == (p + 1) * PP
           l == (s + 1) * PP
<1>1. a <= m /\ a <= c
  BY DEF Averages
<1>2. a \in Int /\ (0 <= s /\ s <= p => b = a + r) /\ (~(0 <= s /\ s <= p) => b = a)
  BY Runs DEF Granted
<1>3. m \in Int /\ l \in Int /\ c + r <= l
  OBVIOUS
<1>4. s <= p => l <= m
  OBVIOUS
<1> HIDE DEF a, b, m, l
<1>5. b <= m /\ b <= d
  <2>1. CASE s <= p
    <3>1. b = a + r /\ l <= m
      BY <1>2, <1>4, <2>1
    <3> QED BY <1>1, <1>2, <1>3, <3>1
  <2>2. CASE ~(s <= p)
    BY <1>1, <1>2, <2>2
  <2> QED BY <2>1, <2>2
<1> QED BY <1>5 DEF b, m

LEMMA GrantSpaced ==
  ASSUME NEW u, NEW w, NEW t, NEW v, NEW P, NEW h \in Nat, NEW s \in 0..h, NEW r \in Nat \ {0},
         Granted(u, w, t, v, P, 0..h, s, r), NEW k \in Nat,
         k + r <= s + 1, r <= Max(Requests), Spaced(u, w, t, P, 0..h, k)
  PROVE  Spaced(u, v, t, P, 0..h, s + 1)
<1> SUFFICES ASSUME NEW p \in 0..h, NEW q \in 0..h, p <= q
             PROVE  IF p < s + 1
                    THEN /\ Claimed(u, v, t, P, p..q) <= q - p + Max(Requests)
                         /\ Claimed(u, v, t, P, p..q) <= s + 1 - 1 - p + Max(Requests)
                    ELSE Claimed(u, v, t, P, p..q) <= 0
  BY DEF Spaced
<1> DEFINE a == Claimed(u, w, t, P, p..q)
           b == Claimed(u, v, t, P, p..q)
           M == Max(Requests)
<1>1. IF p < k THEN a <= q - p + M /\ a <= k - 1 - p + M ELSE a <= 0
  BY DEF Spaced
<1>2. a \in Int /\ (p <= s /\ s <= q => b = a + r) /\ (~(p <= s /\ s <= q) => b = a)
  BY DEF Granted
<1>3. M \in Int /\ r <= M
  BY LargestRequest
<1> HIDE DEF a, b, M
<1>4. IF p < s + 1 THEN b <= q - p + M /\ b <= s + 1 - 1 - p + M ELSE b <= 0
  <2>1. CASE p <= s /\ s <= q
    <3>1. b = a + r
      BY <1>2, <2>1
    <3>2. CASE p < k
      BY <1>1, <1>2, <1>3, <2>1, <3>1, <3>2
    <3>3. CASE ~(p < k)
      BY <1>1, <1>2, <1>3, <2>1, <3>1, <3>3
    <3> QED BY <3>2, <3>3
  <2>2. CASE ~(p <= s /\ s <= q)
    <3>1. b = a
      BY <1>2, <2>2
    <3>2. CASE p < k
      BY <1>1, <1>2, <1>3, <3>1, <3>2
    <3>3. CASE ~(p < k)
      BY <1>1, <1>2, <1>3, <3>1, <3>3
    <3> QED BY <3>2, <3>3
  <2> QED BY <2>1, <2>2
<1> QED BY <1>4 DEF b, M
-----------------------------------------------------------------------------
(***************************************************************************)
(* The inductive invariant: the statistics st of a limiter with            *)
(* configuration c account for everything that is claimed.                 *)
(***************************************************************************)
Last(c) == MaxTime \div c.period + MaxAhead

Backed(c, st, u, w, t) ==
  IF c.kind = "smooth"
  THEN \E k \in Nat : /\ st.nextFreePermitTime = k * c.period
                      /\ Averages(u, w, t, c.period, c.periodPermits, 0..Last(c), k)
                      /\ Spaced(u, w, t, c.period, 0..Last(c), k)
  ELSE /\ st.currentPeriod <= t \div c.period
       /\ Averages(u, w, t, c.period, c.periodPermits, 0..Last(c), Given(st, c.periodPermits))

StatsType(c) == IF c.kind = "smooth" THEN [nextFreePermitTime : Nat] ELSE BurstyType

NoStaleClaim(w) == \A e \in Exec : w[e].left = -1 => w[e].permits = 0

LimiterInv ==
  /\ TypeOK
  /\ NoStaleClaim(wait)
  /\ Backed(config, stats, uses, wait, now)

LEMMA ConfigIs ==
  ASSUME NEW c \in Configs
  PROVE  /\ c.kind \in {"smooth", "bursty"} /\ c.period \in Nat \ {0} /\ c.periodPermits \in Nat \ {0}
         /\ MaxTime \div c.period \in Nat /\ Last(c) \in Nat
<1>1. c.kind \in {"smooth", "bursty"} /\ c.period \in Nat \ {0} /\ c.periodPermits \in Nat \ {0}
  BY LimiterAssumption
<1>2. MaxTime \in Nat /\ MaxAhead \in Nat
  BY LimiterAssumption
<1>3. MaxTime \div c.period \in Nat
  BY <1>1, <1>2, DivisionNat
<1> QED BY <1>1, <1>2, <1>3 DEF Last

LEMMA TypeIs ==
  TypeOK <=> /\ config \in Configs /\ stats \in StatsType(config) /\ now \in Nat
             /\ wait \in Waits /\ uses \in [0..Last(config) -> Nat]
BY DEF TypeOK, StatsType, BurstyType, Waits, Kind, Period, Horizon, Last

\* A step that claims nothing new keeps the account, also when a bursty
\* limiter enters a new period.
LEMMA BackedKept ==
  ASSUME NEW c \in Configs, NEW st \in StatsType(c), NEW nst \in StatsType(c),
         NEW u, NEW w, NEW t \in Nat, NEW z, NEW v, NEW s \in Nat, t <= s,
         NoMore(u, w, t, z, v, s, c.period, 0..Last(c)), Backed(c, st, u, w, t),
         IF c.kind = "smooth" THEN nst = st
         ELSE /\ nst.currentPeriod <= s \div c.period
              /\ Given(st, c.periodPermits) <= Given(nst, c.periodPermits)
  PROVE  Backed(c, nst, z, v, s)
<1> DEFINE P == c.period
           PP == c.periodPermits
           h == Last(c)
<1>1. P \in Nat \ {0} /\ PP \in Nat \ {0} /\ h \in Nat
  BY ConfigIs
<1> HIDE DEF P, PP, h
<1>2. /\ \A a \in Int, b \in Int :
           a <= b /\ Averages(u, w, t, P, PP, 0..h, a) => Averages(z, v, s, P, PP, 0..h, b)
      /\ \A k \in Nat : Spaced(u, w, t, P, 0..h, k) => Spaced(z, v, s, P, 0..h, k)
  <2>1. NoMore(u, w, t, z, v, s, P, 0..h)
    BY DEF P, h
  <2> QED BY <1>1, <2>1, NoMoreKeeps
<1>3. CASE c.kind = "smooth"
  <2>1. PICK k \in Nat : /\ st.nextFreePermitTime = k * P
                         /\ Averages(u, w, t, P, PP, 0..h, k) /\ Spaced(u, w, t, P, 0..h, k)
    BY <1>3 DEF Backed, P, PP, h
  <2>2. Averages(z, v, s, P, PP, 0..h, k) /\ Spaced(z, v, s, P, 0..h, k)
    BY <1>2, <2>1
  <2> QED BY <1>3, <2>1, <2>2, Zenon DEF Backed, P, PP, h
<1>4. CASE c.kind # "smooth"
  <2>1. Given(st, PP) \in Int /\ Given(nst, PP) \in Int
    <3>1. st \in BurstyType /\ nst \in BurstyType
      BY <1>4, Zenon DEF StatsType
    <3> QED BY <1>1, <3>1 DEF Given, BurstyType
  <2>2. Averages(u, w, t, P, PP, 0..h, Given(st, PP)) /\ Given(st, PP) <= Given(nst, PP)
    BY <1>4 DEF Backed, P, PP, h
  <2>3. Averages(z, v, s, P, PP, 0..h, Given(nst, PP))
    BY <1>2, <2>1, <2>2, SMTT(20)
  <2> QED BY <1>4, <2>3 DEF Backed, P, PP, h
<1> QED BY <1>3, <1>4

\* A grant is accounted for, by the smooth limiter ...
LEMMA SmoothGrant ==
  ASSUME NEW c \in Configs, c.kind = "smooth", NEW st \in StatsType(c), NEW u, NEW w, NEW v,
         NEW t \in Nat, NEW r \in Requests, Backed(c, st, u, w, t),
         NEW nx, NEW left, NEW s,
         nx = Smooth!newNextFreePermitTime(st.nextFreePermitTime, t, c.period, r),
         left = Smooth!waitTime(nx, t, c.period), s = (t + left) \div c.period,
         s \in 0..Last(c), Granted(u, w, t, v, c.period, 0..Last(c), s, r)
  PROVE  nx \in Nat /\ Backed(c, [nextFreePermitTime |-> nx], u, v, t)
<1> DEFINE P == c.period
           PP == c.periodPermits
           h == Last(c)
<1>1. P \in Nat \ {0} /\ PP \in Nat \ {0} /\ h \in Nat
  BY ConfigIs
<1>2. r \in Nat \ {0} /\ r <= Max(Requests)
  BY LargestRequest, LimiterAssumption
<1> HIDE DEF P, PP, h
<1>3. PICK k \in Nat : /\ st.nextFreePermitTime = k * P
                       /\ Averages(u, w, t, P, PP, 0..h, k) /\ Spaced(u, w, t, P, 0..h, k)
  BY DEF Backed, P, PP, h
<1>4. PICK m \in Nat : nx = m * P /\ m - r >= k /\ (t + left) \div P = m - 1
  <2>1. nx = Smooth!newNextFreePermitTime(k * P, t, P, r) /\ left = Smooth!waitTime(nx, t, P)
    BY <1>3 DEF P
  <2>2. SmoothSlotIs(P, k, t, r)
    BY <1>1, <1>2, SmoothSlot
  <2> QED BY <2>1, <2>2, Zenon DEF SmoothSlotIs
<1>5. s = m - 1 /\ s \in 0..h /\ Granted(u, w, t, v, P, 0..h, s, r)
  BY <1>4 DEF P, h
<1>6. k + r <= s + 1 /\ k + r <= m /\ s + 1 = m /\ k + r <= (s + 1) * PP
  <2>1. k + r <= s + 1 /\ k + r <= m /\ s + 1 = m
    BY <1>2, <1>4, <1>5
  <2>2. m <= m * PP
    BY <1>1
  <2> QED BY <1>1, <1>2, <2>1, <2>2
<1>7. Averages(u, v, t, P, PP, 0..h, m)
  BY <1>1, <1>2, <1>3, <1>5, <1>6, GrantAverages, SMTT(20)
<1>8. Spaced(u, v, t, P, 0..h, m)
  <2>1. Spaced(u, v, t, P, 0..h, s + 1)
    BY <1>1, <1>2, <1>3, <1>5, <1>6, GrantSpaced, SMTT(20)
  <2> QED BY <1>6, <2>1
<1>9. nx \in Nat /\ [nextFreePermitTime |-> nx].nextFreePermitTime = m * P
  BY <1>1, <1>4, SMTT(20)
<1> QED BY <1>7, <1>8, <1>9, ZenonT(30) DEF Backed, P, PP, h

\* ... and by the bursty one.
LEMMA BurstyGrant ==
  ASSUME NEW c \in Configs, c.kind # "smooth", NEW st \in StatsType(c), NEW u, NEW w, NEW v,
         NEW t \in Nat, NEW r \in Requests, Backed(c, st, u, w, t),
         NEW b, NEW left, NEW s,
         b = Bursty!refreshed(st, t, c.period, c.periodPermits),
         left = Bursty!waitTime(b, t, c.period, c.periodPermits, r), s = (t + left) \div c.period,
         s \in 0..Last(c), Granted(u, w, t, v, c.period, 0..Last(c), s, r)
  PROVE  Bursty!taken(b, r) \in BurstyType /\ Backed(c, Bursty!taken(b, r), u, v, t)
<1> DEFINE P == c.period
           PP == c.periodPermits
           h == Last(c)
           n == Bursty!taken(b, r)
<1>1. P \in Nat \ {0} /\ PP \in Nat \ {0} /\ h \in Nat /\ r \in Nat \ {0} /\ st \in BurstyType
  BY ConfigIs, LimiterAssumption DEF StatsType
<1> HIDE DEF P, PP, h
<1>2. /\ st.currentPeriod <= t \div P /\ Averages(u, w, t, P, PP, 0..h, Given(st, PP))
      /\ b = Bursty!refreshed(st, t, P, PP) /\ left = Bursty!waitTime(b, t, P, PP, r)
      /\ s = (t + left) \div P /\ s \in 0..h /\ Granted(u, w, t, v, P, 0..h, s, r)
  BY Zenon DEF Backed, P, PP, h
<1>3. /\ b \in BurstyType /\ b.currentPeriod = t \div P
      /\ Given(st, PP) \in Int /\ Given(b, PP) \in Int /\ Given(st, PP) <= Given(b, PP)
  BY <1>1, <1>2, BurstyRefresh
<1>4. /\ n \in BurstyType /\ n.currentPeriod = b.currentPeriod
      /\ Given(n, PP) = Given(b, PP) + r /\ Given(b, PP) + r <= (s + 1) * PP
  <2>1. BurstySlotIs(P, PP, t, r, b)
    BY <1>1, <1>3, BurstySlot, Zenon
  <2> QED BY <1>2, <2>1, Zenon DEF BurstySlotIs
<1> HIDE DEF n
<1>5. /\ Given(n, PP) \in Int /\ Given(st, PP) + r <= Given(n, PP)
      /\ Given(st, PP) + r <= (s + 1) * PP
  <2>1. (s + 1) * PP \in Int
    BY <1>1, <1>2, SMTT(20)
  <2> QED BY <1>1, <1>3, <1>4, <2>1, SMTT(20)
<1>6. Averages(u, v, t, P, PP, 0..h, Given(n, PP))
  BY <1>1, <1>2, <1>3, <1>5, GrantAverages, ZenonT(30)
<1>7. n.currentPeriod <= t \div P
  BY <1>1, <1>3, <1>4, Division, SMTT(20)
<1> QED BY <1>4, <1>6, <1>7, ZenonT(30) DEF Backed, P, PP, h, n

\* A new limiter gave nothing out, and after a Reset nobody waits for its permits.
LEMMA BackedFresh ==
  ASSUME NEW c \in Configs, NEW w \in Waits, \A e \in Exec : w[e].permits = 0, NEW st,
         st = IF c.kind = "smooth" THEN [nextFreePermitTime |-> 0]
              ELSE Bursty!newBurstyStats(c.periodPermits)
  PROVE  st \in StatsType(c) /\ Backed(c, st, [p \in 0..Last(c) |-> 0], w, 0)
<1> DEFINE P == c.period
           PP == c.periodPermits
           h == Last(c)
           u == [p \in 0..h |-> 0]
           C(p, q) == Claimed(u, w, 0, P, p..q)
<1>1. P \in Nat \ {0} /\ PP \in Nat \ {0} /\ h \in Nat
  BY ConfigIs
<1>2. \A p, q \in 0..h : C(p, q) = 0 /\ p \in Nat /\ q \in Nat /\ 0 \in 0..h
  <2> HIDE DEF P, h
  <2> TAKE p, q \in 0..h
  <2>1. p..q \in SUBSET (0..h) /\ IsFiniteSet(p..q) /\ 0 \in 0..h /\ p \in Nat /\ q \in Nat
    BY <1>1, Runs, Zenon
  <2> QED BY <2>1, ClaimNone, Zenon
<1>3. Max(Requests) \in Nat
  BY LargestRequest
<1> HIDE DEF P, PP, h, C
<1>4. Averages(u, w, 0, P, PP, 0..h, 0)
  <2> SUFFICES ASSUME NEW p \in 0..h PROVE C(0, p) <= (p + 1) * PP /\ C(0, p) <= 0
    BY Zenon DEF Averages, C
  <2> QED BY <1>1, <1>2
<1>5. Spaced(u, w, 0, P, 0..h, 0)
  <2> SUFFICES ASSUME NEW p \in 0..h, NEW q \in 0..h
               PROVE  ~(p < 0) /\ C(p, q) <= 0
    BY Zenon DEF Spaced, C
  <2> QED BY <1>2
<1> HIDE DEF u
<1>6. CASE c.kind = "smooth"
  <2>1. st = [nextFreePermitTime |-> 0]
    BY <1>6
  <2>2. st.nextFreePermitTime = 0 * P /\ st \in StatsType(c)
    BY <1>1, <1>6, <2>1, SMTT(20) DEF StatsType
  <2> QED BY <1>4, <1>5, <1>6, <2>2, Zenon DEF Backed, P, PP, h, u
<1>7. CASE c.kind # "smooth"
  <2>1. st = [availablePermits |-> PP, currentPeriod |-> 0]
    BY <1>7 DEF Bursty!newBurstyStats, PP
  <2>2. st \in StatsType(c) /\ Given(st, PP) = (0 + 1) * PP - PP /\ st.currentPeriod = 0
    BY <1>1, <1>7, <2>1 DEF StatsType, BurstyType, Given
  <2>3. Given(st, PP) = 0
    BY <1>1, <2>2
  <2>4. st.currentPeriod <= 0 \div P
    <3>1. 0 \div P \in Nat
      BY <1>1, DivisionNat
    <3> QED BY <2>2, <3>1
  <2> QED BY <1>4, <1>7, <2>2, <2>3, <2>4, Zenon DEF Backed, P, PP, h, u
<1> QED BY <1>6, <1>7, Zenon

LEMMA LimiterStarts == Init => LimiterInv
<1> SUFFICES ASSUME Init PROVE LimiterInv
  OBVIOUS
<1>1. config \in Configs /\ now = 0 /\ uses = [p \in 0..Last(config) |-> 0]
  BY DEF Init, Horizon, Last, Period
<1>2. stats = IF config.kind = "smooth" THEN [nextFreePermitTime |-> 0]
              ELSE Bursty!newBurstyStats(config.periodPermits)
  BY DEF Init, newStats, Kind, PeriodPermits
<1>3. wait \in Waits /\ (\A e \in Exec : wait[e].permits = 0) /\ NoStaleClaim(wait)
  BY DEF Init, Waits, Idle, NoStaleClaim
<1>4. stats \in StatsType(config) /\ Backed(config, stats, uses, wait, now)
  BY <1>1, <1>2, <1>3, BackedFresh, ZenonT(30)
<1>5. now \in Nat /\ uses \in [0..Last(config) -> Nat]
  BY <1>1
<1> QED BY <1>1, <1>3, <1>4, <1>5, TypeIs, Zenon DEF LimiterInv

\* The steps of the invariant, with the state after them.
LEMMA ClaimTypes ==
  ASSUME NEW h \in Nat, NEW u \in [0..h -> Nat], NEW w \in Waits, NEW t, NEW P,
         NEW p \in 0..h, NEW q \in 0..h
  PROVE  /\ p..q \in SUBSET (0..h) /\ IsFiniteSet(p..q) /\ (\A x \in p..q : u[x] \in Nat)
         /\ Claimed(u, w, t, P, p..q) \in Int
<1>1. p..q \in SUBSET (0..h) /\ IsFiniteSet(p..q)
  BY Runs, Zenon
<1>2. \A x \in p..q : u[x] \in Nat
  BY <1>1
<1> QED BY <1>1, <1>2, ClaimedCovers

LEMMA NoMoreSame ==
  ASSUME NEW h \in Nat, NEW u \in [0..h -> Nat], NEW w \in Waits, NEW t, NEW P
  PROVE  NoMore(u, w, t, u, w, t, P, 0..h)
<1> SUFFICES ASSUME NEW p \in 0..h, NEW q \in 0..h
             PROVE  /\ Claimed(u, w, t, P, p..q) \in Int
                    /\ Claimed(u, w, t, P, p..q) <= Claimed(u, w, t, P, p..q)
  BY DEF NoMore
<1>1. Claimed(u, w, t, P, p..q) \in Int
  BY ClaimTypes, Zenon
<1> QED BY <1>1

UsesNoMore(u, w, t, z, v, P, h) ==
  v \in Waits /\ z \in [0..h -> Nat] /\ NoMore(u, w, t, z, v, t, P, 0..h)

LEMMA NoMoreUsed ==
  ASSUME NEW h \in Nat, NEW u \in [0..h -> Nat], NEW w \in Waits, NEW t \in Int, NEW P,
         NEW e \in Exec, w[e].left = 0, NEW z, z = UseIn(u, t \div P, w[e].permits),
         NEW v, v = Put(w, e, Idle)
  PROVE  UsesNoMore(u, w, t, z, v, P, h)
<1>1. v \in Waits /\ z \in [0..h -> Nat]
  <2>1. {} \in SUBSET (0..h) /\ IsFiniteSet({})
    BY FS_EmptySet, Zenon
  <2> QED BY <2>1, ClaimUsed, Zenon
<1>2. ASSUME NEW p \in 0..h, NEW q \in 0..h
      PROVE  /\ Claimed(u, w, t, P, p..q) \in Int /\ Claimed(z, v, t, P, p..q) \in Int
             /\ Claimed(z, v, t, P, p..q) <= Claimed(u, w, t, P, p..q)
  <2>1. Claimed(u, w, t, P, p..q) \in Int /\ p..q \in SUBSET (0..h) /\ IsFiniteSet(p..q)
    BY ClaimTypes, Zenon
  <2>2. UsedAsClaimed(u, w, t, P, e, p..q)
    BY <2>1, ClaimUsed, Zenon
  <2>3. Claimed(z, v, t, P, p..q) = Claimed(u, w, t, P, p..q)
    BY <2>2, Zenon DEF UsedAsClaimed
  <2> QED BY <2>1, <2>3
<1> QED BY <1>1, <1>2, Zenon DEF NoMore, UsesNoMore

LEMMA NoMoreDropped ==
  ASSUME NEW h \in Nat, NEW u \in [0..h -> Nat], NEW w \in Waits, NEW t, NEW P, NEW e \in Exec,
         NEW v, v = Put(w, e, Idle)
  PROVE  v \in Waits /\ NoMore(u, w, t, u, v, t, P, 0..h)
<1>1. v \in Waits
  BY DEF Waits, Idle, Put
<1>2. ASSUME NEW p \in 0..h, NEW q \in 0..h
      PROVE  /\ Claimed(u, w, t, P, p..q) \in Int /\ Claimed(u, v, t, P, p..q) \in Int
             /\ Claimed(u, v, t, P, p..q) <= Claimed(u, w, t, P, p..q)
  <2>1. /\ Claimed(u, w, t, P, p..q) \in Int /\ Claimed(u, v, t, P, p..q) \in Int
        /\ IsFiniteSet(p..q) /\ \A x \in p..q : u[x] \in Nat
    BY <1>1, ClaimTypes, Zenon
  <2> QED BY <2>1, ClaimDropped, Zenon
<1> QED BY <1>1, <1>2, Zenon DEF NoMore

LEMMA NoMoreLater ==
  ASSUME NEW h \in Nat, NEW u \in [0..h -> Nat], NEW w \in Waits, NEW t \in Nat, NEW P,
         NoStaleClaim(w), \A e \in Exec : w[e].left # 0, NEW v,
         v = [e \in Exec |-> IF w[e].left > 0 THEN [w[e] EXCEPT !.left = @ - 1] ELSE w[e]]
  PROVE  v \in Waits /\ NoMore(u, w, t, u, v, t + 1, P, 0..h)
<1>1. \A S : v \in Waits /\ Claimed(u, v, t + 1, P, S) = Claimed(u, w, t, P, S)
  BY ClaimKept DEF NoStaleClaim
<1>2. ASSUME NEW p \in 0..h, NEW q \in 0..h
      PROVE  /\ Claimed(u, w, t, P, p..q) \in Int /\ Claimed(u, v, t + 1, P, p..q) \in Int
             /\ Claimed(u, v, t + 1, P, p..q) <= Claimed(u, w, t, P, p..q)
  <2>1. Claimed(u, w, t, P, p..q) \in Int
    BY ClaimTypes
  <2>2. Claimed(u, v, t + 1, P, p..q) = Claimed(u, w, t, P, p..q)
    BY <1>1
  <2> QED BY <2>1, <2>2
<1> QED BY <1>1, <1>2 DEF NoMore

LEMMA GrantedIs ==
  ASSUME NEW h \in Nat, NEW u \in [0..h -> Nat], NEW w \in Waits, NEW t, NEW P, NEW e \in Exec,
         w[e] = Idle, NEW left \in Nat, NEW r \in Nat, NEW s \in 0..h, s = (t + left) \div P,
         NEW v, v = Put(w, e, [left |-> left, permits |-> r])
  PROVE  v \in Waits /\ Granted(u, w, t, v, P, 0..h, s, r)
<1>1. v \in Waits
  BY DEF Waits, Put
<1>2. ASSUME NEW p \in 0..h, NEW q \in 0..h
      PROVE  /\ Claimed(u, w, t, P, p..q) \in Int
             /\ p <= s /\ s <= q => Claimed(u, v, t, P, p..q) = Claimed(u, w, t, P, p..q) + r
             /\ ~(p <= s /\ s <= q) => Claimed(u, v, t, P, p..q) = Claimed(u, w, t, P, p..q)
  <2>1. /\ Claimed(u, w, t, P, p..q) \in Int
        /\ IsFiniteSet(p..q) /\ \A x \in p..q : u[x] \in Nat
    BY ClaimTypes, Zenon
  <2>2. Claimed(u, v, t, P, p..q)
          = Claimed(u, w, t, P, p..q) + (IF (t + left) \div P \in p..q THEN r ELSE 0)
    <3>1. GrantClaims(u, w, t, P, e, left, r, p..q)
      BY <2>1, ClaimGrant, Zenon
    <3> QED BY <3>1, Zenon DEF GrantClaims
  <2>3. s \in p..q <=> p <= s /\ s <= q
    BY Runs
  <2> QED BY <2>1, <2>2, <2>3
<1> QED BY <1>1, <1>2, Zenon DEF Granted

\* The part of the invariant that a step with the same configuration must restore.
LEMMA InvIs ==
  LimiterInv <=> /\ config \in Configs /\ stats \in StatsType(config) /\ now \in Nat
                 /\ wait \in Waits /\ uses \in [0..Last(config) -> Nat]
                 /\ NoStaleClaim(wait) /\ Backed(config, stats, uses, wait, now)
BY TypeIs, Zenon DEF LimiterInv

LEMMA InvAfter ==
  LimiterInv' <=> /\ config' \in Configs /\ stats' \in StatsType(config') /\ now' \in Nat
                  /\ wait' \in Waits /\ uses' \in [0..Last(config') -> Nat]
                  /\ NoStaleClaim(wait') /\ Backed(config', stats', uses', wait', now')
<1>1. TypeOK' <=> /\ config' \in Configs /\ stats' \in StatsType(config') /\ now' \in Nat
                  /\ wait' \in Waits /\ uses' \in [0..Last(config') -> Nat]
  BY DEF TypeOK, StatsType, BurstyType, Waits, Kind, Period, Horizon, Last
<1> QED BY <1>1, Zenon DEF LimiterInv

LEMMA AcquireStep ==
  ASSUME LimiterInv, NEW e \in Exec, NEW r \in Requests, NEW maxWaitTime \in MaxWaits,
         acquirePermits(e, r, maxWaitTime)
  PROVE  LimiterInv'
<1> DEFINE c == config
           h == Last(config)
           a == acquired(r)
<1>1. /\ c \in Configs /\ stats \in StatsType(c) /\ now \in Nat /\ wait \in Waits
      /\ uses \in [0..h -> Nat] /\ NoStaleClaim(wait) /\ Backed(c, stats, uses, wait, now)
  BY InvIs, Zenon
<1>2. h \in Nat /\ c.period \in Nat \ {0} /\ c.periodPermits \in Nat \ {0} /\ r \in Nat \ {0}
  BY <1>1, ConfigIs, LimiterAssumption
<1>3. wait[e] = Idle /\ config' = config /\ now' = now /\ uses' = uses
  BY DEF acquirePermits
<1>4. SUFFICES /\ stats' \in StatsType(c) /\ wait' \in Waits /\ NoStaleClaim(wait')
               /\ Backed(c, stats', uses, wait', now)
  <2>1. /\ config' \in Configs /\ stats' \in StatsType(config') /\ now' \in Nat /\ wait' \in Waits
        /\ uses' \in [0..Last(config') -> Nat] /\ NoStaleClaim(wait')
        /\ Backed(config', stats', uses', wait', now')
    BY <1>1, <1>3, <1>4, Zenon
  <2> QED BY <2>1, InvAfter, ZenonT(30)
<1>5. CASE stats' = afterRefusal(a) /\ wait' = wait
  <2>1. NoMore(uses, wait, now, uses, wait, now, c.period, 0..h)
    BY <1>1, <1>2, NoMoreSame
  <2>2. CASE c.kind = "smooth"
    <3>1. stats' = stats
      BY <1>5, <2>2 DEF afterRefusal, Kind
    <3> QED BY <1>1, <1>5, <3>1, Zenon
  <2>3. CASE c.kind # "smooth"
    <3>1. stats' = Bursty!refreshed(stats, now, c.period, c.periodPermits)
      BY <1>5, <2>3, SMTT(20) DEF afterRefusal, Kind, acquired, burstyAcquire, Period, PeriodPermits
    <3>2. stats \in BurstyType /\ stats.currentPeriod <= now \div c.period
      BY <1>1, <2>3, ZenonT(30) DEF StatsType, Backed
    <3> DEFINE b == Bursty!refreshed(stats, now, c.period, c.periodPermits)
    <3>3. /\ b \in BurstyType /\ b.currentPeriod = now \div c.period
          /\ Given(stats, c.periodPermits) <= Given(b, c.periodPermits)
      BY <1>1, <1>2, <3>2, BurstyRefresh, ZenonT(30)
    <3> HIDE DEF b
    <3>4. b \in StatsType(c) /\ b.currentPeriod <= now \div c.period /\ now <= now
      <4>1. b \in StatsType(c)
        BY <2>3, <3>3, Zenon DEF StatsType
      <4>2. now \div c.period \in Nat
        BY <1>1, <1>2, DivisionNat, ZenonT(30)
      <4>3. b.currentPeriod \in Int
        BY <3>3 DEF BurstyType
      <4> QED BY <1>1, <3>3, <4>1, <4>2, <4>3
    <3> HIDE DEF c, h
    <3>5. IF c.kind = "smooth" THEN b = stats
          ELSE /\ b.currentPeriod <= now \div c.period
               /\ Given(stats, c.periodPermits) <= Given(b, c.periodPermits)
      BY <2>3, <3>3, <3>4, Zenon
    <3>6. Backed(c, b, uses, wait, now)
      BY <1>1, <2>1, <3>4, <3>5, BackedKept, ZenonT(30) DEF h, c
    <3> QED BY <1>1, <1>5, <3>1, <3>4, <3>6, Zenon DEF b
  <2> QED BY <2>2, <2>3
<1>6. CASE /\ (now + a.waitTime) \div Period \in Horizon
           /\ stats' = a.stats
           /\ wait' = [wait EXCEPT ![e] = [left |-> a.waitTime, permits |-> r]]
  <2> DEFINE left == a.waitTime
             s == (now + left) \div c.period
  <2>1. s \in 0..h /\ wait' = Put(wait, e, [left |-> left, permits |-> r])
    BY <1>6, Zenon DEF Period, Horizon, Last, Put
  <2>2. left \in Nat
    <3>1. CASE c.kind = "smooth"
      <4>1. PICK k \in Nat : stats.nextFreePermitTime = k * c.period
        BY <1>1, <3>1 DEF Backed
      <4>2. left = Smooth!waitTime(Smooth!newNextFreePermitTime(k * c.period, now, c.period, r),
                                   now, c.period)
        BY <3>1, <4>1, Zenon DEF acquired, smoothAcquire, Kind, Period
      <4>3. SmoothSlotIs(c.period, k, now, r)
        BY <1>1, <1>2, SmoothSlot
      <4> HIDE DEF left
      <4> QED BY <4>2, <4>3, Zenon DEF SmoothSlotIs
    <3>2. CASE c.kind # "smooth"
      <4> DEFINE b == Bursty!refreshed(stats, now, c.period, c.periodPermits)
      <4>1. left = Bursty!waitTime(b, now, c.period, c.periodPermits, r)
        BY <3>2, Zenon DEF acquired, burstyAcquire, Kind, Period, PeriodPermits
      <4>2. stats \in BurstyType /\ stats.currentPeriod <= now \div c.period
        BY <1>1, <3>2, Zenon DEF StatsType, Backed
      <4>3. b \in BurstyType /\ b.currentPeriod = now \div c.period
        BY <1>1, <1>2, <4>2, BurstyRefresh, ZenonT(30)
      <4> HIDE DEF b, left
      <4>4. BurstySlotIs(c.period, c.periodPermits, now, r, b)
        BY <1>1, <1>2, <4>3, BurstySlot
      <4> QED BY <4>1, <4>4, Zenon DEF BurstySlotIs
    <3> QED BY <3>1, <3>2
  <2>3. wait' \in Waits /\ Granted(uses, wait, now, wait', c.period, 0..h, s, r)
    <3> HIDE DEF left
    <3>1. r \in Nat /\ s = (now + left) \div c.period
      BY <1>2
    <3> HIDE DEF s
    <3> QED BY <1>1, <1>2, <1>3, <2>1, <2>2, <3>1, GrantedIs, Zenon
  <2>4. NoStaleClaim(wait')
    <3> HIDE DEF left
    <3> SUFFICES ASSUME NEW x \in Exec, wait'[x].left = -1 PROVE wait'[x].permits = 0
      BY Zenon DEF NoStaleClaim
    <3>1. CASE x = e
      <4>1. wait'[e] = [left |-> left, permits |-> r]
        <5>1. DOMAIN wait = Exec
          BY <1>1, Zenon DEF Waits
        <5> QED BY <2>1, <5>1, Zenon DEF Put
      <4>2. left # -1
        BY <2>2
      <4>3. wait'[e].left = left
        BY <4>1, SMTT(20)
      <4> QED BY <3>1, <4>2, <4>3, Zenon
    <3>2. CASE x # e
      <4>1. wait'[x] = wait[x]
        BY <1>1, <2>1, <3>2, Zenon DEF Put, Waits
      <4> QED BY <1>1, <4>1, Zenon DEF NoStaleClaim
    <3> QED BY <3>1, <3>2, Zenon
  <2>5. stats' \in StatsType(c) /\ Backed(c, stats', uses, wait', now)
    <3>1. CASE c.kind = "smooth"
      <4> DEFINE nx == Smooth!newNextFreePermitTime(stats.nextFreePermitTime, now, c.period, r)
      <4>1. stats' = [nextFreePermitTime |-> nx] /\ left = Smooth!waitTime(nx, now, c.period)
        BY <1>6, <3>1, Zenon DEF acquired, smoothAcquire, Kind, Period
      <4> HIDE DEF left
      <4>2. nx \in Nat /\ Backed(c, [nextFreePermitTime |-> nx], uses, wait', now)
        BY <1>1, <2>1, <2>3, <3>1, <4>1, SmoothGrant, ZenonT(30)
      <4> HIDE DEF nx
      <4> QED BY <3>1, <4>1, <4>2, SMTT(20) DEF StatsType
    <3>2. CASE c.kind # "smooth"
      <4> DEFINE b == Bursty!refreshed(stats, now, c.period, c.periodPermits)
      <4>1. /\ stats' = Bursty!taken(b, r)
            /\ left = Bursty!waitTime(b, now, c.period, c.periodPermits, r)
        BY <1>6, <3>2, Zenon DEF acquired, burstyAcquire, Kind, Period, PeriodPermits
      <4> HIDE DEF left
      <4>2. Bursty!taken(b, r) \in BurstyType /\ Backed(c, Bursty!taken(b, r), uses, wait', now)
        BY <1>1, <2>1, <2>3, <3>2, <4>1, BurstyGrant, Zenon
      <4> HIDE DEF b
      <4> QED BY <3>2, <4>1, <4>2, SMTT(20) DEF StatsType
    <3> QED BY <3>1, <3>2
  <2> QED BY <2>3, <2>4, <2>5
<1>7. \/ stats' = afterRefusal(a) /\ wait' = wait
      \/ /\ (now + a.waitTime) \div Period \in Horizon
         /\ stats' = a.stats
         /\ wait' = [wait EXCEPT ![e] = [left |-> a.waitTime, permits |-> r]]
  BY Zenon DEF acquirePermits
<1> QED BY <1>5, <1>6, <1>7, ZenonT(30)

LEMMA LimiterStep == LimiterInv /\ [Next]_vars => LimiterInv'
<1> SUFFICES ASSUME LimiterInv, [Next]_vars PROVE LimiterInv'
  OBVIOUS
<1> DEFINE c == config
           h == Last(config)
<1>1. /\ c \in Configs /\ stats \in StatsType(c) /\ now \in Nat /\ wait \in Waits
      /\ uses \in [0..h -> Nat] /\ NoStaleClaim(wait) /\ Backed(c, stats, uses, wait, now)
  BY InvIs, Zenon
<1>2. h \in Nat /\ c.period \in Nat \ {0}
  BY <1>1, ConfigIs
<1>3. ASSUME NEW z \in [0..h -> Nat], NEW v \in Waits, NEW s \in Nat, now <= s,
             config' = config, stats' = stats, uses' = z, wait' = v, now' = s,
             NoMore(uses, wait, now, z, v, s, c.period, 0..h), NoStaleClaim(v)
      PROVE  LimiterInv'
  <2>1. IF c.kind = "smooth" THEN stats = stats
        ELSE /\ stats.currentPeriod <= s \div c.period
             /\ Given(stats, c.periodPermits) <= Given(stats, c.periodPermits)
    <3> SUFFICES ASSUME c.kind # "smooth"
                 PROVE  /\ stats.currentPeriod <= s \div c.period
                        /\ Given(stats, c.periodPermits) <= Given(stats, c.periodPermits)
      BY Zenon
    <3>1. stats \in BurstyType /\ stats.currentPeriod <= now \div c.period
      BY <1>1, Zenon DEF StatsType, Backed
    <3>2. now \div c.period <= s \div c.period
      BY <1>1, <1>2, <1>3, DivisionMonotone, Zenon
    <3>5. now \div c.period \in Nat /\ s \div c.period \in Nat
      BY <1>1, <1>2, <1>3, DivisionNat, ZenonT(30)
    <3>3. Given(stats, c.periodPermits) \in Int
      <4>1. c.periodPermits \in Nat
        BY <1>1, ConfigIs
      <4> QED BY <3>1, <4>1 DEF Given, BurstyType
    <3>4. stats.currentPeriod \in Int
      BY <3>1 DEF BurstyType
    <3> QED BY <3>1, <3>2, <3>3, <3>4, <3>5
  <2>2. Backed(c, stats, z, v, s)
    <3> HIDE DEF c, h
    <3> QED BY <1>1, <1>3, <2>1, BackedKept, ZenonT(30) DEF h, c
  <2>3. /\ config' \in Configs /\ stats' \in StatsType(config') /\ now' \in Nat /\ wait' \in Waits
        /\ uses' \in [0..Last(config') -> Nat] /\ NoStaleClaim(wait')
        /\ Backed(config', stats', uses', wait', now')
    BY <1>1, <1>3, <2>2, Zenon
  <2> QED BY <2>3, InvAfter, ZenonT(30)
<1>4. ASSUME NEW e \in Exec, NEW r \in Requests, NEW maxWaitTime \in MaxWaits,
             acquirePermits(e, r, maxWaitTime)
      PROVE  LimiterInv'
  BY <1>4, AcquireStep, SMTT(20)
<1>5. ASSUME NEW e \in Exec, proceed(e) PROVE LimiterInv'
  <2>1. /\ wait[e].left = 0 /\ config' = config /\ stats' = stats /\ now' = now
        /\ uses' = UseIn(uses, now \div c.period, wait[e].permits) /\ wait' = Put(wait, e, Idle)
    BY <1>5, Zenon DEF proceed, Use, Period, UseIn, Put
  <2>2. /\ wait' \in Waits /\ uses' \in [0..h -> Nat]
        /\ NoMore(uses, wait, now, uses', wait', now, c.period, 0..h)
    <3>1. now \in Int
      BY <1>1
    <3> HIDE DEF c, h
    <3>2. UsesNoMore(uses, wait, now, uses', wait', c.period, h)
      BY <1>1, <1>2, <2>1, <3>1, NoMoreUsed, Zenon
    <3> QED BY <3>2, Zenon DEF UsesNoMore
  <2>3. NoStaleClaim(wait')
    BY <1>1, <2>1, Zenon DEF NoStaleClaim, Put, Waits, Idle
  <2>4. now <= now
    BY <1>1
  <2> QED BY <1>1, <1>3, <2>1, <2>2, <2>3, <2>4, Zenon
<1>6. ASSUME NEW e \in Exec, canceled(e) PROVE LimiterInv'
  <2>1. /\ config' = config /\ stats' = stats /\ now' = now
        /\ uses' = uses /\ wait' = Put(wait, e, Idle)
    BY <1>6, Zenon DEF canceled, Put
  <2>2. wait' \in Waits /\ NoMore(uses, wait, now, uses, wait', now, c.period, 0..h)
    BY <1>1, <1>2, <2>1, NoMoreDropped, ZenonT(30)
  <2>3. NoStaleClaim(wait')
    BY <1>1, <2>1, Zenon DEF NoStaleClaim, Put, Waits, Idle
  <2>4. now <= now
    BY <1>1
  <2> QED BY <1>1, <1>3, <2>1, <2>2, <2>3, <2>4, ZenonT(30)
<1>7. CASE Reset
  <2>1. config' = config /\ now' = 0 /\ uses' = [p \in 0..h |-> 0]
    BY <1>7 DEF Reset, Horizon, Last, Period
  <2>2. stats' = IF c.kind = "smooth" THEN [nextFreePermitTime |-> 0]
                 ELSE Bursty!newBurstyStats(c.periodPermits)
    BY <1>7, Zenon DEF Reset, newStats, Kind, PeriodPermits
  <2>3. wait' \in Waits /\ \A e \in Exec : wait'[e].permits = 0
    BY <1>1, <1>7, Zenon DEF Reset, Waits
  <2>4. stats' \in StatsType(c) /\ Backed(c, stats', [p \in 0..h |-> 0], wait', 0)
    BY <1>1, <2>2, <2>3, BackedFresh, Zenon
  <2>5. 0 \in Nat /\ [p \in 0..h |-> 0] \in [0..h -> Nat] /\ NoStaleClaim(wait')
    BY <2>3 DEF NoStaleClaim
  <2>6. /\ config' \in Configs /\ stats' \in StatsType(config') /\ now' \in Nat /\ wait' \in Waits
        /\ uses' \in [0..Last(config') -> Nat] /\ NoStaleClaim(wait')
        /\ Backed(config', stats', uses', wait', now')
    BY <1>1, <2>1, <2>3, <2>4, <2>5, Zenon
  <2> QED BY <2>6, InvAfter, ZenonT(30)
<1>8. CASE Tick
  <2>1. /\ config' = config /\ stats' = stats /\ now' = now + 1 /\ uses' = uses
        /\ \A e \in Exec : wait[e].left # 0
        /\ wait' = [e \in Exec |-> IF wait[e].left > 0 THEN [wait[e] EXCEPT !.left = @ - 1]
                                   ELSE wait[e]]
    BY <1>8 DEF Tick
  <2>2. wait' \in Waits /\ NoMore(uses, wait, now, uses, wait', now + 1, c.period, 0..h)
    BY <1>1, <1>2, <2>1, NoMoreLater, SMTT(20)
  <2>3. NoStaleClaim(wait')
    <3> SUFFICES ASSUME NEW e \in Exec, wait'[e].left = -1 PROVE wait'[e].permits = 0
      BY DEF NoStaleClaim
    <3>1. wait[e].left \in Nat \cup {-1} /\ wait[e].left # 0
      BY <1>1, <2>1 DEF Waits
    <3>2. ~(wait[e].left > 0)
      BY <1>1, <2>1, <3>1 DEF Waits
    <3>3. wait'[e] = wait[e]
      BY <2>1, <3>2
    <3> QED BY <1>1, <3>3 DEF NoStaleClaim
  <2>4. now + 1 \in Nat /\ now <= now + 1
    BY <1>1
  <2> QED BY <1>1, <1>3, <2>1, <2>2, <2>3, <2>4, SMTT(20)
<1>9. CASE UNCHANGED vars
  <2>1. config' = config /\ stats' = stats /\ now' = now /\ uses' = uses /\ wait' = wait
    BY <1>9 DEF vars
  <2>2. NoMore(uses, wait, now, uses, wait, now, c.period, 0..h) /\ now <= now
    BY <1>1, <1>2, NoMoreSame
  <2> QED BY <1>1, <1>3, <2>1, <2>2
<1> QED BY <1>4, <1>5, <1>6, <1>7, <1>8, <1>9, Zenon DEF Next

LEMMA LimiterInvariant == Spec => []LimiterInv
BY LimiterStarts, LimiterStep, PTL DEF Spec

(***************************************************************************)
(* AverageRateHolds: whatever callers ask for, wait for or give up, no     *)
(* limiter lets more permits be used by the end of a period than the       *)
(* periods until then have.                                                *)
(***************************************************************************)
THEOREM Rate == Spec => [](TypeOK /\ AverageRateHolds)
<1>1. LimiterInv => AverageRateHolds
  <2> SUFFICES ASSUME LimiterInv, NEW p \in Horizon
               PROVE  UsesIn(0..p) <= (p + 1) * PeriodPermits
    BY DEF AverageRateHolds
  <2> DEFINE a == Claimed(uses, wait, now, config.period, 0..p)
             b == UsesIn(0..p)
             m == (p + 1) * config.periodPermits
  <2>1. /\ config \in Configs /\ wait \in Waits /\ uses \in [0..Last(config) -> Nat]
        /\ Backed(config, stats, uses, wait, now)
    BY InvIs, Zenon
  <2>2. Last(config) \in Nat /\ config.periodPermits \in Nat /\ p \in 0..Last(config)
    BY <2>1, ConfigIs DEF Horizon, Last, Period
  <2>3. a <= m
    BY <2>1, <2>2, Zenon DEF Backed, Averages
  <2>4. a \in Int /\ b \in Int /\ b <= a
    <3>1. 0 \in 0..Last(config)
      BY <2>2
    <3>2. IsFiniteSet(0..p) /\ \A x \in 0..p : uses[x] \in Nat
      BY <2>1, <2>2, <3>1, ClaimTypes, Zenon
    <3> QED BY <2>1, <3>2, ClaimedCovers, Zenon DEF UsesIn
  <2>5. m \in Int
    BY <2>2
  <2> HIDE DEF a, b, m
  <2>6. b <= m
    BY <2>3, <2>4, <2>5
  <2> QED BY <2>6, Zenon DEF b, m, PeriodPermits
<1>2. LimiterInv => TypeOK
  BY DEF LimiterInv
<1> QED BY <1>1, <1>2, LimiterInvariant, PTL

(***************************************************************************)
(* NeverBunches: the uses of a smooth limiter in a run of intervals exceed *)
(* the intervals by less than the largest request.                         *)
(***************************************************************************)
THEOREM Smoothness == Spec => []NeverBunches
<1>1. LimiterInv => NeverBunches
  <2> SUFFICES ASSUME LimiterInv, Kind = "smooth", NEW p \in Horizon, NEW q \in Horizon, p <= q
               PROVE  UsesIn(p..q) <= (q - p + 1) + Max(Requests) - 1
    BY DEF NeverBunches
  <2> DEFINE a == Claimed(uses, wait, now, config.period, p..q)
             b == UsesIn(p..q)
             M == Max(Requests)
  <2>1. /\ config \in Configs /\ wait \in Waits /\ uses \in [0..Last(config) -> Nat]
        /\ Backed(config, stats, uses, wait, now)
    BY InvIs, Zenon
  <2>2. Last(config) \in Nat /\ p \in 0..Last(config) /\ q \in 0..Last(config)
    BY <2>1, ConfigIs DEF Horizon, Last, Period
  <2>3. PICK k \in Nat : Spaced(uses, wait, now, config.period, 0..Last(config), k)
    BY <2>1, Zenon DEF Backed, Kind
  <2>4. a \in Int /\ b \in Int /\ b <= a
    <3>1. IsFiniteSet(p..q) /\ \A x \in p..q : uses[x] \in Nat
      BY <2>1, <2>2, ClaimTypes, Zenon
    <3> QED BY <2>1, <3>1, ClaimedCovers, Zenon DEF UsesIn
  <2>5. IF p < k THEN a <= q - p + M /\ a <= k - 1 - p + M ELSE a <= 0
    BY <2>2, <2>3, Zenon DEF Spaced
  <2>6. M \in Nat
    BY LargestRequest
  <2> HIDE DEF a, b, M
  <2>7. b <= (q - p + 1) + M - 1
    BY <2>2, <2>4, <2>5, <2>6
  <2> QED BY <2>7 DEF b, M
<1> QED BY <1>1, LimiterInvariant, PTL
-----------------------------------------------------------------------------
Counted(s) == s = [k \in 1..Len(s) |-> k - 1]

\* A body that attempts share is read by one of them, as far as its position is.
OneReader ==
  client.body = "seeker" /\ ~overlapped =>
    /\ \A i, j \in reading : i = j
    /\ \A i \in reading : position = Len(sent[i])

\* An attempt has read nothing before it is sent, and no one reads for it.
BodyInv ==
  /\ client \in Clients /\ next \in Nat
  /\ \A i \in Attempts : i >= next => attempt[i] = "idle"
  /\ attempt \in [Attempts -> {"idle", "merged", "send", "returned"}]
  /\ sent \in [Attempts -> Seq(Nat)] /\ reading \subseteq Attempts /\ position \in Nat
  /\ \A i \in Attempts : attempt[i] \in {"idle", "merged"} => sent[i] = <<>> /\ i \notin reading
  /\ OneReader
  /\ client.body # "seeker" \/ ~overlapped => \A i \in Attempts : Counted(sent[i])

LEMMA CountedEmpty == Counted(<<>>)
BY DEF Counted

LEMMA CountedAppend ==
  ASSUME NEW s \in Seq(Nat), Counted(s)
  PROVE  Counted(Append(s, Len(s)))
<1> DEFINE n == Len(s)
           t == Append(s, n)
<1>1. n \in Nat /\ t \in Seq(Nat) /\ Len(t) = n + 1
  OBVIOUS
<1>2. ASSUME NEW k \in 1..(n + 1) PROVE t[k] = k - 1
  <2>1. CASE k = n + 1
    BY <2>1
  <2>2. CASE k \in 1..n
    BY <2>2 DEF Counted
  <2> QED BY <1>1, <2>1, <2>2
<1> HIDE DEF t, n
<1>3. DOMAIN t = 1..Len(t) /\ t = [k \in 1..Len(t) |-> t[k]]
  BY <1>1
<1>4. t = [k \in 1..Len(t) |-> k - 1]
  BY <1>1, <1>2, <1>3
<1> QED BY <1>4 DEF Counted, t, n

LEMMA BodyInitial == ClientInit => BodyInv
<1> SUFFICES ASSUME ClientInit PROVE BodyInv
  OBVIOUS
<1>1. sent \in [Attempts -> Seq(Nat)] /\ \A i \in Attempts : sent[i] = <<>>
  BY DEF ClientInit
<1>2. \A i \in Attempts : Counted(sent[i])
  BY <1>1, CountedEmpty
<1> QED BY <1>1, <1>2 DEF ClientInit, BodyInv, OneReader

\* A step that leaves the bodies alone and begins no attempt anew.
LEMMA BodiesKept ==
  ASSUME BodyInv, UNCHANGED <<client, next, bodies>>,
         attempt' \in [Attempts -> {"idle", "merged", "send", "returned"}],
         \A i \in Attempts : attempt'[i] \in {"idle", "merged"} => attempt[i] \in {"idle", "merged"},
         \A i \in Attempts : attempt[i] = "idle" => attempt'[i] = "idle"
  PROVE  BodyInv'
<1>1. UNCHANGED <<Attempts, position, sent, reading, overlapped>>
  BY DEF Attempts, bodies
<1>2. OneReader'
  BY <1>1 DEF BodyInv, OneReader
<1> QED BY <1>1, <1>2, Zenon DEF BodyInv

LEMMA SendStep == ASSUME BodyInv, NEW i \in Attempts, doRequest(i) PROVE BodyInv'
<1>1. Attempts' = Attempts /\ UNCHANGED <<client, next, sent>> /\ attempt[i] = "merged"
  BY DEF doRequest, Attempts
<1>2. sent[i] = <<>> /\ i \notin reading /\ Len(sent[i]) = 0
  BY <1>1 DEF BodyInv
<1>3. CASE /\ attempt' = [attempt EXCEPT ![i] = "send"]
           /\ reading' = IF client.body = "none" THEN reading ELSE reading \cup {i}
           /\ newBody(i)
  <2>1. /\ attempt' \in [Attempts -> {"idle", "merged", "send", "returned"}]
        /\ reading' \subseteq Attempts /\ position' = 0
        /\ overlapped' = (overlapped \/ (client.body = "seeker" /\ reading # {}))
    BY <1>3 DEF BodyInv, newBody
  <2>2. \A j \in Attempts : attempt'[j] \in {"idle", "merged"} => sent[j] = <<>> /\ j \notin reading'
    BY <1>3 DEF BodyInv
  <2>3. OneReader'
    BY <1>1, <1>2, <1>3, <2>1, Zenon DEF OneReader
  <2>4. ~overlapped' => ~overlapped
    BY <2>1, Zenon
  <2>5. \A j \in Attempts : j >= next => attempt'[j] = "idle"
    BY <1>1, <1>3 DEF BodyInv
  <2> QED BY <1>1, <2>1, <2>2, <2>3, <2>4, <2>5, ZenonT(30) DEF BodyInv
<1>4. CASE attempt' = [attempt EXCEPT ![i] = "returned"] /\ UNCHANGED <<position, reading, overlapped>>
  <2>1. /\ attempt' \in [Attempts -> {"idle", "merged", "send", "returned"}]
        /\ \A j \in Attempts : attempt'[j] \in {"idle", "merged"} => attempt[j] \in {"idle", "merged"}
        /\ \A j \in Attempts : attempt[j] = "idle" => attempt'[j] = "idle"
    BY <1>1, <1>4 DEF BodyInv
  <2> QED BY <1>1, <1>4, <2>1, BodiesKept, SMTT(20) DEF bodies
<1> QED BY <1>3, <1>4, Zenon DEF doRequest

LEMMA ReadStep == ASSUME BodyInv, NEW i \in Attempts, readBody(i) PROVE BodyInv'
<1> DEFINE at == IF client.body = "seeker" THEN position ELSE Len(sent[i])
<1>1. Attempts' = Attempts /\ UNCHANGED <<client, next, attempt, overlapped>> /\ i \in reading
  BY DEF readBody, Attempts
<1>2. sent[i] \in Seq(Nat) /\ Len(sent[i]) \in Nat /\ position \in Nat /\ sent \in [Attempts -> Seq(Nat)]
  BY DEF BodyInv
<1>3. CASE /\ sent' = [sent EXCEPT ![i] = Append(@, at)] /\ reading' = reading
           /\ position' = IF client.body = "seeker" THEN position + 1 ELSE position
  <2>1. at \in Nat /\ position' \in Nat
    BY <1>2, <1>3
  <2>2. client.body # "seeker" \/ ~overlapped => at = Len(sent[i])
    BY <1>1 DEF BodyInv, OneReader
  <2>3. /\ sent' \in [Attempts -> Seq(Nat)] /\ sent'[i] = Append(sent[i], at)
        /\ \A j \in Attempts : j # i => sent'[j] = sent[j]
    BY <1>2, <1>3, <2>1
  <2> HIDE DEF at
  <2>4. Len(sent'[i]) = Len(sent[i]) + 1
    BY <1>2, <2>1, <2>3
  <2>5. OneReader'
    BY <1>1, <1>3, <2>4 DEF BodyInv, OneReader
  <2>6. ASSUME client.body # "seeker" \/ ~overlapped PROVE \A j \in Attempts : Counted(sent'[j])
    <3>1. \A j \in Attempts : Counted(sent[j])
      BY <2>6 DEF BodyInv
    <3>2. Counted(sent'[i])
      BY <1>2, <2>2, <2>3, <2>6, <3>1, CountedAppend, SMTT(20)
    <3> QED BY <2>3, <3>1, <3>2, Zenon
  <2>7. attempt[i] \notin {"idle", "merged"}
    BY <1>1 DEF BodyInv
  <2> QED BY <1>1, <1>3, <2>1, <2>3, <2>5, <2>6, <2>7, SMTT(20) DEF BodyInv
<1>4. CASE reading' = reading \ {i} /\ UNCHANGED <<sent, position>>
  <2>1. OneReader'
    BY <1>1, <1>4, Zenon DEF BodyInv, OneReader
  <2> QED BY <1>1, <1>4, <2>1, Zenon DEF BodyInv
<1> QED BY <1>3, <1>4 DEF readBody

LEMMA BodyInductive == BodyInv /\ [ClientNext]_clientVars => BodyInv'
<1> SUFFICES ASSUME BodyInv, [ClientNext]_clientVars PROVE BodyInv'
  OBVIOUS
<1>1. UNCHANGED <<client, next, attempt, bodies>> => BodyInv'
  BY BodiesKept, Zenon DEF BodyInv
<1>2. CASE begin
  <2>1. /\ next \in Attempts /\ next' = next + 1 /\ attempt' = [attempt EXCEPT ![next] = "merged"]
        /\ UNCHANGED <<client, position, sent, reading, overlapped>>
    BY <1>2 DEF begin, bodies
  <2>2. Attempts' = Attempts /\ next \in Nat /\ attempt[next] = "idle" /\ \A i \in Attempts : i \in Int
    BY <2>1 DEF Attempts, BodyInv
  <2>3. OneReader'
    BY <2>1 DEF BodyInv, OneReader
  <2>4. /\ attempt' \in [Attempts -> {"idle", "merged", "send", "returned"}]
        /\ \A i \in Attempts : attempt'[i] = IF i = next THEN "merged" ELSE attempt[i]
    BY <2>1 DEF BodyInv
  <2>5. \A i \in Attempts : i >= next + 1 => attempt'[i] = "idle"
    <3>1. \A i \in Attempts : i >= next + 1 => i >= next /\ i # next
      BY <2>2
    <3> QED BY <2>4, <3>1 DEF BodyInv
  <2>6. \A i \in Attempts : attempt'[i] \in {"idle", "merged"} => sent[i] = <<>> /\ i \notin reading
    BY <2>2, <2>4, Zenon DEF BodyInv
  <2> QED BY <2>1, <2>2, <2>3, <2>4, <2>5, <2>6, SMTT(20) DEF BodyInv
<1>3. ASSUME NEW i \in Attempts, NEW o, return(i, o) PROVE BodyInv'
  <2>1. attempt' = [attempt EXCEPT ![i] = "returned"] /\ UNCHANGED <<client, next, bodies>>
        /\ attempt[i] = "send"
    BY <1>3 DEF return
  <2>2. /\ attempt' \in [Attempts -> {"idle", "merged", "send", "returned"}]
        /\ \A j \in Attempts : attempt'[j] \in {"idle", "merged"} => attempt[j] \in {"idle", "merged"}
        /\ \A j \in Attempts : attempt[j] = "idle" => attempt'[j] = "idle"
    BY <2>1, SMTT(20) DEF BodyInv
  <2> QED BY <2>1, <2>2, BodiesKept
<1>4. CASE bodyReader \/ retry \/ delayEnds \/ readResponse \/ ClientTerminated
  BY <1>1, <1>4, Zenon DEF bodyReader, retry, delayEnds, readResponse, ClientTerminated, clientVars
<1>5. ASSUME NEW i \in Attempts, hedge(i) \/ watch(i) PROVE BodyInv'
  BY <1>1, <1>5, Zenon DEF hedge, watch
<1>6. ASSUME NEW why, requestEnds(why) \/ executionEnds(why) PROVE BodyInv'
  BY <1>1, <1>6 DEF requestEnds, executionEnds
<1>7. CASE UNCHANGED clientVars
  BY <1>1, <1>7 DEF clientVars
<1> QED BY <1>2, <1>3, <1>4, <1>5, <1>6, <1>7, SendStep, ReadStep, SMTT(20) DEF ClientNext, ClientProgram

(***************************************************************************)
(* For every number of attempts, hedged or one after the other, and every  *)
(* length of a body, an attempt sends the body from its beginning and      *)
(* without gaps, when it has a reader of its own (bodyReader of http.go)   *)
(* or when none still reads the body that it seeks.                        *)
(***************************************************************************)
THEOREM BodiesWhole == ClientSpec => []BodyWhole
<1>1. BodyInv => BodyWhole
  BY DEF BodyInv, BodyWhole, Counted
<1> QED BY <1>1, BodyInitial, BodyInductive, PTL DEF ClientSpec

-----------------------------------------------------------------------------
\* Without a context that merges two others.
Unmerged == client.request = "background" \/ (client.execution = "background" /\ ~client.hedged)

(***************************************************************************)
(* The contexts of attempts are canceled when the call returns, except     *)
(* that of the attempt whose response is returned.                         *)
(***************************************************************************)
ResponseInv ==
  /\ client \in Clients /\ next \in 1..(client.attempts + 1)
  /\ call # "returned" => winner = 0 /\ losers = {}
  /\ winner \notin losers
  /\ winner # 0 => winner \in Attempts
  /\ DOMAIN using = Attempts
  /\ Unmerged => \A i \in Attempts : using[i] \in {"none", "request", "execution"}
  /\ ResponseReadable

LEMMA ResponseInitial == ClientInit => ResponseInv
<1> SUFFICES ASSUME ClientInit PROVE ResponseInv
  OBVIOUS
<1>1. client.attempts \in Nat /\ client.attempts >= 1
  BY ClientAssumption DEF ClientInit
<1> QED BY <1>1 DEF ClientInit, ResponseInv, ResponseReadable

\* A step that takes none of the caller's cancellations back, and reads no response.
LEMMA ResponseKept ==
  ASSUME ResponseInv, UNCHANGED <<client, next, using, response>>,
         requestDone # "no" => requestDone' # "no", executionDone # "no" => executionDone' # "no",
         call' # "returned" => winner' = 0 /\ losers' = {},
         winner' \notin losers', winner' # 0 => winner' \in Attempts
  PROVE  ResponseInv'
<1>1. Attempts' = Attempts /\ Unmerged' = Unmerged
  BY DEF Attempts, Unmerged
<1>2. ResponseReadable'
  BY Zenon DEF ResponseInv, ResponseReadable
<1> QED BY <1>1, <1>2, Zenon DEF ResponseInv

LEMMA BeginStep == ASSUME ResponseInv, begin PROVE ResponseInv'
<1>1. /\ next \in Attempts /\ next' = next + 1 /\ call \in {"start", "running"} /\ call' = "running"
      /\ MergeContexts(next) /\ UNCHANGED <<client, winner, requestDone, executionDone, losers, response>>
  BY DEF begin
<1>2. Attempts' = Attempts /\ Unmerged' = Unmerged /\ ResponseReadable'
  BY <1>1, Zenon DEF Attempts, Unmerged, ResponseInv, ResponseReadable
<1>3. client.attempts \in Nat
  BY ClientAssumption DEF ResponseInv
<1>4. next' \in 1..(client.attempts + 1)
  BY <1>1, <1>3 DEF Attempts
<1>5. \E u \in {"request", "execution", "own"} :
        using' = [using EXCEPT ![next] = u] /\ (Unmerged => u # "own")
  BY <1>1, Zenon DEF MergeContexts, Unmerged
<1>6. /\ DOMAIN using' = Attempts
      /\ Unmerged => \A i \in Attempts : using'[i] \in {"none", "request", "execution"}
  BY <1>5 DEF ResponseInv
<1> QED BY <1>1, <1>2, <1>4, <1>6, ZenonT(30) DEF ResponseInv

LEMMA ReadResponseStep == ASSUME ResponseInv, readResponse PROVE ResponseInv'
<1>1. /\ winner # 0 /\ response' = IF transportDone(winner) = "no" THEN "read" ELSE "failed"
      /\ UNCHANGED <<client, call, next, winner, requestDone, executionDone, losers, using>>
  BY Zenon DEF readResponse, contexts
<1>2. ASSUME Unmerged, transportDone(winner) # "no" PROVE requestDone # "no" \/ executionDone # "no"
  <2>1. winner \in Attempts /\ winner \notin losers /\ using[winner] \in {"none", "request", "execution"}
    BY <1>1, <1>2 DEF ResponseInv
  <2>2. CASE using[winner] = "request"
    BY <1>2, <2>2 DEF transportDone
  <2>3. CASE using[winner] = "execution"
    BY <1>2, <2>1, <2>3 DEF transportDone, attemptDone
  <2>4. CASE using[winner] = "none"
    BY <1>2, <2>4 DEF transportDone
  <2> QED BY <2>1, <2>2, <2>3, <2>4
<1>3. Attempts' = Attempts /\ Unmerged' = Unmerged
  BY <1>1 DEF Attempts, Unmerged
<1>4. ResponseReadable'
  BY <1>1, <1>2 DEF ResponseReadable, Unmerged
<1> QED BY <1>1, <1>3, <1>4 DEF ResponseInv

LEMMA ResponseInductive == ResponseInv /\ [ClientNext]_clientVars => ResponseInv'
<1> SUFFICES ASSUME ResponseInv, [ClientNext]_clientVars PROVE ResponseInv'
  OBVIOUS
<1>1. /\ call # "returned" => winner = 0 /\ losers = {}
      /\ winner \notin losers /\ (winner # 0 => winner \in Attempts)
  BY DEF ResponseInv
<1>2. CASE bodyReader \/ delayEnds
  BY <1>1, <1>2, ResponseKept, ZenonT(30) DEF bodyReader, delayEnds, contexts
<1>3. CASE retry
  <2>1. /\ call = "running" /\ next > 1 /\ winner' \in {0, winner, next - 1}
        /\ call' \in {"returned", "delay"}
        /\ call' = "delay" => winner' = winner
        /\ UNCHANGED <<client, next, using, response, requestDone, executionDone, losers>>
    BY <1>3, Zenon DEF retry, contexts
  <2>2. client.attempts \in Nat
    BY ClientAssumption DEF ResponseInv
  <2>3. next - 1 \in Attempts
    BY <2>1, <2>2 DEF ResponseInv, Attempts
  <2> QED BY <1>1, <2>1, <2>3, ResponseKept
<1>4. ASSUME NEW i \in Attempts, hedge(i) PROVE ResponseInv'
  <2>1. /\ call = "running" /\ call' = "returned"
        /\ UNCHANGED <<client, next, using, response, requestDone, executionDone>>
    BY <1>4 DEF hedge
  <2>2. CASE executionDone = "no"
    <3>1. winner' = i /\ i \notin losers'
      BY <1>4, <2>2 DEF hedge
    <3> QED BY <2>1, <3>1, ResponseKept
  <2>3. CASE executionDone # "no"
    <3>1. winner' = 0 /\ losers' = {}
      BY <1>1, <1>4, <2>1, <2>3 DEF hedge
    <3> QED BY <2>1, <3>1, ResponseKept
  <2> QED BY <2>2, <2>3
<1>5. UNCHANGED <<client, next, using, response, requestDone, executionDone, call, winner, losers>>
      => ResponseInv'
  BY <1>1, ResponseKept, SMTT(20)
<1>6. ASSUME NEW i \in Attempts, doRequest(i) \/ watch(i) \/ readBody(i) \/ \E o : return(i, o) PROVE ResponseInv'
  BY <1>5, <1>6, Zenon DEF doRequest, watch, readBody, return, contexts
<1>7. ASSUME NEW why \in {"canceled", "deadline"}, requestEnds(why) \/ executionEnds(why) PROVE ResponseInv'
  BY <1>1, <1>7, ResponseKept, ZenonT(30) DEF requestEnds, executionEnds
<1>8. CASE ClientTerminated \/ UNCHANGED clientVars
  BY <1>5, <1>8, Zenon DEF ClientTerminated, clientVars, contexts
<1> QED BY <1>2, <1>3, <1>4, <1>6, <1>7, <1>8, BeginStep, ReadResponseStep, SMTT(20) DEF ClientNext, ClientProgram

(***************************************************************************)
(* For every number of attempts, a response that is returned can be read   *)
(* although other attempts were canceled, unless the caller's own contexts *)
(* end, when the attempts' contexts are not merged ones (MergeContexts,    *)
(* and the cancellation of the other hedges in hedgeexecutor.go).          *)
(***************************************************************************)
THEOREM ResponsesReadable == ClientSpec => []ResponseReadable
<1>1. ResponseInv => ResponseReadable
  BY DEF ResponseInv
<1> QED BY <1>1, ResponseInitial, ResponseInductive, PTL DEF ClientSpec
=============================================================================
