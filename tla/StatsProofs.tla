---------------------------- MODULE StatsProofs ----------------------------
(***************************************************************************)
(* Proofs about the statistics of a circuit breaker, for a window of any   *)
(* number of executions, and for any thresholding period and number of     *)
(* slices: the ring, the slices, and what a breaker sees of either.        *)
(***************************************************************************)
EXTENDS CountingStatsSpec, TimedStatsSpec, SumTheorems, TLAPS

(***************************************************************************)
(* The ring of the count based statistics, for a window of any size.       *)
(***************************************************************************)
RingTyped(c, n) ==
  c \in [kind : {"counting"}, size : {n}, head : 0..(n - 1), occupiedBits : 0..n,
         successes : Nat, failures : Nat, bits : [0..(n - 1) -> BOOLEAN]]

\* The places that hold one of the outcomes a window counts.
Held(c, v) == {i \in 0..(c.occupiedBits - 1) : c.bits[i] = v}

RingTotals(c, n) ==
  /\ c.successes = Cardinality(Held(c, TRUE))
  /\ c.failures = Cardinality(Held(c, FALSE))
  /\ c.occupiedBits < n => c.head = c.occupiedBits

\* The place after the head, without the remainder.
LEMMA NextPlace ==
  ASSUME NEW n \in Nat \ {0}, NEW h \in 0..(n - 1)
  PROVE  (h + 1) % n = IF h + 1 = n THEN 0 ELSE h + 1
<1>1. CASE h + 1 = n
  BY <1>1, SMT
<1>2. CASE h + 1 < n
  BY <1>2, SMT
<1> QED BY <1>1, <1>2

\* The fields of the statistics after Counting!setNext.
LEMMA SetNextFields ==
  ASSUME NEW n \in Nat \ {0}, NEW c, RingTyped(c, n), NEW value \in BOOLEAN,
         NEW d, d = Counting!setNext(c, value)
  PROVE  LET full == c.occupiedBits = n
             old == c.bits[c.head]
         IN /\ DOMAIN d = DOMAIN c
            /\ d.kind = "counting" /\ d.size = n
            /\ d.occupiedBits = IF full THEN n ELSE c.occupiedBits + 1
            /\ d.head = IF c.head + 1 = n THEN 0 ELSE c.head + 1
            /\ d.bits = [c.bits EXCEPT ![c.head] = value]
            /\ d.successes = c.successes + Counting!Unit(value) - Counting!Unit(full /\ old)
            /\ d.failures = c.failures + Counting!Unit(~value) - Counting!Unit(full /\ ~old)
<1>1. (c.head + 1) % n = IF c.head + 1 = n THEN 0 ELSE c.head + 1
  BY NextPlace DEF RingTyped
<1>2. c.occupiedBits >= c.size <=> c.occupiedBits = n
  BY DEF RingTyped
<1> QED BY <1>1, <1>2 DEF RingTyped, Counting!setNext

\* The outcomes a ring holds are finitely many.
LEMMA HoldingFinite ==
  ASSUME NEW n \in Nat \ {0}, NEW c, RingTyped(c, n), NEW v \in BOOLEAN
  PROVE  IsFiniteSet(Held(c, v)) /\ Cardinality(Held(c, v)) \in Nat
<1>0. 0 \in Int /\ c.occupiedBits - 1 \in Int
  BY DEF RingTyped
<1>1. IsFiniteSet(0..(c.occupiedBits - 1))
  BY <1>0, FS_Interval, Zenon
<1>2. IsFiniteSet(Held(c, v))
  BY <1>1, FS_Subset, Zenon DEF Held
<1> QED BY <1>2, FS_CardinalityType

(***************************************************************************)
(* Counting!setNext adds the new outcome to those the ring holds, and      *)
(* takes the one under the head out of a full ring.                        *)
(***************************************************************************)
LEMMA SetNextCounts ==
  ASSUME NEW n \in Nat \ {0}, NEW c, RingTyped(c, n), RingTotals(c, n),
         NEW value \in BOOLEAN, NEW d, d = Counting!setNext(c, value),
         NEW v \in BOOLEAN
  PROVE  Cardinality(Held(d, v)) = Cardinality(Held(c, v)) + Counting!Unit(value = v)
                                    - Counting!Unit(c.occupiedBits = n /\ c.bits[c.head] = v)
<1> DEFINE h == c.head
           k == c.occupiedBits
           H == Held(c, v)
<1>0. /\ h \in 0..(n - 1) /\ k \in 0..n /\ n \in Nat \ {0}
      /\ c.bits \in [0..(n - 1) -> BOOLEAN]
      /\ d.occupiedBits = IF k = n THEN n ELSE k + 1
      /\ d.bits = [c.bits EXCEPT ![h] = value]
      /\ k < n => h = k
  <2>1. /\ d.occupiedBits = IF k = n THEN n ELSE k + 1
        /\ d.bits = [c.bits EXCEPT ![h] = value]
    BY SetNextFields
  <2> QED BY <2>1 DEF RingTyped, RingTotals
<1>1. H = {i \in 0..(k - 1) : c.bits[i] = v}
  BY DEF Held
<1>2. Held(d, v) = {i \in 0..(d.occupiedBits - 1) : d.bits[i] = v}
  BY DEF Held
<1>3. IsFiniteSet(H) /\ Cardinality(H) \in Nat
  BY HoldingFinite
<1> HIDE DEF H, h, k
<1>4. CASE k # n
  <2>1. k \in 0..(n - 1) /\ h = k /\ k \notin H
    BY <1>0, <1>1, <1>4
  <2>2. Held(d, v) = IF value = v THEN H \cup {k} ELSE H
    BY <1>0, <1>1, <1>2, <1>4, <2>1
  <2>3. Cardinality(Held(d, v)) = IF value = v THEN Cardinality(H) + 1 ELSE Cardinality(H)
    BY <2>1, <2>2, <1>3, FS_AddElement
  <2> QED BY <2>3, <1>3, <1>4 DEF Counting!Unit, H, k
<1>5. CASE k = n
  <2>1. Held(d, v) = IF value = v THEN H \cup {h} ELSE H \ {h}
    BY <1>0, <1>1, <1>2, <1>5
  <2>2. h \in H <=> c.bits[h] = v
    BY <1>0, <1>1, <1>5
  <2>3. CASE value = v
    <3>1. Cardinality(Held(d, v)) = IF h \in H THEN Cardinality(H) ELSE Cardinality(H) + 1
      BY <2>1, <2>3, <1>3, FS_AddElement
    <3> QED BY <3>1, <2>2, <2>3, <1>3, <1>5 DEF Counting!Unit, H, k, h
  <2>4. CASE value # v
    <3>1. Cardinality(Held(d, v)) = IF h \in H THEN Cardinality(H) - 1 ELSE Cardinality(H)
      BY <2>1, <2>4, <1>3, FS_RemoveElement
    <3> QED BY <3>1, <2>2, <2>4, <1>3, <1>5 DEF Counting!Unit, H, k, h
  <2> QED BY <2>3, <2>4
<1> QED BY <1>4, <1>5

\* The inductive invariant: totals stay natural because they count places.
RingOK(c, n) == RingTyped(c, n) /\ RingTotals(c, n)

\* Recording an outcome keeps it.
LEMMA SetNextKeeps ==
  ASSUME NEW n \in Nat \ {0}, NEW c, RingOK(c, n), NEW value \in BOOLEAN,
         NEW d, d = Counting!setNext(c, value)
  PROVE  RingOK(d, n)
<1> USE DEF RingOK
<1> DEFINE full == c.occupiedBits = n
           old == c.bits[c.head]
<1>1. /\ d.kind = "counting" /\ d.size = n
      /\ d.occupiedBits = IF full THEN n ELSE c.occupiedBits + 1
      /\ d.head = IF c.head + 1 = n THEN 0 ELSE c.head + 1
      /\ d.bits = [c.bits EXCEPT ![c.head] = value]
      /\ d.successes = c.successes + Counting!Unit(value) - Counting!Unit(full /\ old)
      /\ d.failures = c.failures + Counting!Unit(~value) - Counting!Unit(full /\ ~old)
  BY SetNextFields
<1>2. old \in BOOLEAN
  BY DEF RingTyped
<1>3. /\ Cardinality(Held(d, TRUE))
         = Cardinality(Held(c, TRUE)) + Counting!Unit(value = TRUE) - Counting!Unit(full /\ old = TRUE)
      /\ Cardinality(Held(d, FALSE))
         = Cardinality(Held(c, FALSE)) + Counting!Unit(value = FALSE) - Counting!Unit(full /\ old = FALSE)
  <2> HIDE DEF RingOK, full, old
  <2>1. RingTyped(c, n) /\ RingTotals(c, n)
    BY DEF RingOK
  <2>2. \A v \in BOOLEAN : Cardinality(Held(d, v)) = Cardinality(Held(c, v)) + Counting!Unit(value = v)
                                                - Counting!Unit(full /\ old = v)
    <3> TAKE v \in BOOLEAN
    <3> QED BY <2>1, SetNextCounts DEF full, old
  <2> QED BY <2>2, Zenon
<1>4. /\ Counting!Unit(value = TRUE) = Counting!Unit(value)
      /\ Counting!Unit(value = FALSE) = Counting!Unit(~value)
      /\ Counting!Unit(full /\ old = TRUE) = Counting!Unit(full /\ old)
      /\ Counting!Unit(full /\ old = FALSE) = Counting!Unit(full /\ ~old)
  BY <1>2 DEF Counting!Unit
<1>5. d.successes = Cardinality(Held(d, TRUE)) /\ d.failures = Cardinality(Held(d, FALSE))
  <2>1. c.successes = Cardinality(Held(c, TRUE)) /\ c.failures = Cardinality(Held(c, FALSE))
    BY DEF RingTotals
  <2>2. /\ d.successes = c.successes + Counting!Unit(value) - Counting!Unit(full /\ old)
        /\ d.failures = c.failures + Counting!Unit(~value) - Counting!Unit(full /\ ~old)
    BY <1>1
  <2> HIDE DEF RingOK, full, old
  <2> QED BY <1>3, <1>4, <2>1, <2>2, Zenon
<1>6. RingTotals(d, n)
  <2>1. d.occupiedBits < n => d.head = d.occupiedBits
    BY <1>1 DEF RingTyped, RingTotals
  <2> QED BY <1>5, <2>1 DEF RingTotals
<1>7. RingTyped(d, n)
  <2>1. /\ d.head \in 0..(n - 1) /\ d.occupiedBits \in 0..n
        /\ d.bits \in [0..(n - 1) -> BOOLEAN]
    BY <1>1 DEF RingTyped
  <2>2. IsFiniteSet(0..(d.occupiedBits - 1))
    <3>1. d.occupiedBits - 1 \in Int /\ 0 \in Int
      BY <2>1
    <3> QED BY <3>1, FS_Interval, Zenon
  <2>3. Cardinality(Held(d, TRUE)) \in Nat /\ Cardinality(Held(d, FALSE)) \in Nat
    <3>1. Held(d, TRUE) \in SUBSET (0..(d.occupiedBits - 1))
          /\ Held(d, FALSE) \in SUBSET (0..(d.occupiedBits - 1))
      BY DEF Held
    <3>2. IsFiniteSet(Held(d, TRUE)) /\ IsFiniteSet(Held(d, FALSE))
      BY <3>1, <2>2, FS_Subset, Zenon
    <3> QED BY <3>2, FS_CardinalityType, Zenon
  <2>4. d = [kind |-> "counting", size |-> n, head |-> d.head, occupiedBits |-> d.occupiedBits,
              successes |-> d.successes, failures |-> d.failures, bits |-> d.bits]
    BY <1>1, Zenon DEF Counting!setNext, RingTyped
  <2> QED BY <1>1, <1>5, <2>1, <2>3, <2>4, Zenon DEF RingTyped
<1> QED BY <1>6, <1>7

\* An empty ring satisfies it.
LEMMA EmptyRing ==
  ASSUME NEW n \in Nat \ {0}
  PROVE  RingOK(Counting!newCountingStats(n), n)
<1> DEFINE c == Counting!newCountingStats(n)
<1>1. RingTyped(c, n)
  BY DEF Counting!newCountingStats, RingTyped
<1>2. Held(c, TRUE) = {} /\ Held(c, FALSE) = {}
  BY DEF Counting!newCountingStats, Held
<1>3. RingTotals(c, n)
  BY <1>2, FS_EmptySet, Zenon DEF Counting!newCountingStats, RingTotals
<1> QED BY <1>1, <1>3 DEF RingOK

\* The ring of CountingStatsSpec is one.
LEMMA RingIs == RingOK(ring, Size) <=> RingType /\ TotalsMatchRing
BY DEF RingOK, RingTyped, RingTotals, Held, RingType, TotalsMatchRing, Holding

\* Every step keeps it.
LEMMA RingStep == RingOK(ring, Size) /\ [RingNext]_ring => RingOK(ring, Size)'
<1> SUFFICES ASSUME RingOK(ring, Size), [RingNext]_ring PROVE RingOK(ring', Size)
  BY Zenon DEF RingOK, RingTyped, RingTotals, Held
<1>1. CASE recordSuccess
  BY <1>1, SetNextKeeps, SizeAssumption, Zenon DEF recordSuccess
<1>2. CASE recordFailure
  BY <1>2, SetNextKeeps, SizeAssumption, Zenon DEF recordFailure
<1>3. CASE RingReset
  <2>1. ring.size = Size
    BY DEF RingOK, RingTyped
  <2>2. ring' = Counting!newCountingStats(Size)
    BY <1>3, <2>1 DEF RingReset, Counting!reset
  <2> QED BY <2>2, EmptyRing, SizeAssumption
<1>4. CASE UNCHANGED ring
  BY <1>4
<1> QED BY <1>1, <1>2, <1>3, <1>4 DEF RingNext

LEMMA RingStart == RingInit => RingOK(ring, Size)
BY EmptyRing, SizeAssumption DEF RingInit

(***************************************************************************)
(* For a window of any size: the totals that thresholds are compared with  *)
(* are the outcomes the ring holds, and never negative.                    *)
(***************************************************************************)
THEOREM Totals == RingSpec => [](RingType /\ TotalsMatchRing)
<1>1. RingOK(ring, Size) => RingType /\ TotalsMatchRing
  BY RingIs
<1> QED BY <1>1, RingStart, RingStep, PTL DEF RingSpec
-----------------------------------------------------------------------------
\* The outcomes a ring shows, oldest first.
PlaceIn(c, k) ==
  LET p == IF c.occupiedBits < Size THEN k - 1 ELSE c.head + k - 1
  IN IF p < Size THEN p ELSE p - Size

WindowOf(c) == [k \in 1..c.occupiedBits |-> c.bits[PlaceIn(c, k)]]

\* The window is a sequence of as many outcomes as the ring holds.
LEMMA WindowType ==
  ASSUME NEW c, RingTyped(c, Size)
  PROVE  WindowOf(c) \in Seq(BOOLEAN) /\ Len(WindowOf(c)) = c.occupiedBits
<1>1. \A k \in 1..c.occupiedBits : PlaceIn(c, k) \in 0..(Size - 1)
  BY SizeAssumption DEF RingTyped, PlaceIn
<1>2. \A k \in 1..c.occupiedBits : c.bits[PlaceIn(c, k)] \in BOOLEAN
  BY <1>1, Zenon DEF RingTyped
<1> QED BY <1>2 DEF RingTyped, WindowOf

\* A sequence that extends w by v, place by place, is what Append returns.
LEMMA AppendIs ==
  ASSUME NEW S, NEW w \in Seq(S), NEW v \in S, NEW m \in Nat, m = Len(w) + 1,
         NEW g \in [1..m -> S], \A j \in 1..Len(w) : g[j] = w[j], g[m] = v
  PROVE  g = Append(w, v)
<1> DEFINE A == Append(w, v)
<1>1. A \in Seq(S) /\ Len(A) = m
  OBVIOUS
<1>2. (\A j \in 1..Len(w) : A[j] = w[j]) /\ A[m] = v
  OBVIOUS
<1> HIDE DEF A
<1>3. A \in [1..m -> S]
  BY <1>1
<1>4. \A j \in 1..m : A[j] = g[j]
  <2> TAKE j \in 1..m
  <2>1. CASE j \in 1..Len(w)
    BY <2>1, <1>2
  <2>2. CASE j = m
    BY <2>2, <1>2
  <2> QED BY <2>1, <2>2
<1>5. A = g
  BY <1>3, <1>4
<1> QED BY <1>5 DEF A

\* Recording an outcome slides the window.
LEMMA SetNextSlides ==
  ASSUME NEW c, RingOK(c, Size), NEW value \in BOOLEAN,
         NEW d, d = Counting!setNext(c, value)
  PROVE  WindowOf(d) = Abstract!Slide(WindowOf(c), value)
<1> DEFINE W == WindowOf(c)
           h == c.head
           k == c.occupiedBits
           P(j) == IF h + j - 1 < Size THEN h + j - 1 ELSE h + j - 1 - Size
<1>0. /\ h \in 0..(Size - 1) /\ k \in 0..Size /\ Size \in Nat \ {0}
      /\ c.bits \in [0..(Size - 1) -> BOOLEAN]
      /\ d.occupiedBits = IF k = Size THEN Size ELSE k + 1
      /\ d.head = IF h + 1 = Size THEN 0 ELSE h + 1
      /\ d.bits = [c.bits EXCEPT ![h] = value]
      /\ k < Size => h = k
  <2>1. RingTyped(c, Size) /\ RingTotals(c, Size) /\ Size \in Nat \ {0}
    BY SizeAssumption DEF RingOK
  <2>2. /\ d.occupiedBits = IF k = Size THEN Size ELSE k + 1
        /\ d.head = IF h + 1 = Size THEN 0 ELSE h + 1
        /\ d.bits = [c.bits EXCEPT ![h] = value]
    BY <2>1, SetNextFields
  <2> QED BY <2>1, <2>2 DEF RingTyped, RingTotals
<1>1. W \in Seq(BOOLEAN) /\ Len(W) = k
  BY WindowType DEF RingOK
<1>2. CASE k < Size
  <2>1. \A j \in 1..k : W[j] = c.bits[j - 1]
    BY <1>0, <1>2 DEF WindowOf, PlaceIn
  <2>2. WindowOf(d) = [j \in 1..(k + 1) |-> d.bits[j - 1]]
    <3>1. d.occupiedBits = k + 1
      BY <1>0, <1>2
    <3>2. \A j \in 1..(k + 1) : PlaceIn(d, j) = j - 1
      BY <1>0, <1>2, <3>1 DEF PlaceIn
    <3> HIDE DEF k
    <3> QED BY <3>1, <3>2 DEF WindowOf
  <2>3. \A j \in 1..(k + 1) : d.bits[j - 1] = IF j = k + 1 THEN value ELSE c.bits[j - 1]
    BY <1>0, <1>2
  <2> HIDE DEF W, h, k
  <2>4. WindowOf(d) = Append(W, value)
    <3> DEFINE g == WindowOf(d)
               m == k + 1
    <3>1. g \in [1..m -> BOOLEAN]
      BY <1>0, <1>2, <2>2
    <3>2. (\A j \in 1..Len(W) : g[j] = W[j]) /\ g[m] = value
      <4>1. \A j \in 1..(k + 1) : g[j] = d.bits[j - 1]
        BY <2>2
      <4> HIDE DEF g
      <4>2. \A j \in 1..k : g[j] = W[j]
        <5> TAKE j \in 1..k
        <5>1. j \in 1..(k + 1) /\ j # k + 1
          BY <1>0
        <5>2. g[j] = d.bits[j - 1]
          BY <4>1, <5>1
        <5>3. d.bits[j - 1] = c.bits[j - 1]
          BY <2>3, <5>1
        <5>4. W[j] = c.bits[j - 1]
          BY <2>1
        <5> QED BY <5>2, <5>3, <5>4
      <4>3. g[m] = value
        <5>1. m \in 1..(k + 1) /\ m = k + 1
          BY <1>0
        <5>2. d.bits[m - 1] = value
          BY <2>3, <5>1
        <5> HIDE DEF m
        <5> QED BY <4>1, <5>1, <5>2
      <4> QED BY <1>1, <4>2, <4>3
    <3>3. m \in Nat /\ m = Len(W) + 1
      BY <1>0, <1>1
    <3>4. W \in Seq(BOOLEAN)
      BY <1>1
    <3> HIDE DEF g, m
    <3>5. g = Append(W, value)
      BY <3>1, <3>2, <3>3, <3>4, AppendIs
    <3> QED BY <3>5 DEF g
  <2> QED BY <1>1, <1>2, <2>4 DEF Abstract!Slide, W
<1>3. CASE k = Size
  <2>1. \A j \in 1..Size : W[j] = c.bits[P(j)]
    BY <1>0, <1>3 DEF WindowOf, PlaceIn
  <2>2. WindowOf(d) = [j \in 1..Size |-> d.bits[IF j = Size THEN h ELSE P(j + 1)]]
    <3>1. d.occupiedBits = Size
      BY <1>0, <1>3
    <3>2. \A j \in 1..Size : PlaceIn(d, j) = IF j = Size THEN h ELSE P(j + 1)
      <4> TAKE j \in 1..Size
      <4>1. h \in 0..(Size - 1) /\ Size \in Nat /\ d.head = IF h + 1 = Size THEN 0 ELSE h + 1
        BY <1>0
      <4> HIDE DEF h
      <4>2. PlaceIn(d, j) = IF d.head + j - 1 < Size THEN d.head + j - 1 ELSE d.head + j - 1 - Size
        <5>1. d.head \in Int /\ Size \in Int /\ j \in Int /\ ~(d.occupiedBits < Size)
          BY <3>1, <4>1
        <5> QED BY <5>1 DEF PlaceIn
      <4> USE DEF P
      <4>3. CASE h + 1 = Size
        BY <4>1, <4>2, <4>3
      <4>4. CASE h + 1 # Size
        BY <4>1, <4>2, <4>4
      <4> QED BY <4>3, <4>4
    <3> HIDE DEF P, h
    <3> QED BY <3>1, <3>2 DEF WindowOf
  <2>3. \A j \in 1..Size : P(j) \in 0..(Size - 1) /\ (j # 1 => P(j) # h)
    BY <1>0
  <2> HIDE DEF W, h, k, P
  <2>4. \A j \in 1..(Size - 1) : d.bits[P(j + 1)] = W[j + 1]
    BY <1>0, <2>1, <2>3
  <2>5. d.bits[h] = value
    BY <1>0
  <2>6. WindowOf(d) = Append(Tail(W), value)
    <3> DEFINE g == WindowOf(d)
               T == Tail(W)
    <3>1. g \in [1..Size -> BOOLEAN]
      BY <1>0, <2>2, <2>3, SMTT(20)
    <3>2. (\A j \in 1..(Size - 1) : g[j] = W[j + 1]) /\ g[Size] = value
      <4>1. \A j \in 1..Size : g[j] = d.bits[IF j = Size THEN h ELSE P(j + 1)]
        BY <2>2
      <4> HIDE DEF g
      <4>2. \A j \in 1..(Size - 1) : g[j] = W[j + 1]
        BY <1>0, <2>4, <4>1
      <4>3. g[Size] = value
        BY <1>0, <2>5, <4>1
      <4> QED BY <4>2, <4>3
    <3> HIDE DEF g
    <3>3. T \in Seq(BOOLEAN) /\ Len(T) = Size - 1 /\ \A j \in 1..(Size - 1) : T[j] = W[j + 1]
      <4>1. W \in Seq(BOOLEAN) /\ Len(W) = Size /\ Size \in Nat \ {0}
        BY <1>0, <1>1, <1>3
      <4>2. W # <<>>
        BY <4>1
      <4> QED BY <4>1, <4>2
    <3> HIDE DEF T
    <3>4. Size \in Nat /\ Size = Len(T) + 1
      BY <1>0, <3>3
    <3>5. (\A j \in 1..Len(T) : g[j] = T[j]) /\ g[Size] = value
      BY <3>2, <3>3
    <3>6. T \in Seq(BOOLEAN)
      BY <3>3
    <3>7. g = Append(T, value)
      BY <3>1, <3>4, <3>5, <3>6, AppendIs
    <3> QED BY <3>7 DEF g, T
  <2> QED BY <1>0, <1>1, <1>3, <2>6 DEF Abstract!Slide, W
<1> QED BY <1>0, <1>2, <1>3

(***************************************************************************)
(* For a window of any size: the ring and its head implement a sliding     *)
(* window over the last Size outcomes.                                     *)
(***************************************************************************)
THEOREM RingRefinement == RingSpec => ImplementsSlidingWindow
<1>0. Window = WindowOf(ring) /\ Window' = WindowOf(ring')
  BY DEF Window, Place, WindowOf, PlaceIn
<1>1. RingInit => Abstract!WInit
  BY DEF RingInit, Counting!newCountingStats, Abstract!WInit, Window
<1>2. RingOK(ring, Size) /\ [RingNext]_ring => [Abstract!WNext]_Window
  <2> SUFFICES ASSUME RingOK(ring, Size), [RingNext]_ring PROVE Abstract!WNext \/ UNCHANGED Window
    OBVIOUS
  <2>1. CASE recordSuccess \/ recordFailure
    <3>1. PICK value \in BOOLEAN : ring' = Counting!setNext(ring, value)
      BY <2>1, Zenon DEF recordSuccess, recordFailure
    <3>2. Window' = Abstract!Slide(Window, value)
      BY <1>0, <3>1, SetNextSlides
    <3> QED BY <3>2 DEF Abstract!WNext, Abstract!WRecord
  <2>2. CASE RingReset
    <3>1. Window' = <<>>
      BY <2>2 DEF RingReset, Counting!reset, Counting!newCountingStats, Window
    <3> QED BY <3>1 DEF Abstract!WNext, Abstract!WReset
  <2>3. CASE UNCHANGED ring
    BY <2>3, <1>0
  <2> QED BY <2>1, <2>2, <2>3 DEF RingNext
<1> QED BY <1>1, <1>2, RingStart, RingStep, PTL
    DEF RingSpec, ImplementsSlidingWindow, Abstract!WSpec
-----------------------------------------------------------------------------
(***************************************************************************)
(* The time based statistics: n slices of w units, whose summary is the    *)
(* sum of its slices.                                                      *)
(***************************************************************************)
StatPair == [successes : Nat, failures : Nat]

SlicesOf(n, w, b, sum, h) ==
  [kind |-> "timed", bucketCount |-> n, bucketNanos |-> w, buckets |-> b, summary |-> sum, head |-> h]

Successes(b) == [i \in DOMAIN b |-> b[i].successes]
Failures(b) == [i \in DOMAIN b |-> b[i].failures]
SumOf(b, places) == Timed!stat(SumFunctionOnSet(Successes(b), places), SumFunctionOnSet(Failures(b), places))

Summed(n, w, b, h) == SlicesOf(n, w, b, SumOf(b, 0..(n - 1)), h)

SlicesTyped(n, w, b, h) ==
  n \in Nat \ {0} /\ w \in Nat \ {0} /\ b \in [0..(n - 1) -> StatPair] /\ h \in Nat

SlicesOK(s, n, w) == s = Summed(n, w, s.buckets, s.head) /\ SlicesTyped(n, w, s.buckets, s.head)

LEMMA Places ==
  ASSUME NEW n \in Nat \ {0}
  PROVE  IsFiniteSet(0..(n - 1))
<1>1. 0 \in Int /\ n - 1 \in Int
  OBVIOUS
<1> QED BY <1>1, FS_Interval, Zenon

\* The sums are natural numbers.
LEMMA SumOfType ==
  ASSUME NEW n \in Nat \ {0}, NEW b \in [0..(n - 1) -> StatPair], NEW X \in SUBSET (0..(n - 1))
  PROVE  /\ \A i \in 0..(n - 1) : Successes(b)[i] = b[i].successes /\ Successes(b)[i] \in Nat
         /\ \A i \in 0..(n - 1) : Failures(b)[i] = b[i].failures /\ Failures(b)[i] \in Nat
         /\ SumFunctionOnSet(Successes(b), X) \in Nat /\ SumFunctionOnSet(Failures(b), X) \in Nat
         /\ IsFiniteSet(X)
<1>1. IsFiniteSet(X)
  BY Places, FS_Subset, Zenon
<1>2. /\ \A i \in 0..(n - 1) : Successes(b)[i] = b[i].successes /\ Successes(b)[i] \in Nat
      /\ \A i \in 0..(n - 1) : Failures(b)[i] = b[i].failures /\ Failures(b)[i] \in Nat
  BY DEF Successes, Failures, StatPair
<1>3. SumFunctionOnSet(Successes(b), X) \in Nat
  <2>1. \A i \in X : Successes(b)[i] \in Nat
    BY <1>2
  <2> QED BY <1>1, <2>1, SumNat, Zenon
<1>4. SumFunctionOnSet(Failures(b), X) \in Nat
  <2>1. \A i \in X : Failures(b)[i] \in Nat
    BY <1>2
  <2> QED BY <1>1, <2>1, SumNat, Zenon
<1> QED BY <1>1, <1>2, <1>3, <1>4

\* TimedStats adds up with the same operator.
LEMMA TimedSum == \A f, S : Timed!SumFunctionOnSet(f, S) = SumFunctionOnSet(f, S)
BY DEF Timed!SumFunctionOnSet, Timed!FoldFunctionOnSet, Timed!MapThenFoldSet,
       SumFunctionOnSet, FoldFunctionOnSet, MapThenFoldSet

LEMMA CollectedIs ==
  ASSUME NEW n \in Nat \ {0}, NEW s, s.buckets \in [0..(n - 1) -> StatPair], NEW X \in SUBSET (0..(n - 1))
  PROVE  Timed!Collected(s, X) = SumOf(s.buckets, X)
<1> DEFINE b == s.buckets
           f == [i \in X |-> b[i].successes]
           g == [i \in X |-> b[i].failures]
<1>1. IsFiniteSet(X)
  BY SumOfType
<1>2. (\A i \in X : f[i] = Successes(b)[i]) /\ (\A i \in X : g[i] = Failures(b)[i])
  BY DEF Successes, Failures
<1>3. Timed!Collected(s, X) = Timed!stat(SumFunctionOnSet(f, X), SumFunctionOnSet(g, X))
  BY TimedSum, Zenon DEF Timed!Collected
<1> HIDE DEF f, g
<1>4. SumFunctionOnSet(f, X) = SumFunctionOnSet(Successes(b), X)
  BY <1>1, <1>2, SumSame, Zenon
<1>5. SumFunctionOnSet(g, X) = SumFunctionOnSet(Failures(b), X)
  BY <1>1, <1>2, SumSame, Zenon
<1> QED BY <1>3, <1>4, <1>5, Zenon DEF SumOf

\* Adding outcomes to a count, and taking a count out of one.
LEMMA PlusIs ==
  ASSUME NEW p, NEW q, NEW x, NEW y
  PROVE  Timed!Plus(Timed!stat(p, q), x, y) = Timed!stat(p + x, q + y)
<1> DEFINE t == [successes |-> p, failures |-> q]
<1>1. t.successes = p /\ t.failures = q
  OBVIOUS
<1>2. [t EXCEPT !.successes = p + x] = [successes |-> p + x, failures |-> q]
  OBVIOUS
<1>3. [[successes |-> p + x, failures |-> q] EXCEPT !.failures = q + y] = [successes |-> p + x, failures |-> q + y]
  OBVIOUS
<1> QED BY <1>1, <1>2, <1>3, Zenon DEF Timed!Plus, Timed!stat

LEMMA RemoveIs ==
  ASSUME NEW p \in Int, NEW q \in Int, NEW u \in Int, NEW v \in Int
  PROVE  Timed!remove(Timed!stat(p, q), Timed!stat(u, v)) = Timed!stat(p - u, q - v)
<1>1. Timed!remove(Timed!stat(p, q), Timed!stat(u, v)) = Timed!Plus(Timed!stat(p, q), -u, -v)
  BY DEF Timed!remove, Timed!stat
<1>2. Timed!Plus(Timed!stat(p, q), -u, -v) = Timed!stat(p + (-u), q + (-v))
  BY PlusIs
<1>3. p + (-u) = p - u /\ q + (-v) = q - v
  OBVIOUS
<1> QED BY <1>1, <1>2, <1>3, Zenon

\* Clearing the slices X takes what they hold out of the sum.
Clear(b, X) == [i \in DOMAIN b |-> IF i \in X THEN Timed!stat(0, 0) ELSE b[i]]

LEMMA Clearing ==
  ASSUME NEW n \in Nat \ {0}, NEW b \in [0..(n - 1) -> StatPair], NEW X \in SUBSET (0..(n - 1))
  PROVE  /\ Clear(b, X) \in [0..(n - 1) -> StatPair]
         /\ SumOf(Clear(b, X), 0..(n - 1)) = Timed!remove(SumOf(b, 0..(n - 1)), SumOf(b, X))
<1> DEFINE A == 0..(n - 1)
           c == Clear(b, X)
<1>1. c \in [A -> StatPair]
  BY DEF Clear, StatPair, Timed!stat
<1>2. \A i \in A : c[i] = IF i \in X THEN Timed!stat(0, 0) ELSE b[i]
  BY DEF Clear
<1>3. IsFiniteSet(A) /\ X \subseteq A
  BY Places
<1>4. /\ \A i \in A : Successes(b)[i] = b[i].successes /\ Successes(b)[i] \in Nat
      /\ \A i \in A : Failures(b)[i] = b[i].failures /\ Failures(b)[i] \in Nat
      /\ SumFunctionOnSet(Successes(b), X) \in Nat /\ SumFunctionOnSet(Failures(b), X) \in Nat
  BY SumOfType, Zenon
<1>5. /\ \A i \in A : Successes(c)[i] = c[i].successes
      /\ \A i \in A : Failures(c)[i] = c[i].failures
  BY <1>1 DEF Successes, Failures
<1>6. SumFunctionOnSet(Successes(b), A) \in Nat /\ SumFunctionOnSet(Failures(b), A) \in Nat
  BY SumOfType
<1> HIDE DEF A, c
<1>7. \A i \in A : Successes(b)[i] \in Int /\ Successes(c)[i] = IF i \in X THEN 0 ELSE Successes(b)[i]
  BY <1>2, <1>4, <1>5 DEF Timed!stat
<1>8. \A i \in A : Failures(b)[i] \in Int /\ Failures(c)[i] = IF i \in X THEN 0 ELSE Failures(b)[i]
  BY <1>2, <1>4, <1>5 DEF Timed!stat
<1>9. SumFunctionOnSet(Successes(c), A) = SumFunctionOnSet(Successes(b), A) - SumFunctionOnSet(Successes(b), X)
  <2>1. ZeroOn(Successes(b), Successes(c), A, X)
    BY <1>3, <1>7, Zenon DEF ZeroOn
  <2> QED BY <2>1, SumCleared
<1>10. SumFunctionOnSet(Failures(c), A) = SumFunctionOnSet(Failures(b), A) - SumFunctionOnSet(Failures(b), X)
  <2>1. ZeroOn(Failures(b), Failures(c), A, X)
    BY <1>3, <1>8, Zenon DEF ZeroOn
  <2> QED BY <2>1, SumCleared
<1>11. SumOf(c, A) = Timed!remove(SumOf(b, A), SumOf(b, X))
  <2> DEFINE p == SumFunctionOnSet(Successes(b), A)
             q == SumFunctionOnSet(Failures(b), A)
             u == SumFunctionOnSet(Successes(b), X)
             v == SumFunctionOnSet(Failures(b), X)
  <2>2. /\ SumOf(c, A) = Timed!stat(p - u, q - v) /\ SumOf(b, A) = Timed!stat(p, q)
        /\ SumOf(b, X) = Timed!stat(u, v)
    BY <1>9, <1>10, Zenon DEF SumOf
  <2>3. p \in Int /\ q \in Int /\ u \in Int /\ v \in Int
    BY <1>4, <1>6
  <2> HIDE DEF p, q, u, v
  <2>4. Timed!remove(Timed!stat(p, q), Timed!stat(u, v)) = Timed!stat(p - u, q - v)
    BY <2>3, RemoveIs
  <2> QED BY <2>2, <2>4, Zenon
<1> QED BY <1>1, <1>11 DEF A, c

\* What an assignment to fields of the statistics leaves.
Assigned(s, c, new, g) == [s EXCEPT !.summary = new, !.buckets = c, !.head = g]
AssignedAt(s, i, x, new) == [s EXCEPT !.buckets[i] = x, !.summary = new]

LEMMA SlicesAssign ==
  ASSUME NEW n, NEW w, NEW b, NEW sum, NEW h, NEW c, NEW new, NEW g
  PROVE  Assigned(SlicesOf(n, w, b, sum, h), c, new, g) = SlicesOf(n, w, c, new, g)
<1>1. [SlicesOf(n, w, b, sum, h) EXCEPT !.summary = new] = SlicesOf(n, w, b, new, h)
  BY DEF SlicesOf
<1>2. [SlicesOf(n, w, b, new, h) EXCEPT !.buckets = c] = SlicesOf(n, w, c, new, h)
  BY DEF SlicesOf
<1>3. [SlicesOf(n, w, c, new, h) EXCEPT !.head = g] = SlicesOf(n, w, c, new, g)
  BY DEF SlicesOf
<1> QED BY <1>1, <1>2, <1>3, Zenon DEF Assigned

LEMMA SlicesAssignAt ==
  ASSUME NEW n, NEW w, NEW b, NEW sum, NEW h, NEW i, NEW x, NEW new
  PROVE  AssignedAt(SlicesOf(n, w, b, sum, h), i, x, new) = SlicesOf(n, w, [b EXCEPT ![i] = x], new, h)
<1>1. [SlicesOf(n, w, b, sum, h) EXCEPT !.buckets[i] = x] = SlicesOf(n, w, [b EXCEPT ![i] = x], sum, h)
  BY DEF SlicesOf
<1>2. [SlicesOf(n, w, [b EXCEPT ![i] = x], sum, h) EXCEPT !.summary = new]
      = SlicesOf(n, w, [b EXCEPT ![i] = x], new, h)
  BY DEF SlicesOf
<1> QED BY <1>1, <1>2, Zenon DEF AssignedAt

LEMMA SlicesFields ==
  ASSUME NEW n, NEW w, NEW b, NEW sum, NEW h
  PROVE  /\ SlicesOf(n, w, b, sum, h).kind = "timed" /\ SlicesOf(n, w, b, sum, h).bucketCount = n
         /\ SlicesOf(n, w, b, sum, h).bucketNanos = w /\ SlicesOf(n, w, b, sum, h).buckets = b
         /\ SlicesOf(n, w, b, sum, h).summary = sum /\ SlicesOf(n, w, b, sum, h).head = h
BY DEF SlicesOf

\* The slices the head passes over on its way to slice g.
Passed(h, g, n) == {(h + i + 1) % n : i \in 0..(Timed!Min({n, g - h}) - 1)}

\* The head and the slices after currentBucket, when the clock stands in slice g.
HeadAfter(h, g) == IF g <= h THEN h ELSE g
SlicesAfter(b, h, g, n) == IF g <= h THEN b ELSE Clear(b, Passed(h, g, n))

LEMMA MinPair ==
  ASSUME NEW x \in Int, NEW y \in Int
  PROVE  Timed!Min({x, y}) = IF x <= y THEN x ELSE y
<1> DEFINE m == IF x <= y THEN x ELSE y
<1>1. m \in {x, y} /\ \A z \in {x, y} : m <= z
  OBVIOUS
<1>2. \A k \in {x, y} : (\A z \in {x, y} : k <= z) => k = m
  OBVIOUS
<1> HIDE DEF m
<1>3. Timed!Min({x, y}) = m
  BY <1>1, <1>2 DEF Timed!Min
<1> QED BY <1>3 DEF m

LEMMA PassedPlaces ==
  ASSUME NEW n \in Nat \ {0}, NEW h \in Nat, NEW g \in Nat, ~(g <= h)
  PROVE  Passed(h, g, n) \in SUBSET (0..(n - 1))
<1>1. Timed!Min({n, g - h}) \in Nat
  BY MinPair
<1>2. \A i \in 0..(Timed!Min({n, g - h}) - 1) : (h + i + 1) % n \in 0..(n - 1)
  <2> TAKE i \in 0..(Timed!Min({n, g - h}) - 1)
  <2>1. h + i + 1 \in Int
    BY <1>1
  <2> QED BY <2>1, Remainder
<1> QED BY <1>2, Zenon DEF Passed

\* currentBucket keeps the summary the sum of the slices.
LEMMA CurrentIs ==
  ASSUME NEW n, NEW w, NEW b, NEW h, SlicesTyped(n, w, b, h), NEW t \in Nat
  PROVE  /\ SlicesTyped(n, w, SlicesAfter(b, h, t \div w, n), HeadAfter(h, t \div w))
         /\ Timed!currentBucket(Summed(n, w, b, h), t)
            = Summed(n, w, SlicesAfter(b, h, t \div w, n), HeadAfter(h, t \div w))
<1>0. n \in Nat \ {0} /\ w \in Nat \ {0} /\ b \in [0..(n - 1) -> StatPair] /\ h \in Nat
  BY DEF SlicesTyped
<1> USE DEF Summed
<1> DEFINE all == 0..(n - 1)
           g == t \div w
           P == Passed(h, g, n)
           s == SlicesOf(n, w, b, SumOf(b, all), h)
<1>1. g \in Nat
  BY <1>0, DivisionNat
<1>2. /\ s.bucketCount = n /\ s.bucketNanos = w /\ s.buckets = b /\ s.summary = SumOf(b, all)
      /\ s.head = h
  BY SlicesFields
<1>3. CASE g <= h
  <2>1. Timed!currentBucket(s, t) = s
    BY <1>2, <1>3 DEF Timed!currentBucket
  <2>2. SlicesAfter(b, h, g, n) = b /\ HeadAfter(h, g) = h
    BY <1>3 DEF SlicesAfter, HeadAfter
  <2> QED BY <2>1, <2>2
<1>4. CASE ~(g <= h)
  <2> HIDE DEF g, s
  <2>1. P \in SUBSET all
    BY <1>0, <1>1, <1>4, PassedPlaces
  <2>2. /\ Clear(b, P) \in [all -> StatPair]
        /\ SumOf(Clear(b, P), all) = Timed!remove(SumOf(b, all), SumOf(b, P))
    BY <1>0, <2>1, Clearing
  <2>3. Timed!Collected(s, P) = SumOf(b, P)
    BY <1>0, <1>2, <2>1, CollectedIs
  <2>4. Timed!currentBucket(s, t)
        = Assigned(s, Clear(s.buckets, P), Timed!remove(s.summary, Timed!Collected(s, P)), g)
    BY <1>2, <1>4, ZenonT(30) DEF Timed!currentBucket, Passed, Clear, Assigned, g
  <2>5. Timed!currentBucket(s, t) = Assigned(s, Clear(b, P), SumOf(Clear(b, P), all), g)
    BY <1>2, <2>2, <2>3, <2>4, Zenon
  <2>6. Timed!currentBucket(s, t) = SlicesOf(n, w, Clear(b, P), SumOf(Clear(b, P), all), g)
    BY <2>5, SlicesAssign DEF s
  <2>7. SlicesAfter(b, h, g, n) = Clear(b, P) /\ HeadAfter(h, g) = g
    BY <1>4 DEF SlicesAfter, HeadAfter
  <2> QED BY <1>0, <1>1, <2>2, <2>6, <2>7, Zenon DEF g, s, SlicesTyped
<1> QED BY <1>3, <1>4

\* The slices after an outcome was added to the one at place p.
Added(c, p, success) ==
  LET ok == IF success THEN 1 ELSE 0 IN [c EXCEPT ![p] = Timed!Plus(c[p], ok, 1 - ok)]

\* An outcome adds to the sum what it adds to its slice.
LEMMA Adding ==
  ASSUME NEW n \in Nat \ {0}, NEW c \in [0..(n - 1) -> StatPair], NEW p \in 0..(n - 1), NEW success \in BOOLEAN
  PROVE  LET all == 0..(n - 1)
             ok == IF success THEN 1 ELSE 0
             d == Added(c, p, success)
         IN /\ d \in [all -> StatPair]
            /\ SumOf(d, all) = Timed!Plus(SumOf(c, all), ok, 1 - ok)
            /\ \A i \in all : /\ d[i].successes = c[i].successes + (IF i = p /\ success THEN 1 ELSE 0)
                              /\ d[i].failures = c[i].failures + (IF i = p /\ ~success THEN 1 ELSE 0)
<1> DEFINE all == 0..(n - 1)
           ok == IF success THEN 1 ELSE 0
           d == Added(c, p, success)
<1>1. ok \in {0, 1} /\ 1 - ok \in {0, 1} /\ p \in all
  OBVIOUS
<1>2. \A i \in all : c[i] = Timed!stat(c[i].successes, c[i].failures) /\ c[i].successes \in Nat /\ c[i].failures \in Nat
  BY DEF StatPair, Timed!stat
<1>3. Timed!Plus(c[p], ok, 1 - ok) = Timed!stat(c[p].successes + ok, c[p].failures + (1 - ok))
  <2> DEFINE x == c[p].successes
             y == c[p].failures
             j == 1 - ok
  <2>1. c[p] = Timed!stat(x, y)
    BY <1>1, <1>2
  <2> HIDE DEF x, y, ok, j
  <2>2. Timed!Plus(Timed!stat(x, y), ok, j) = Timed!stat(x + ok, y + j)
    BY PlusIs
  <2> QED BY <2>1, <2>2, Zenon DEF x, y, j
<1>4. d = [c EXCEPT ![p] = Timed!stat(c[p].successes + ok, c[p].failures + (1 - ok))]
  BY <1>3, Zenon DEF Added
<1> HIDE DEF d, ok
<1>5. d \in [all -> StatPair]
  <2>1. Timed!stat(c[p].successes + ok, c[p].failures + (1 - ok)) \in StatPair
    BY <1>1, <1>2 DEF StatPair, Timed!stat
  <2> QED BY <1>4, <2>1
<1>6. \A i \in all : /\ d[i].successes = c[i].successes + (IF i = p THEN ok ELSE 0)
                     /\ d[i].failures = c[i].failures + (IF i = p THEN 1 - ok ELSE 0)
  BY <1>1, <1>2, <1>4 DEF Timed!stat
<1>7. /\ \A i \in all : Successes(c)[i] = c[i].successes /\ Failures(c)[i] = c[i].failures
      /\ \A i \in all : Successes(d)[i] = d[i].successes /\ Failures(d)[i] = d[i].failures
  BY <1>5 DEF Successes, Failures
<1>8. IsFiniteSet(all)
  BY Places
<1> HIDE DEF all
<1>9. SumFunctionOnSet(Successes(d), all) = SumFunctionOnSet(Successes(c), all) + ok
  <2> DEFINE f == Successes(c)
             k == Successes(d)
  <2>0. \A i \in all : /\ f[i] \in Nat
                       /\ k[i] = f[i] + (IF i = p THEN ok ELSE 0)
    BY <1>2, <1>6, <1>7, Zenon
  <2>1. /\ \A i \in all : f[i] \in Int /\ k[i] \in Int
        /\ \A i \in all \ {p} : f[i] = k[i]
        /\ k[p] - f[p] = ok
    BY <1>1, <2>0, SMTT(20)
  <2> HIDE DEF f, k
  <2>2. SameBut(f, k, all, p)
    BY <1>1, <1>8, <2>1, Zenon DEF SameBut
  <2>3. SumMoves(f, k, all, p)
    BY <2>2, SumMove
  <2>4. SumFunctionOnSet(k, all) = SumFunctionOnSet(f, all) + (k[p] - f[p])
    BY <2>3 DEF SumMoves
  <2> QED BY <2>1, <2>4, Zenon DEF f, k
<1>10. SumFunctionOnSet(Failures(d), all) = SumFunctionOnSet(Failures(c), all) + (1 - ok)
  <2> DEFINE f == Failures(c)
             k == Failures(d)
  <2>0. \A i \in all : /\ f[i] \in Nat
                       /\ k[i] = f[i] + (IF i = p THEN 1 - ok ELSE 0)
    BY <1>2, <1>6, <1>7, Zenon
  <2>1. /\ \A i \in all : f[i] \in Int /\ k[i] \in Int
        /\ \A i \in all \ {p} : f[i] = k[i]
        /\ k[p] - f[p] = 1 - ok
    BY <1>1, <2>0, SMTT(20)
  <2> HIDE DEF f, k
  <2>2. SameBut(f, k, all, p)
    BY <1>1, <1>8, <2>1, Zenon DEF SameBut
  <2>3. SumMoves(f, k, all, p)
    BY <2>2, SumMove
  <2>4. SumFunctionOnSet(k, all) = SumFunctionOnSet(f, all) + (k[p] - f[p])
    BY <2>3 DEF SumMoves
  <2> QED BY <2>1, <2>4, Zenon DEF f, k
<1>11. SumOf(d, all) = Timed!Plus(SumOf(c, all), ok, 1 - ok)
  <2> DEFINE x == SumFunctionOnSet(Successes(c), all)
             y == SumFunctionOnSet(Failures(c), all)
             j == 1 - ok
  <2>1. SumOf(d, all) = Timed!stat(x + ok, y + j) /\ SumOf(c, all) = Timed!stat(x, y)
    BY <1>9, <1>10, Zenon DEF SumOf
  <2> HIDE DEF x, y, j
  <2>2. Timed!Plus(Timed!stat(x, y), ok, j) = Timed!stat(x + ok, y + j)
    BY PlusIs
  <2> QED BY <2>1, <2>2, Zenon DEF j
<1>12. \A i \in all : /\ d[i].successes = c[i].successes + (IF i = p /\ success THEN 1 ELSE 0)
                      /\ d[i].failures = c[i].failures + (IF i = p /\ ~success THEN 1 ELSE 0)
  BY <1>6 DEF ok
<1> QED BY <1>5, <1>11, <1>12, Zenon DEF all, d, ok

\* recordSuccess and recordFailure: the clock's slice becomes current, and gets the outcome.
LEMMA RecordIs ==
  ASSUME NEW n, NEW w, NEW b, NEW h, SlicesTyped(n, w, b, h), NEW t \in Nat, NEW success \in BOOLEAN
  PROVE  LET g == HeadAfter(h, t \div w)
             d == Added(SlicesAfter(b, h, t \div w, n), g % n, success)
         IN /\ SlicesTyped(n, w, d, g) /\ g % n \in 0..(n - 1)
            /\ Timed!record(Summed(n, w, b, h), success, t) = Summed(n, w, d, g)
<1> DEFINE all == 0..(n - 1)
           g == HeadAfter(h, t \div w)
           c == SlicesAfter(b, h, t \div w, n)
           p == g % n
           ok == IF success THEN 1 ELSE 0
           d == Added(c, p, success)
           s == Summed(n, w, b, h)
           u == Summed(n, w, c, g)
<1>0. SlicesTyped(n, w, c, g) /\ Timed!currentBucket(s, t) = u
  BY CurrentIs, ZenonT(30)
<1>1. c \in [all -> StatPair] /\ g \in Nat /\ n \in Nat \ {0} /\ w \in Nat \ {0}
  BY <1>0 DEF SlicesTyped
<1>2. p \in all
  <2> HIDE DEF g
  <2>1. g \in Int
    BY <1>1
  <2> QED BY <1>1, <2>1, Remainder, Zenon
<1>3. d \in [all -> StatPair] /\ SumOf(d, all) = Timed!Plus(SumOf(c, all), ok, 1 - ok)
  <2> HIDE DEF c, p
  <2> QED BY <1>1, <1>2, Adding
<1>4. u.bucketCount = n /\ u.buckets = c /\ u.summary = SumOf(c, all) /\ u.head = g
  BY SlicesFields DEF Summed
<1> HIDE DEF c, s, u, g
<1>5. Timed!record(s, success, t)
      = AssignedAt(u, u.head % u.bucketCount, Timed!Plus(u.buckets[u.head % u.bucketCount], ok, 1 - ok),
                   Timed!Plus(u.summary, ok, 1 - ok))
  BY <1>0, Zenon DEF Timed!record, AssignedAt
<1>6. Timed!record(s, success, t) = AssignedAt(u, p, Timed!Plus(c[p], ok, 1 - ok), SumOf(d, all))
  BY <1>3, <1>4, <1>5, Zenon
<1>7. Timed!record(s, success, t) = SlicesOf(n, w, d, SumOf(d, all), g)
  <2>1. d = [c EXCEPT ![p] = Timed!Plus(c[p], ok, 1 - ok)]
    BY Zenon DEF Added
  <2> DEFINE x == Timed!Plus(c[p], ok, 1 - ok)
             new == SumOf(d, all)
             sum == SumOf(c, all)
  <2>2. u = SlicesOf(n, w, c, sum, g)
    BY DEF u, Summed
  <2> HIDE DEF d, p, x, new, sum
  <2>3. AssignedAt(SlicesOf(n, w, c, sum, g), p, x, new) = SlicesOf(n, w, [c EXCEPT ![p] = x], new, g)
    BY SlicesAssignAt
  <2> QED BY <1>6, <2>1, <2>2, <2>3, Zenon DEF x, new
<1> QED BY <1>1, <1>2, <1>3, <1>7, Zenon DEF c, s, g, Summed, SlicesTyped

\* New and reset statistics are empty.
NoSlices(n) == [i \in 0..(n - 1) |-> Timed!stat(0, 0)]

LEMMA NoSlicesIs ==
  ASSUME NEW n \in Nat \ {0}, NEW w \in Nat \ {0}
  PROVE  SlicesTyped(n, w, NoSlices(n), 0) /\ SumOf(NoSlices(n), 0..(n - 1)) = Timed!stat(0, 0)
<1> DEFINE b == NoSlices(n)
           all == 0..(n - 1)
<1>1. b \in [all -> StatPair]
  BY DEF NoSlices, StatPair, Timed!stat
<1>2. \A i \in all : b[i].successes = 0 /\ b[i].failures = 0
  BY DEF NoSlices, Timed!stat
<1>3. /\ \A i \in all : Successes(b)[i] = b[i].successes
      /\ \A i \in all : Failures(b)[i] = b[i].failures
      /\ IsFiniteSet(all)
  BY <1>1, SumOfType, Zenon
<1>4. (\A i \in all : Successes(b)[i] = 0) /\ (\A i \in all : Failures(b)[i] = 0)
  BY <1>2, <1>3, Zenon
<1> HIDE DEF b, all
<1>5. 0 \in Int /\ Cardinality(all) \in Nat
  BY <1>3, FS_CardinalityType
<1>6. 0 * Cardinality(all) = 0
  BY <1>5
<1>7. SumFunctionOnSet(Successes(b), all) = 0 * Cardinality(all)
      /\ SumFunctionOnSet(Failures(b), all) = 0 * Cardinality(all)
  BY <1>3, <1>4, <1>5, SumConstant, Zenon
<1>8. SumOf(b, all) = Timed!stat(0, 0)
  BY <1>6, <1>7, Zenon DEF SumOf
<1>9. SlicesTyped(n, w, b, 0)
  BY <1>1 DEF SlicesTyped, all
<1> QED BY <1>8, <1>9 DEF b, all

LEMMA NewSlices ==
  ASSUME NEW n \in Nat \ {0}, NEW period, period \div n \in Nat \ {0}
  PROVE  Timed!newTimedStats(n, period) = Summed(n, period \div n, NoSlices(n), 0)
BY NoSlicesIs, Zenon DEF Timed!newTimedStats, Summed, SlicesOf, NoSlices

LEMMA ResetSlices ==
  ASSUME NEW n, NEW w, NEW b, NEW h, SlicesTyped(n, w, b, h)
  PROVE  Timed!reset(Summed(n, w, b, h)) = Summed(n, w, NoSlices(n), 0)
<1> DEFINE z == NoSlices(n)
           sum == SumOf(b, 0..(n - 1))
           new == Timed!stat(0, 0)
           s == SlicesOf(n, w, b, sum, h)
<1>1. n \in Nat \ {0} /\ w \in Nat \ {0} /\ DOMAIN b = 0..(n - 1)
  BY DEF SlicesTyped
<1>2. SumOf(z, 0..(n - 1)) = new
  BY <1>1, NoSlicesIs, Zenon
<1>3. s.buckets = b
  BY DEF SlicesOf
<1>4. Timed!reset(s) = [s EXCEPT !.buckets = z, !.summary = new, !.head = 0]
  BY <1>1, <1>3, Zenon DEF Timed!reset, NoSlices
<1> HIDE DEF z, sum, new
<1>5. [s EXCEPT !.buckets = z] = SlicesOf(n, w, z, sum, h)
  BY DEF SlicesOf
<1>6. [SlicesOf(n, w, z, sum, h) EXCEPT !.summary = new] = SlicesOf(n, w, z, new, h)
  BY DEF SlicesOf
<1>7. [SlicesOf(n, w, z, new, h) EXCEPT !.head = 0] = SlicesOf(n, w, z, new, 0)
  BY DEF SlicesOf
<1>8. Timed!reset(s) = SlicesOf(n, w, z, new, 0)
  BY <1>4, <1>5, <1>6, <1>7, Zenon
<1> QED BY <1>2, <1>8, Zenon DEF Summed, z, sum, new
-----------------------------------------------------------------------------
(***************************************************************************)
(* The outcomes TimedStatsSpec remembers, in the place of their slice.     *)
(***************************************************************************)
LEMMA SlicePeriod == SliceCount \in Nat \ {0} /\ Period \div SliceCount \in Nat \ {0}
<1> DEFINE d == Period \div SliceCount
<1>1. SliceCount \in Nat \ {0} /\ Period \in Nat /\ Period >= SliceCount
  BY TimedAssumption
<1>2. d \in Nat
  BY <1>1, DivisionNat
<1>3. Period < SliceCount * d + SliceCount
  BY <1>1, Division
<1> HIDE DEF d
<1>4. d # 0
  BY <1>1, <1>2, <1>3
<1> QED BY <1>1, <1>2, <1>4 DEF d

LEMMA SeqElements ==
  ASSUME NEW S, NEW es \in Seq(S)
  PROVE  DOMAIN es = 1..Len(es) /\ Len(es) \in Nat /\ \A i \in DOMAIN es : es[i] \in S
OBVIOUS

EventsOK(es, m) ==
  /\ es \in Seq([ok : BOOLEAN, slice : Nat])
  /\ \A i \in DOMAIN es : es[i].slice <= m

At(es, m, v, p) ==
  {i \in DOMAIN es : es[i].ok = v /\ es[i].slice > m - SliceCount /\ es[i].slice % SliceCount = p}

\* Every slice counts the outcomes in its place, when the head is in slice m.
Tells(b, es, m) ==
  \A p \in 0..(SliceCount - 1) :
    b[p] = Timed!stat(Cardinality(At(es, m, TRUE, p)), Cardinality(At(es, m, FALSE, p)))

\* The head passes over the place of exactly the slices that leave the window.
LEMMA PassedOver ==
  ASSUME NEW n \in Nat \ {0}, NEW h \in Nat, NEW g \in Nat, ~(g <= h), NEW x \in Nat, x <= h
  PROVE  x > g - n <=> x > h - n /\ x % n \notin Passed(h, g, n)
<1> DEFINE k == IF n <= g - h THEN n ELSE g - h
<1>1. k \in Nat /\ k <= n /\ k <= g - h
  OBVIOUS
<1>2. Passed(h, g, n) = {(h + i + 1) % n : i \in 0..(k - 1)}
  <2>1. Timed!Min({n, g - h}) = k
    BY MinPair
  <2> HIDE DEF k
  <2> QED BY <2>1, Zenon DEF Passed
<1>3. ASSUME x > g - n PROVE x > h - n /\ x % n \notin Passed(h, g, n)
  <2>1. x > h - n
    BY <1>3
  <2>2. ASSUME NEW i \in 0..(k - 1), x % n = (h + i + 1) % n PROVE FALSE
    <3> HIDE DEF k
    <3> DEFINE y == h + i + 1
    <3>1. i \in Nat /\ i < k
      BY <1>1
    <3>2. x \in Int /\ y \in Int /\ x - y < n /\ y - x < n /\ x # y
      BY <1>1, <1>3, <3>1
    <3>3. x % n = y % n
      BY <2>2
    <3> HIDE DEF y
    <3> QED BY <3>2, <3>3, SameRemainder, Zenon
  <2> QED BY <1>2, <2>1, <2>2, Zenon
<1>4. ASSUME x > h - n, ~(x > g - n) PROVE x % n \in Passed(h, g, n)
  <2> DEFINE i == x + n - h - 1
  <2>1. i \in 0..(k - 1) /\ h + i + 1 = x + n
    BY <1>4
  <2>2. (x + n) % n = x % n
    <3>1. x \in Int
      OBVIOUS
    <3> QED BY <3>1, Remainder, Zenon
  <2> HIDE DEF i, k
  <2>3. (h + i + 1) % n = x % n
    BY <2>1, <2>2
  <2> QED BY <1>2, <2>1, <2>3
<1> QED BY <1>3, <1>4

LEMMA EventSlices ==
  ASSUME NEW h, NEW es, EventsOK(es, h)
  PROVE  \A i \in DOMAIN es : es[i].slice \in Nat /\ es[i].slice <= h
<1>1. \A i \in DOMAIN es : es[i] \in [ok : BOOLEAN, slice : Nat]
  BY SeqElements, Zenon DEF EventsOK
<1> QED BY <1>1, Zenon DEF EventsOK

\* The outcomes in a place, when the head has moved on.
LEMMA AtExpires ==
  ASSUME NEW h \in Nat, NEW g \in Nat, ~(g <= h), NEW es, EventsOK(es, h), NEW v, NEW p
  PROVE  At(es, g, v, p) = IF p \in Passed(h, g, SliceCount) THEN {} ELSE At(es, h, v, p)
<1>1. \A i \in DOMAIN es : es[i].slice \in Nat /\ es[i].slice <= h
  BY EventSlices, Zenon
<1>2. \A i \in DOMAIN es : es[i].slice > g - SliceCount
        <=> es[i].slice > h - SliceCount /\ es[i].slice % SliceCount \notin Passed(h, g, SliceCount)
  BY <1>1, SlicePeriod, PassedOver
<1> QED BY <1>2, Zenon DEF At

LEMMA AtFinite ==
  ASSUME NEW m, NEW es, EventsOK(es, m), NEW k, NEW v, NEW p
  PROVE  IsFiniteSet(At(es, k, v, p)) /\ Cardinality(At(es, k, v, p)) \in Nat
<1>1. DOMAIN es = 1..Len(es) /\ Len(es) \in Nat
  BY DEF EventsOK
<1>2. IsFiniteSet(DOMAIN es)
  <2>1. 1 \in Int /\ Len(es) \in Int
    BY <1>1
  <2> QED BY <1>1, <2>1, FS_Interval, Zenon
<1>3. IsFiniteSet(At(es, k, v, p))
  <2>1. At(es, k, v, p) \subseteq DOMAIN es
    BY DEF At
  <2> QED BY <1>2, <2>1, FS_Subset, Zenon
<1> QED BY <1>3, FS_CardinalityType, Zenon

\* currentBucket leaves every slice counting the outcomes in its place.
LEMMA TellsAfter ==
  ASSUME NEW b, NEW h, NEW w, SlicesTyped(SliceCount, w, b, h), NEW g \in Nat,
         NEW es, EventsOK(es, h), Tells(b, es, h)
  PROVE  EventsOK(es, HeadAfter(h, g)) /\ Tells(SlicesAfter(b, h, g, SliceCount), es, HeadAfter(h, g))
<1>1. CASE g <= h
  <2>1. SlicesAfter(b, h, g, SliceCount) = b /\ HeadAfter(h, g) = h
    BY <1>1, Zenon DEF SlicesAfter, HeadAfter
  <2> QED BY <2>1, Zenon
<1>2. CASE ~(g <= h)
  <2> DEFINE P == Passed(h, g, SliceCount)
             c == Clear(b, P)
  <2>1. SlicesAfter(b, h, g, SliceCount) = c /\ HeadAfter(h, g) = g
    BY <1>2, Zenon DEF SlicesAfter, HeadAfter
  <2>2. h \in Nat /\ DOMAIN b = 0..(SliceCount - 1)
    BY Zenon DEF SlicesTyped
  <2>3. EventsOK(es, g)
    <3>1. \A i \in DOMAIN es : es[i].slice \in Nat /\ es[i].slice <= h
      BY <2>2, EventSlices, Zenon
    <3>2. \A i \in DOMAIN es : es[i].slice <= g
      BY <1>2, <2>2, <3>1
    <3> QED BY <3>2, Zenon DEF EventsOK
  <2>4. ASSUME NEW p \in 0..(SliceCount - 1)
        PROVE  c[p] = Timed!stat(Cardinality(At(es, g, TRUE, p)), Cardinality(At(es, g, FALSE, p)))
    <3>1. \A v \in BOOLEAN : At(es, g, v, p) = IF p \in P THEN {} ELSE At(es, h, v, p)
      BY <1>2, <2>2, AtExpires
    <3>2. b[p] = Timed!stat(Cardinality(At(es, h, TRUE, p)), Cardinality(At(es, h, FALSE, p)))
      BY Zenon DEF Tells
    <3>3. c[p] = IF p \in P THEN Timed!stat(0, 0) ELSE b[p]
      BY <2>2, Zenon DEF Clear
    <3>4. Cardinality({}) = 0
      BY FS_EmptySet, Zenon
    <3> HIDE DEF c, P
    <3> QED BY <3>1, <3>2, <3>3, <3>4, ZenonT(30)
  <2>5. Tells(c, es, g)
    BY <2>4, Zenon DEF Tells
  <2> QED BY <2>1, <2>3, <2>5, Zenon
<1> QED BY <1>1, <1>2

\* An outcome that counts for slice m is one more in the place of m.
LEMMA TellsAdded ==
  ASSUME NEW m \in Nat, NEW c \in [0..(SliceCount - 1) -> StatPair], NEW es, EventsOK(es, m),
         Tells(c, es, m), NEW success \in BOOLEAN
  PROVE  LET fs == Append(es, [ok |-> success, slice |-> m])
         IN EventsOK(fs, m) /\ Tells(Added(c, m % SliceCount, success), fs, m)
<1> DEFINE ev == [ok |-> success, slice |-> m]
           fs == Append(es, ev)
           n == SliceCount
           q == m % n
           k == Len(es) + 1
           d == Added(c, q, success)
           S == [ok : BOOLEAN, slice : Nat]
<1>0. n \in Nat \ {0}
  BY SlicePeriod
<1>1. /\ es \in Seq(S) /\ ev \in S /\ ev.ok = success /\ ev.slice = m
      /\ \A i \in DOMAIN es : es[i].slice <= m
  BY DEF EventsOK
<1> HIDE DEF S, ev
<1>2. /\ fs \in Seq(S) /\ DOMAIN es = 1..Len(es) /\ Len(es) \in Nat
      /\ DOMAIN fs = 1..k /\ k \in Nat /\ fs[k] = ev /\ \A i \in DOMAIN es : fs[i] = es[i]
  BY <1>1
<1> HIDE DEF fs, k
<1>3. DOMAIN fs = DOMAIN es \cup {k} /\ k \notin DOMAIN es
  BY <1>2 DEF k
<1>4. EventsOK(fs, m)
  <2>1. m <= m
    OBVIOUS
  <2>2. \A i \in DOMAIN fs : fs[i].slice <= m
    BY <1>1, <1>2, <1>3, <2>1, Zenon
  <2> QED BY <1>2, <2>2, Zenon DEF EventsOK, S
<1>5. q \in 0..(n - 1)
  <2>1. m \in Int
    OBVIOUS
  <2> QED BY <1>0, <2>1, Remainder, Zenon
<1>6. m > m - n
  BY <1>0
<1>7. ASSUME NEW v \in BOOLEAN, NEW p
      PROVE  /\ At(fs, m, v, p) = IF success = v /\ q = p THEN At(es, m, v, p) \cup {k} ELSE At(es, m, v, p)
             /\ k \notin At(es, m, v, p)
  <2>1. \A i \in DOMAIN es : i \in At(fs, m, v, p) <=> i \in At(es, m, v, p)
    BY <1>2, <1>3, Zenon DEF At
  <2>2. k \in At(fs, m, v, p) <=> success = v /\ q = p
    BY <1>1, <1>2, <1>3, <1>6, Zenon DEF At
  <2>3. At(fs, m, v, p) \subseteq DOMAIN fs /\ At(es, m, v, p) \subseteq DOMAIN es
    BY Zenon DEF At
  <2> HIDE DEF q
  <2>4. k \notin At(es, m, v, p)
    BY <1>3, <2>3, Zenon
  <2>5. CASE success = v /\ q = p
    <3>1. \A i : i \in At(fs, m, v, p) <=> i \in At(es, m, v, p) \cup {k}
      BY <1>3, <2>1, <2>2, <2>3, <2>5, Zenon
    <3>2. At(fs, m, v, p) = At(es, m, v, p) \cup {k}
      BY <3>1, Zenon
    <3> QED BY <2>4, <2>5, <3>2, Zenon
  <2>6. CASE ~(success = v /\ q = p)
    <3>1. \A i : i \in At(fs, m, v, p) <=> i \in At(es, m, v, p)
      BY <1>3, <2>1, <2>2, <2>3, <2>6, Zenon
    <3>2. At(fs, m, v, p) = At(es, m, v, p)
      BY <3>1, Zenon
    <3> QED BY <2>4, <2>6, <3>2, Zenon
  <2> QED BY <2>5, <2>6, Zenon
<1>8. ASSUME NEW p \in 0..(n - 1), NEW v \in BOOLEAN
      PROVE  Cardinality(At(fs, m, v, p)) = Cardinality(At(es, m, v, p)) + (IF p = q /\ success = v THEN 1 ELSE 0)
  <2> DEFINE X == At(es, m, v, p)
  <2>1. IsFiniteSet(X) /\ Cardinality(X) \in Nat
    BY AtFinite, Zenon
  <2>2. /\ At(fs, m, v, p) = IF success = v /\ q = p THEN X \cup {k} ELSE X
        /\ k \notin X
    BY <1>7, Zenon
  <2> HIDE DEF X
  <2>3. Cardinality(X \cup {k}) = Cardinality(X) + 1
    BY <2>1, <2>2, FS_AddElement, Zenon
  <2> QED BY <2>1, <2>2, <2>3 DEF X
<1>9. ASSUME NEW p \in 0..(n - 1)
      PROVE  d[p] = Timed!stat(Cardinality(At(fs, m, TRUE, p)), Cardinality(At(fs, m, FALSE, p)))
  <2>1. /\ d \in [0..(n - 1) -> StatPair]
        /\ d[p].successes = c[p].successes + (IF p = q /\ success THEN 1 ELSE 0)
        /\ d[p].failures = c[p].failures + (IF p = q /\ ~success THEN 1 ELSE 0)
    <3> HIDE DEF q, n
    <3> QED BY <1>0, <1>5, Adding DEF n
  <2>2. c[p] = Timed!stat(Cardinality(At(es, m, TRUE, p)), Cardinality(At(es, m, FALSE, p)))
    BY Zenon DEF Tells
  <2>3. /\ c[p].successes = Cardinality(At(es, m, TRUE, p))
        /\ c[p].failures = Cardinality(At(es, m, FALSE, p))
    <3> DEFINE x == Cardinality(At(es, m, TRUE, p))
               y == Cardinality(At(es, m, FALSE, p))
    <3> HIDE DEF x, y
    <3>1. c[p] = [successes |-> x, failures |-> y]
      BY <2>2, Zenon DEF Timed!stat, x, y
    <3>2. c[p].successes = x /\ c[p].failures = y
      BY <3>1
    <3> QED BY <3>2 DEF x, y
  <2>4. /\ Cardinality(At(fs, m, TRUE, p)) = d[p].successes
        /\ Cardinality(At(fs, m, FALSE, p)) = d[p].failures
    <3> HIDE DEF d, n, q
    <3>1. (success = TRUE <=> success) /\ (success = FALSE <=> ~success)
      OBVIOUS
    <3> QED BY <1>8, <2>1, <2>3, <3>1, Zenon
  <2>5. d[p] = Timed!stat(d[p].successes, d[p].failures)
    <3>1. d[p] \in StatPair
      BY <2>1, Zenon
    <3> HIDE DEF d
    <3> QED BY <3>1 DEF StatPair, Timed!stat
  <2> QED BY <2>4, <2>5, Zenon
<1>10. Tells(d, fs, m)
  BY <1>9, Zenon DEF Tells
<1> QED BY <1>4, <1>10, Zenon DEF fs, ev

LEMMA MaxPair ==
  ASSUME NEW x \in Int, NEW y \in Int
  PROVE  Max({x, y}) = IF y <= x THEN x ELSE y
<1> DEFINE m == IF y <= x THEN x ELSE y
<1>1. m \in {x, y} /\ \A z \in {x, y} : m >= z
  OBVIOUS
<1>2. \A k \in {x, y} : (\A z \in {x, y} : k >= z) => k = m
  OBVIOUS
<1> HIDE DEF m
<1>3. Max({x, y}) = m
  BY <1>1, <1>2 DEF Max
<1> QED BY <1>3 DEF m

(***************************************************************************)
(* The inductive invariant behind SummaryIsWindow: every slice counts the  *)
(* outcomes in its place, and the summary adds up the slices.              *)
(***************************************************************************)
SlicesInv ==
  /\ SlicesOK(slices, SliceCount, Period \div SliceCount)
  /\ clock \in Nat /\ seen = slices.head
  /\ EventsOK(events, seen) /\ Tells(slices.buckets, events, seen)

\* The same of the parts of the statistics.
LEMMA SummedFields ==
  ASSUME NEW n, NEW w, NEW b, NEW h
  PROVE  Summed(n, w, b, h).buckets = b /\ Summed(n, w, b, h).head = h
BY SlicesFields DEF Summed

\* Empty statistics have seen nothing.
LEMMA SlicesEmpty ==
  EventsOK(<<>>, 0) /\ Tells(NoSlices(SliceCount), <<>>, 0)
<1>1. EventsOK(<<>>, 0)
  BY DEF EventsOK
<1>2. \A v, p : At(<<>>, 0, v, p) = {}
  BY DEF At
<1>3. Cardinality({}) = 0
  BY FS_EmptySet, Zenon
<1>4. Tells(NoSlices(SliceCount), <<>>, 0)
  BY <1>2, <1>3, Zenon DEF Tells, NoSlices
<1> QED BY <1>1, <1>4

LEMMA SlicesStart == SlicesInit => SlicesInv
<1> DEFINE n == SliceCount
           w == Period \div SliceCount
<1>1. n \in Nat \ {0} /\ w \in Nat \ {0}
  BY SlicePeriod
<1> SUFFICES ASSUME SlicesInit PROVE SlicesInv
  OBVIOUS
<1>2. slices = Summed(n, w, NoSlices(n), 0)
  BY <1>1, NewSlices, Zenon DEF SlicesInit
<1>3. SlicesTyped(n, w, NoSlices(n), 0)
  BY <1>1, NoSlicesIs, Zenon
<1>4. /\ SlicesOK(slices, n, w) /\ slices.head = 0
      /\ EventsOK(<<>>, 0) /\ Tells(slices.buckets, <<>>, 0)
  <2>1. slices.buckets = NoSlices(n) /\ slices.head = 0
    BY <1>2, SummedFields, SMTT(20)
  <2> QED BY <1>2, <1>3, <2>1, SlicesEmpty, Zenon DEF SlicesOK
<1>5. clock \in Nat
  BY TimedAssumption DEF SlicesInit
<1> QED BY <1>4, <1>5, Zenon DEF SlicesInit, SlicesInv

LEMMA SlicesStep == SlicesInv /\ [SlicesNext]_sliceVars => SlicesInv'
<1> SUFFICES ASSUME SlicesInv, [SlicesNext]_sliceVars PROVE SlicesInv'
  OBVIOUS
<1> DEFINE n == SliceCount
           w == Period \div SliceCount
           b == slices.buckets
           h == slices.head
<1>1. n \in Nat \ {0} /\ w \in Nat \ {0}
  BY SlicePeriod
<1>2. slices = Summed(n, w, b, h) /\ SlicesTyped(n, w, b, h) /\ seen = h /\ clock \in Nat
  BY Zenon DEF SlicesInv, SlicesOK
<1>3. SUFFICES /\ SlicesOK(slices', n, w) /\ clock' \in Nat /\ seen' = slices'.head
               /\ EventsOK(events', seen') /\ Tells(slices'.buckets, events', seen')
  BY Zenon DEF SlicesInv, SlicesOK, EventsOK, Tells, At, SlicesTyped, Summed, SlicesOf, SumOf
<1>4. ASSUME NEW success \in BOOLEAN, Record(success)
      PROVE  /\ SlicesOK(slices', n, w) /\ clock' \in Nat /\ seen' = slices'.head
             /\ EventsOK(events', seen') /\ Tells(slices'.buckets, events', seen')
  <2> DEFINE g == HeadAfter(h, clock \div w)
             c == SlicesAfter(b, h, clock \div w, n)
             d == Added(c, g % n, success)
             fs == Append(events, [ok |-> success, slice |-> g])
  <2>1. clock \div w \in Nat
    BY <1>1, <1>2, DivisionNat, Zenon
  <2>2. slices' = Timed!record(slices, success, clock)
    BY <1>4, ZenonT(30) DEF Record
  <2>3. SlicesTyped(n, w, d, g) /\ slices' = Summed(n, w, d, g)
    BY <1>2, <2>2, RecordIs, SMTT(20)
  <2>4. SlicesTyped(n, w, c, g)
    BY <1>2, CurrentIs, ZenonT(30)
  <2>5. EventsOK(events, g) /\ Tells(c, events, g)
    BY <1>2, <2>1, TellsAfter, ZenonT(30) DEF SlicesInv
  <2>6. g \in Nat /\ c \in [0..(n - 1) -> StatPair]
    BY <2>4, Zenon DEF SlicesTyped
  <2>7. EventsOK(fs, g) /\ Tells(d, fs, g)
    BY <2>5, <2>6, TellsAdded, ZenonT(30)
  <2>8. seen' = g
    <3>1. h \in Int /\ clock \div w \in Int
      BY <1>2, <2>1 DEF SlicesTyped
    <3>2. Max({h, clock \div w}) = g
      BY <3>1, MaxPair, Zenon DEF HeadAfter
    <3> QED BY <1>2, <1>4, <3>2, ZenonT(30) DEF Record
  <2>9. events' = fs /\ clock' = clock
    BY <1>4, <2>8, Zenon DEF Record
  <2> HIDE DEF d, g, c, fs
  <2>10. /\ SlicesOK(slices', n, w) /\ slices'.head = g
         /\ EventsOK(fs, g) /\ Tells(slices'.buckets, fs, g)
    <3>1. slices'.buckets = d /\ slices'.head = g
      BY <2>3, SummedFields, SMTT(20)
    <3> QED BY <2>3, <2>7, <3>1, Zenon DEF SlicesOK
  <2> QED BY <1>2, <2>8, <2>9, <2>10, Zenon
<1>5. CASE SlicesReset
  <2>1. slices' = Summed(n, w, NoSlices(n), 0)
    BY <1>2, <1>5, ResetSlices, Zenon DEF SlicesReset
  <2>2. SlicesTyped(n, w, NoSlices(n), 0)
    BY <1>1, NoSlicesIs, Zenon
  <2>3. /\ SlicesOK(slices', n, w) /\ slices'.head = 0
        /\ EventsOK(<<>>, 0) /\ Tells(slices'.buckets, <<>>, 0)
    <3>1. slices'.buckets = NoSlices(n) /\ slices'.head = 0
      BY <2>1, SummedFields, SMTT(20)
    <3> QED BY <2>1, <2>2, <3>1, SlicesEmpty, Zenon DEF SlicesOK
  <2> QED BY <1>2, <1>5, <2>3, Zenon DEF SlicesReset
<1>6. CASE ClockMoves
  <2>1. clock' \in Nat
    BY <1>6, TimedAssumption DEF ClockMoves
  <2> QED BY <1>6, <2>1, Zenon DEF ClockMoves, SlicesInv
<1>7. CASE UNCHANGED sliceVars
  BY <1>7, Zenon DEF sliceVars, SlicesInv
<1> QED BY <1>4, <1>5, <1>6, <1>7, Zenon DEF SlicesNext

\* Adding up the slices counts the outcomes of the window.
LEMMA WindowCounted == SlicesInv => SummaryIsWindow
<1> SUFFICES ASSUME SlicesInv PROVE SummaryIsWindow
  OBVIOUS
<1> DEFINE n == SliceCount
           all == 0..(n - 1)
           b == slices.buckets
           at == [i \in DOMAIN events |-> events[i].slice % n]
<1>1. n \in Nat \ {0} /\ IsFiniteSet(all)
  BY SlicePeriod, Places, Zenon
<1>2. EventsOK(events, seen) /\ Tells(b, events, seen) /\ b \in [all -> StatPair]
  BY Zenon DEF SlicesInv, SlicesOK, SlicesTyped
<1>3. slices.summary = SumOf(b, all)
  <2>1. slices = SlicesOf(n, Period \div SliceCount, b, SumOf(b, all), slices.head)
    BY Zenon DEF SlicesInv, SlicesOK, Summed
  <2> QED BY <2>1, SlicesFields
<1>4. \A i \in DOMAIN events : events[i].slice \in Nat
  BY <1>2, EventSlices, Zenon
<1>5. \A i \in DOMAIN events : at[i] = events[i].slice % n /\ at[i] \in all
  <2> SUFFICES ASSUME NEW i \in DOMAIN events PROVE events[i].slice % n \in all
    BY Zenon
  <2>1. events[i].slice \in Int
    BY <1>4
  <2> QED BY <1>1, <2>1, Remainder, Zenon
<1> HIDE DEF at
<1>6. ASSUME NEW v \in BOOLEAN
      PROVE  /\ IsFiniteSet(Counted(v)) /\ {i \in Counted(v) : at[i] \in all} = Counted(v)
             /\ \A p \in all : {i \in Counted(v) : at[i] = p} = At(events, seen, v, p)
  <2>1. Counted(v) \subseteq DOMAIN events
    BY Zenon DEF Counted
  <2>2. IsFiniteSet(Counted(v))
    <3>1. DOMAIN events = 1..Len(events) /\ 1 \in Int /\ Len(events) \in Int
      BY <1>2 DEF EventsOK
    <3>2. IsFiniteSet(DOMAIN events)
      BY <3>1, FS_Interval, Zenon
    <3> QED BY <2>1, <3>2, FS_Subset, ZenonT(30)
  <2>3. {i \in Counted(v) : at[i] \in all} = Counted(v)
    BY <1>5, <2>1, Zenon
  <2>4. \A p \in all : {i \in Counted(v) : at[i] = p} = At(events, seen, v, p)
    BY <1>5, ZenonT(30) DEF Counted, At
  <2> QED BY <2>2, <2>3, <2>4, Zenon
<1>7. \A p \in all : /\ Successes(b)[p] = Cardinality(At(events, seen, TRUE, p))
                     /\ Failures(b)[p] = Cardinality(At(events, seen, FALSE, p))
  <2> SUFFICES ASSUME NEW p \in all
               PROVE  /\ Successes(b)[p] = Cardinality(At(events, seen, TRUE, p))
                      /\ Failures(b)[p] = Cardinality(At(events, seen, FALSE, p))
    BY Zenon
  <2> DEFINE x == Cardinality(At(events, seen, TRUE, p))
             y == Cardinality(At(events, seen, FALSE, p))
  <2>1. b[p] = Timed!stat(x, y)
    BY <1>2, Zenon DEF Tells
  <2>2. Successes(b)[p] = b[p].successes /\ Failures(b)[p] = b[p].failures
    BY <1>1, <1>2, SumOfType, ZenonT(30)
  <2> HIDE DEF x, y
  <2>3. b[p].successes = x /\ b[p].failures = y
    BY <2>1 DEF Timed!stat
  <2> QED BY <2>2, <2>3 DEF x, y
<1> HIDE DEF b, all
<1>8. SumFunctionOnSet(Successes(b), all) = Cardinality(Counted(TRUE))
  <2>1. CountsPlaces(Successes(b), Counted(TRUE), at, all)
    BY <1>6, <1>7, Zenon DEF CountsPlaces
  <2>2. SumFunctionOnSet(Successes(b), all) = Cardinality(PlacedIn(Counted(TRUE), at, all))
    BY <1>1, <1>6, <2>1, SumOfPlaces, Zenon
  <2> QED BY <1>6, <2>2, Zenon DEF PlacedIn
<1>9. SumFunctionOnSet(Failures(b), all) = Cardinality(Counted(FALSE))
  <2>1. CountsPlaces(Failures(b), Counted(FALSE), at, all)
    BY <1>6, <1>7, Zenon DEF CountsPlaces
  <2>2. SumFunctionOnSet(Failures(b), all) = Cardinality(PlacedIn(Counted(FALSE), at, all))
    BY <1>1, <1>6, <2>1, SumOfPlaces, Zenon
  <2> QED BY <1>6, <2>2, Zenon DEF PlacedIn
<1> QED BY <1>3, <1>8, <1>9, Zenon DEF SumOf, SummaryIsWindow

(***************************************************************************)
(* For any number of slices, any period and any clock: whatever the        *)
(* pattern of outcomes, idle gaps, clock steps backwards and resets, the   *)
(* summary counts exactly the outcomes of the last SliceCount slices.      *)
(***************************************************************************)
THEOREM Windows == SlicesSpec => []SummaryIsWindow
BY SlicesStart, SlicesStep, WindowCounted, PTL DEF SlicesSpec
-----------------------------------------------------------------------------
\* Every outcome a ring holds is a success or a failure.
LEMMA RingAddsUp ==
  ASSUME NEW n \in Nat \ {0}, NEW c, RingOK(c, n)
  PROVE  c.successes + c.failures = c.occupiedBits
<1> DEFINE k == c.occupiedBits
           A == Held(c, TRUE)
           B == Held(c, FALSE)
<1>1. RingTyped(c, n) /\ k \in 0..n /\ c.bits \in [0..(n - 1) -> BOOLEAN]
  BY DEF RingOK, RingTyped
<1>2. IsFiniteSet(A) /\ IsFiniteSet(B)
  BY <1>1, HoldingFinite, Zenon
<1>3. A \cap B = {}
  BY DEF Held
<1>4. A \cup B = 0..(k - 1)
  <2>1. \A i \in 0..(k - 1) : c.bits[i] \in BOOLEAN
    BY <1>1
  <2> QED BY <2>1 DEF Held
<1>5. Cardinality(0..(k - 1)) = k
  <2>1. k \in Nat /\ k - 1 \in Int /\ (0 > k - 1 <=> k = 0) /\ (k - 1) - 0 + 1 = k
    BY <1>1
  <2> HIDE DEF k
  <2>2. Cardinality(0..(k - 1)) = IF 0 > k - 1 THEN 0 ELSE (k - 1) - 0 + 1
    BY <2>1, FS_Interval
  <2> QED BY <2>1, <2>2
<1>6. Cardinality(A) + Cardinality(B) = k
  <2> HIDE DEF A, B, k
  <2>1. Cardinality(A \cup B) = Cardinality(A) + Cardinality(B) - Cardinality(A \cap B)
    BY <1>2, FS_Union
  <2>2. Cardinality(A \cap B) = 0
    BY <1>3, FS_EmptySet
  <2>3. Cardinality(A) \in Nat /\ Cardinality(B) \in Nat
    BY <1>2, FS_CardinalityType
  <2>4. Cardinality(A) + Cardinality(B) - 0 = Cardinality(A) + Cardinality(B)
    BY <2>3
  <2> QED BY <1>4, <1>5, <2>1, <2>2, <2>4, Zenon
<1> QED BY <1>6, Zenon DEF RingOK, RingTotals

\* Division rounds down by less than one.
LEMMA RoundsDown ==
  ASSUME NEW x \in Nat, NEW m \in Nat \ {0}
  PROVE  x \div m \in Int /\ x < m * (x \div m) + m
OBVIOUS

\* Rounding loses at most half a percent on either side: the two rates of a
\* window that is not empty never fall short of 100.
LEMMA RatesCover ==
  ASSUME NEW a \in Nat, NEW b \in Nat, NEW n \in Nat \ {0}, a + b = n
  PROVE  /\ Counting!Percentage(a, n) \in Int /\ Counting!Percentage(b, n) \in Int
         /\ Counting!Percentage(a, n) + Counting!Percentage(b, n) >= 100
<1> DEFINE m == 2 * n
           x == 200 * a + n
           y == 200 * b + n
           p == x \div m
           q == y \div m
<1>1. Counting!Percentage(a, n) = p /\ Counting!Percentage(b, n) = q
  BY DEF Counting!Percentage
<1>2. m \in Nat \ {0} /\ m > 0 /\ x \in Nat /\ y \in Nat /\ x + y = m * 101
  OBVIOUS
<1> HIDE DEF m, x, y
<1>3. p \in Int /\ x < m * p + m
  BY <1>2, RoundsDown, Zenon
<1>4. q \in Int /\ y < m * q + m
  BY <1>2, RoundsDown, Zenon
<1> HIDE DEF p, q
<1>5. m * 101 < m * (p + q + 2)
  BY <1>2, <1>3, <1>4
<1>6. ~(p + q + 2 <= 101)
  <2> SUFFICES ASSUME p + q + 2 <= 101 PROVE FALSE
    OBVIOUS
  <2> DEFINE r == p + q + 2
  <2>1. r \in Int /\ r <= 101
    BY <1>3, <1>4
  <2> HIDE DEF r
  <2>2. m * r <= m * 101
    BY <1>2, <2>1
  <2> QED BY <1>2, <1>5, <2>1, <2>2 DEF r
<1> QED BY <1>1, <1>3, <1>4, <1>6

\* What the stats interface shows of a ring.
LEMMA RingShows ==
  ASSUME NEW n \in Nat \ {0}, NEW s, RingOK(s, n)
  PROVE  /\ ~IsTimed(s)
         /\ executionCount(s) = s.occupiedBits /\ executionCount(s) \in 0..n
         /\ successCount(s) = s.successes /\ failureCount(s) = s.failures
         /\ successCount(s) \in Nat /\ failureCount(s) \in Nat
         /\ successCount(s) + failureCount(s) = executionCount(s)
         /\ successRate(s) = Counting!Percentage(s.successes, s.occupiedBits)
         /\ failureRate(s) = Counting!Percentage(s.failures, s.occupiedBits)
<1>1. s.kind = "counting" /\ s.occupiedBits \in 0..n /\ s.successes \in Nat /\ s.failures \in Nat
  BY DEF RingOK, RingTyped
<1>2. ~IsTimed(s)
  BY <1>1 DEF IsTimed
<1>3. s.successes + s.failures = s.occupiedBits
  BY RingAddsUp
<1> QED BY <1>1, <1>2, <1>3 DEF executionCount, successCount, failureCount, successRate, failureRate,
       Counting!executionCount, Counting!successCount, Counting!failureCount,
       Counting!successRate, Counting!failureRate

\* What the stats interface shows of slices.
LEMMA SlicesShow ==
  ASSUME NEW n, NEW w, NEW b, NEW h, SlicesTyped(n, w, b, h), NEW s, s = Summed(n, w, b, h)
  PROVE  /\ IsTimed(s)
         /\ successCount(s) = SumFunctionOnSet(Successes(b), 0..(n - 1)) /\ successCount(s) \in Nat
         /\ failureCount(s) = SumFunctionOnSet(Failures(b), 0..(n - 1)) /\ failureCount(s) \in Nat
         /\ executionCount(s) = successCount(s) + failureCount(s)
<1> DEFINE all == 0..(n - 1)
           x == SumFunctionOnSet(Successes(b), all)
           y == SumFunctionOnSet(Failures(b), all)
<1>1. n \in Nat \ {0} /\ b \in [all -> StatPair] /\ all \in SUBSET all
  BY DEF SlicesTyped
<1>2. x \in Nat /\ y \in Nat
  BY <1>1, SumOfType
<1>3. s.kind = "timed" /\ s.summary = SumOf(b, all)
  BY SlicesFields DEF Summed
<1>4. s.summary = [successes |-> x, failures |-> y]
  BY <1>3, ZenonT(30) DEF SumOf, Timed!stat
<1> HIDE DEF x, y, all
<1>5. s.summary.successes = x /\ s.summary.failures = y
  BY <1>4
<1> QED BY <1>2, <1>3, <1>5 DEF IsTimed, successCount, failureCount, executionCount,
       Timed!successCount, Timed!failureCount, Timed!executionCount, x, y, all

\* New and reset statistics count nothing.
Empty(s) == successCount(s) = 0 /\ failureCount(s) = 0

LEMMA EmptyRingCounts ==
  ASSUME NEW n \in Nat \ {0}
  PROVE  RingOK(Counting!newCountingStats(n), n) /\ Empty(Counting!newCountingStats(n))
<1> DEFINE s == Counting!newCountingStats(n)
<1>1. RingOK(s, n)
  BY EmptyRing
<1>2. s.successes = 0 /\ s.failures = 0
  BY DEF Counting!newCountingStats
<1> HIDE DEF s
<1> QED BY <1>1, <1>2, RingShows, SMTT(20) DEF Empty, s

LEMMA EmptySlicesCount ==
  ASSUME NEW n \in Nat \ {0}, NEW w \in Nat \ {0}
  PROVE  SlicesOK(Summed(n, w, NoSlices(n), 0), n, w) /\ Empty(Summed(n, w, NoSlices(n), 0))
<1> DEFINE b == NoSlices(n)
           s == Summed(n, w, b, 0)
<1>1. SlicesTyped(n, w, b, 0) /\ SumOf(b, 0..(n - 1)) = Timed!stat(0, 0)
  BY NoSlicesIs
<1>2. s.kind = "timed" /\ s.buckets = b /\ s.head = 0 /\ s.summary = Timed!stat(0, 0)
  BY <1>1, SlicesFields DEF Summed
<1>3. SlicesOK(s, n, w)
  BY <1>1, <1>2, ZenonT(30) DEF SlicesOK
<1> HIDE DEF s
<1>4. Empty(s)
  BY <1>2 DEF Empty, successCount, failureCount, IsTimed, Timed!successCount, Timed!failureCount, Timed!stat
<1> QED BY <1>3, <1>4 DEF s

\* An outcome recorded in r is at most one more than s counts.
AtMostOneMore(s, r, success) ==
  /\ successCount(r) \in Nat /\ successCount(r) <= successCount(s) + (IF success THEN 1 ELSE 0)
  /\ failureCount(r) \in Nat /\ failureCount(r) <= failureCount(s) + (IF success THEN 0 ELSE 1)

OneMore(s, r, success) ==
  /\ successCount(r) = successCount(s) + (IF success THEN 1 ELSE 0)
  /\ failureCount(r) = failureCount(s) + (IF success THEN 0 ELSE 1)

LEMMA RingRecords ==
  ASSUME NEW n \in Nat \ {0}, NEW s, RingOK(s, n), NEW success \in BOOLEAN,
         NEW r, r = Counting!setNext(s, success)
  PROVE  /\ RingOK(r, n) /\ AtMostOneMore(s, r, success)
         /\ successCount(r) <= n /\ failureCount(r) <= n
         /\ executionCount(s) < n => OneMore(s, r, success)
<1> DEFINE full == s.occupiedBits = n
           old == s.bits[s.head]
<1>1. RingOK(r, n)
  BY SetNextKeeps
<1>2. /\ executionCount(s) = s.occupiedBits /\ executionCount(s) \in 0..n
      /\ successCount(s) = s.successes /\ failureCount(s) = s.failures
      /\ successCount(s) \in Nat /\ failureCount(s) \in Nat
  BY RingShows
<1>3. /\ executionCount(r) \in 0..n
      /\ successCount(r) = r.successes /\ failureCount(r) = r.failures
      /\ successCount(r) \in Nat /\ failureCount(r) \in Nat
      /\ successCount(r) + failureCount(r) = executionCount(r)
  BY <1>1, RingShows
<1>4. RingTyped(s, n)
  BY DEF RingOK
<1>5. /\ r.successes = s.successes + Counting!Unit(success) - Counting!Unit(full /\ old)
      /\ r.failures = s.failures + Counting!Unit(~success) - Counting!Unit(full /\ ~old)
  <2>1. /\ r.kind = "counting" /\ r.size = n
        /\ r.occupiedBits = IF full THEN n ELSE s.occupiedBits + 1
        /\ r.head = IF s.head + 1 = n THEN 0 ELSE s.head + 1
        /\ r.bits = [s.bits EXCEPT ![s.head] = success]
        /\ r.successes = s.successes + Counting!Unit(success) - Counting!Unit(full /\ old)
        /\ r.failures = s.failures + Counting!Unit(~success) - Counting!Unit(full /\ ~old)
    BY <1>4, SetNextFields
  <2> QED BY <2>1, ZenonT(30)
<1> HIDE DEF full, old
<1>6. AtMostOneMore(s, r, success)
  BY <1>2, <1>3, <1>5, SMTT(20) DEF AtMostOneMore, Counting!Unit
<1>7. successCount(r) <= n /\ failureCount(r) <= n
  BY <1>3
<1>8. ASSUME executionCount(s) < n PROVE OneMore(s, r, success)
  <2>1. ~full
    BY <1>2, <1>8 DEF full
  <2> QED BY <1>2, <1>3, <1>5, <2>1, SMTT(20) DEF OneMore, Counting!Unit
<1> QED BY <1>1, <1>6, <1>7, <1>8, SMTT(20)

\* Slices that leave the window only take outcomes out of the sum.
LEMMA AfterSmaller ==
  ASSUME NEW n, NEW w, NEW b, NEW h, SlicesTyped(n, w, b, h), NEW g \in Nat,
         NEW c, c = SlicesAfter(b, h, g, n), c \in [0..(n - 1) -> StatPair]
  PROVE  /\ SumFunctionOnSet(Successes(c), 0..(n - 1)) <= SumFunctionOnSet(Successes(b), 0..(n - 1))
         /\ SumFunctionOnSet(Failures(c), 0..(n - 1)) <= SumFunctionOnSet(Failures(b), 0..(n - 1))
<1> DEFINE all == 0..(n - 1)
<1>1. n \in Nat \ {0} /\ b \in [all -> StatPair] /\ c \in [all -> StatPair] /\ all \in SUBSET all
  BY DEF SlicesTyped
<1>2. /\ \A i \in all : Successes(b)[i] = b[i].successes /\ Successes(b)[i] \in Nat
      /\ \A i \in all : Failures(b)[i] = b[i].failures /\ Failures(b)[i] \in Nat
      /\ IsFiniteSet(all)
  BY <1>1, SumOfType, Zenon
<1>3. /\ \A i \in all : Successes(c)[i] = c[i].successes /\ Successes(c)[i] \in Nat
      /\ \A i \in all : Failures(c)[i] = c[i].failures /\ Failures(c)[i] \in Nat
  BY <1>1, SumOfType, Zenon
<1>4. \A i \in all : c[i] = b[i] \/ c[i] = Timed!stat(0, 0)
  BY <1>1, Zenon DEF SlicesAfter, Clear
<1>5. \A i \in all : c[i] = b[i] \/ (c[i].successes = 0 /\ c[i].failures = 0)
  BY <1>4 DEF Timed!stat
<1> HIDE DEF all
<1>6. /\ \A i \in all : Successes(c)[i] \in Int /\ Successes(b)[i] \in Int /\ Successes(c)[i] <= Successes(b)[i]
      /\ \A i \in all : Failures(c)[i] \in Int /\ Failures(b)[i] \in Int /\ Failures(c)[i] <= Failures(b)[i]
  BY <1>2, <1>3, <1>5
<1>7. SumFunctionOnSet(Successes(c), all) <= SumFunctionOnSet(Successes(b), all)
  BY <1>2, <1>6, SumMonotone, Zenon
<1>8. SumFunctionOnSet(Failures(c), all) <= SumFunctionOnSet(Failures(b), all)
  BY <1>2, <1>6, SumMonotone, Zenon
<1> QED BY <1>7, <1>8 DEF all

LEMMA SlicesRecord ==
  ASSUME NEW n, NEW w, NEW s, SlicesOK(s, n, w), NEW t \in Nat, NEW success \in BOOLEAN,
         NEW r, r = Timed!record(s, success, t)
  PROVE  SlicesOK(r, n, w) /\ AtMostOneMore(s, r, success)
<1> DEFINE b == s.buckets
           h == s.head
           k == t \div w
           g == HeadAfter(h, k)
           c == SlicesAfter(b, h, k, n)
           d == Added(c, g % n, success)
           all == 0..(n - 1)
           ok == IF success THEN 1 ELSE 0
<1>1. s = Summed(n, w, b, h) /\ SlicesTyped(n, w, b, h)
  BY Zenon DEF SlicesOK
<1>2. n \in Nat \ {0} /\ w \in Nat \ {0} /\ h \in Nat
  BY <1>1, Zenon DEF SlicesTyped
<1>3. k \in Nat
  BY <1>2, DivisionNat, ZenonT(30)
<1>4. SlicesTyped(n, w, d, g) /\ g % n \in all /\ r = Summed(n, w, d, g)
  BY <1>1, RecordIs, SMTT(20)
<1>5. SlicesTyped(n, w, c, g)
  BY <1>1, CurrentIs, ZenonT(30)
<1>6. c \in [all -> StatPair]
  BY <1>5, ZenonT(30) DEF SlicesTyped
<1>7. SumOf(d, all) = Timed!Plus(SumOf(c, all), ok, 1 - ok)
  <2> HIDE DEF c, g
  <2> QED BY <1>2, <1>4, <1>6, Adding
<1> HIDE DEF b, h, k, g, c, d
<1>8. SlicesOK(r, n, w)
  <2>1. r.buckets = d /\ r.head = g
    BY <1>4, SlicesFields, SMTT(20) DEF Summed
  <2> QED BY <1>4, <2>1, ZenonT(30) DEF SlicesOK
<1> DEFINE x == SumFunctionOnSet(Successes(b), all)
           y == SumFunctionOnSet(Failures(b), all)
           u == SumFunctionOnSet(Successes(c), all)
           v == SumFunctionOnSet(Failures(c), all)
           p == SumFunctionOnSet(Successes(d), all)
           q == SumFunctionOnSet(Failures(d), all)
<1>9. successCount(s) = x /\ x \in Nat /\ failureCount(s) = y /\ y \in Nat
  BY <1>1, SlicesShow
<1>10. successCount(r) = p /\ p \in Nat /\ failureCount(r) = q /\ q \in Nat
  BY <1>4, SlicesShow
<1>11. u <= x /\ v <= y
  BY <1>1, <1>3, <1>6, AfterSmaller, Zenon DEF c
<1>12. u \in Nat /\ v \in Nat
  <2>1. all \in SUBSET all
    OBVIOUS
  <2> QED BY <1>2, <1>6, <2>1, SumOfType, Zenon
<1>13. SumOf(d, all) = Timed!stat(p, q) /\ SumOf(c, all) = Timed!stat(u, v)
  BY Zenon DEF SumOf
<1> HIDE DEF x, y, u, v, p, q
<1>14. p = u + ok /\ q = v + (1 - ok)
  <2> DEFINE j == 1 - ok
  <2> HIDE DEF ok, j
  <2>1. Timed!Plus(Timed!stat(u, v), ok, j) = Timed!stat(u + ok, v + j)
    BY PlusIs
  <2>2. Timed!stat(p, q) = Timed!stat(u + ok, v + j)
    BY <1>7, <1>13, <2>1, Zenon DEF j
  <2>3. p = u + ok /\ q = v + j
    BY <2>2 DEF Timed!stat
  <2> QED BY <2>3, Zenon DEF j
<1>15. AtMostOneMore(s, r, success)
  BY <1>9, <1>10, <1>11, <1>12, <1>14, SMTT(20) DEF AtMostOneMore
<1> QED BY <1>8, <1>15
=============================================================================
