------------------------- MODULE CountingStatsSpec -------------------------
(***************************************************************************)
(* The ring of countingStats as a state machine, and the sliding window it *)
(* implements.                                                             *)
(***************************************************************************)
EXTENDS Integers, Sequences, FiniteSets, CircuitStats

CONSTANT Size
ASSUME SizeAssumption == Size \in Nat \ {0}

VARIABLE ring

RingInit == ring = Counting!newCountingStats(Size)

recordSuccess == ring' = Counting!setNext(ring, TRUE)

recordFailure == ring' = Counting!setNext(ring, FALSE)

RingReset == ring' = Counting!reset(ring)

RingNext == recordSuccess \/ recordFailure \/ RingReset

RingSpec == RingInit /\ [][RingNext]_ring
-----------------------------------------------------------------------------
RingType ==
  ring \in [kind : {"counting"}, size : {Size}, head : 0..(Size - 1), occupiedBits : 0..Size,
            successes : Nat, failures : Nat, bits : [0..(Size - 1) -> BOOLEAN]]

\* The place of the ring that holds the k-th oldest outcome.
Place(k) ==
  LET p == IF ring.occupiedBits < Size THEN k - 1 ELSE ring.head + k - 1
  IN IF p < Size THEN p ELSE p - Size

Window == [k \in 1..ring.occupiedBits |-> ring.bits[Place(k)]]

Abstract == INSTANCE SlidingWindow WITH window <- Window

(***************************************************************************)
(* The ring never shows an outcome out of order, twice, or after it left   *)
(* the last Size outcomes: setNext and reset implement a sliding window.   *)
(***************************************************************************)
ImplementsSlidingWindow == Abstract!WSpec

\* The places that hold one of the outcomes a window counts.
Holding(value) == {i \in 0..(ring.occupiedBits - 1) : ring.bits[i] = value}

(***************************************************************************)
(* The running totals that thresholds are compared with, updated by        *)
(* increments and decrements only, are the number of successes and of      *)
(* failures among the outcomes the ring holds; the ring fills up from its  *)
(* first place, so the places it holds outcomes in are the first ones.     *)
(***************************************************************************)
TotalsMatchRing ==
  /\ ring.successes = Cardinality(Holding(TRUE))
  /\ ring.failures = Cardinality(Holding(FALSE))
  /\ ring.occupiedBits < Size => ring.head = ring.occupiedBits
=============================================================================
