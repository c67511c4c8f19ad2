--------------------------- MODULE CountingStats ---------------------------
(***************************************************************************)
(* The count based statistics of a circuit breaker                         *)
(* (circuitbreaker/circuitstats.go, type countingStats): a ring of `size`  *)
(* outcomes with running totals.  TRUE is a success, FALSE a failure.      *)
(* Operators only: CountingStatsSpec gives them a state, CircuitBreaker    *)
(* uses them through its stats interface.                                  *)
(***************************************************************************)
EXTENDS Integers

newCountingStats(size) ==
  [kind |-> "counting", size |-> size, head |-> 0, occupiedBits |-> 0,
   successes |-> 0, failures |-> 0, bits |-> [i \in 0..(size - 1) |-> FALSE]]

\* One outcome more or less in a total.
Unit(b) == IF b THEN 1 ELSE 0

\* Mutated setNext: the evicted outcome is read after the new one was written.
setNextReadsAfterWrite(c, value) ==
  LET full == c.occupiedBits >= c.size
  IN [c EXCEPT !.occupiedBits = IF full THEN @ ELSE @ + 1,
               !.successes = @ + Unit(value) - Unit(full /\ value),
               !.failures = @ + Unit(~value) - Unit(full /\ ~value),
               !.bits[c.head] = value,
               !.head = (@ + 1) % c.size]

\* Mutated setNext: the ring is written one place beyond the head.
setNextBeyondHead(c, value) ==
  LET full  == c.occupiedBits >= c.size
      oldOk == full /\ c.bits[c.head]
  IN [c EXCEPT !.occupiedBits = IF full THEN @ ELSE @ + 1,
               !.successes = @ + Unit(value) - Unit(oldOk),
               !.failures = @ + Unit(~value) - Unit(full /\ ~oldOk),
               !.bits[(c.head + 1) % c.size] = value,
               !.head = (@ + 1) % c.size]

(***************************************************************************)
(* setNext: while the ring fills up the outcome is only added; once it is  *)
(* full, the outcome under the head is taken out of the totals first.      *)
(***************************************************************************)
setNext(c, value) ==
  LET full  == c.occupiedBits >= c.size
      oldOk == full /\ c.bits[c.head]
  IN [c EXCEPT !.occupiedBits = IF full THEN @ ELSE @ + 1,
               !.successes = @ + Unit(value) - Unit(oldOk),
               !.failures = @ + Unit(~value) - Unit(full /\ ~oldOk),
               !.bits[c.head] = value,
               !.head = (@ + 1) % c.size]

executionCount(c) == c.occupiedBits

failureCount(c) == c.failures

successCount(c) == c.successes

\* math.Round(part / whole * 100), exact for the integers a window holds.
Percentage(part, whole) ==
  IF whole = 0 THEN 0 ELSE (200 * part + whole) \div (2 * whole)

failureRate(c) == Percentage(c.failures, c.occupiedBits)

successRate(c) == Percentage(c.successes, c.occupiedBits)

reset(c) == newCountingStats(c.size)
=============================================================================
