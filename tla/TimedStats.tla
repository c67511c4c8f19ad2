----------------------------- MODULE TimedStats -----------------------------
(***************************************************************************)
(* The time based statistics of a circuit breaker                          *)
(* (circuitbreaker/circuitstats.go, type timedStats): outcomes counted in  *)
(* a ring of time slices, with a running summary of all slices.  Operators *)
(* only; the clock is a parameter.                                         *)
(***************************************************************************)
EXTENDS Integers, FiniteSetsExt, Functions

stat(successes, failures) == [successes |-> successes, failures |-> failures]

Plus(s, successes, failures) ==
  [s EXCEPT !.successes = @ + successes, !.failures = @ + failures]

\* stat.remove
remove(s, bucket) == Plus(s, -bucket.successes, -bucket.failures)

newTimedStats(bucketCount, thresholdingPeriod) ==
  [kind |-> "timed", bucketCount |-> bucketCount,
   bucketNanos |-> thresholdingPeriod \div bucketCount,
   buckets |-> [i \in 0..(bucketCount - 1) |-> stat(0, 0)],
   summary |-> stat(0, 0), head |-> 0]

\* All the outcomes in a set of places of the ring.
Collected(s, places) ==
  stat(SumFunctionOnSet([i \in places |-> s.buckets[i].successes], places),
       SumFunctionOnSet([i \in places |-> s.buckets[i].failures], places))

\* Mutated currentBucket: the slice the head moves to is left as it was.
currentBucketSkipsNewest(s, now) ==
  LET newHead == now \div s.bucketNanos
      moved   == Min({s.bucketCount, newHead - s.head})
      expired == {(s.head + i + 1) % s.bucketCount : i \in 0..(moved - 2)}
  IN IF newHead <= s.head THEN s
     ELSE [s EXCEPT !.summary = remove(@, Collected(s, expired)),
                    !.buckets = [i \in DOMAIN @ |-> IF i \in expired THEN stat(0, 0) ELSE @[i]],
                    !.head = newHead]

(***************************************************************************)
(* currentBucket: when the clock has passed into a new slice, every slice  *)
(* the head passes over is taken out of the summary and cleared.           *)
(***************************************************************************)
currentBucket(s, now) ==
  LET newHead == now \div s.bucketNanos
      moved   == Min({s.bucketCount, newHead - s.head})
      expired == {(s.head + i + 1) % s.bucketCount : i \in 0..(moved - 1)}
  IN IF newHead <= s.head THEN s
     ELSE [s EXCEPT !.summary = remove(@, Collected(s, expired)),
                    !.buckets = [i \in DOMAIN @ |-> IF i \in expired THEN stat(0, 0) ELSE @[i]],
                    !.head = newHead]

\* recordSuccess and recordFailure
record(s, success, now) ==
  LET t  == currentBucket(s, now)
      ok == IF success THEN 1 ELSE 0
  IN [t EXCEPT !.buckets[t.head % t.bucketCount] = Plus(@, ok, 1 - ok),
               !.summary = Plus(@, ok, 1 - ok)]

executionCount(s) == s.summary.successes + s.summary.failures

failureCount(s) == s.summary.failures

successCount(s) == s.summary.successes

\* math.Round(part / executions * 100)
Rate(s, part) ==
  LET executions == executionCount(s)
  IN IF executions = 0 THEN 0 ELSE (200 * part + executions) \div (2 * executions)

failureRate(s) == Rate(s, s.summary.failures)

successRate(s) == Rate(s, s.summary.successes)

reset(s) ==
  [s EXCEPT !.buckets = [i \in DOMAIN @ |-> stat(0, 0)],
            !.summary = stat(0, 0), !.head = 0]
=============================================================================
