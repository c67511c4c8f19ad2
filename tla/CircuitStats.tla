---------------------------- MODULE CircuitStats ----------------------------
(***************************************************************************)
(* A circuit breaker's stats interface and its two implementations         *)
(* (circuitbreaker/circuitstats.go), for the breaker that keeps one of     *)
(* them and for the specifications of each.                                *)
(***************************************************************************)
Counting == INSTANCE CountingStats
Timed == INSTANCE TimedStats

IsTimed(s) == s.kind = "timed"
executionCount(s) == IF IsTimed(s) THEN Timed!executionCount(s) ELSE Counting!executionCount(s)
failureCount(s) == IF IsTimed(s) THEN Timed!failureCount(s) ELSE Counting!failureCount(s)
failureRate(s) == IF IsTimed(s) THEN Timed!failureRate(s) ELSE Counting!failureRate(s)
successCount(s) == IF IsTimed(s) THEN Timed!successCount(s) ELSE Counting!successCount(s)
successRate(s) == IF IsTimed(s) THEN Timed!successRate(s) ELSE Counting!successRate(s)
Counts(s) == [successes |-> successCount(s), failures |-> failureCount(s)]
resetStats(s) == IF IsTimed(s) THEN Timed!reset(s) ELSE Counting!reset(s)
=============================================================================
