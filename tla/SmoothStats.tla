---------------------------- MODULE SmoothStats ----------------------------
(***************************************************************************)
(* The smooth rate limiter's statistics (ratelimiter/ratelimiterstats.go,  *)
(* type smoothStats): the time, a multiple of the interval, at which the   *)
(* next permit is free.  Operators only; t is the stopwatch's elapsed time *)
(* and next is nextFreePermitTime.                                         *)
(***************************************************************************)
EXTENDS Integers

\* util.RoundDown
RoundDown(input, interval) == input - (input % interval)

\* exceedsMaxWaitTime; -1 is no limit.
exceedsMaxWaitTime(waitTime, maxWaitTime) == maxWaitTime # -1 /\ waitTime > maxWaitTime

\* Mutated newNextFreePermitTime: an unused interval is not skipped.
newNextFromOldest(next, t, interval, requestedPermits) == next + interval * requestedPermits

newNextFreePermitTime(next, t, interval, requestedPermits) ==
  (IF t >= next THEN RoundDown(t, interval) ELSE next) + interval * requestedPermits

waitTime(newNext, t, interval) ==
  IF newNext - t - interval >= 0 THEN newNext - t - interval ELSE 0
=============================================================================
