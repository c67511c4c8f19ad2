---------------------------- MODULE BurstyStats ----------------------------
(***************************************************************************)
(* The bursty rate limiter's statistics (ratelimiter/ratelimiterstats.go,  *)
(* type burstyStats): the permits left in the current period, negative     *)
(* when permits of later periods are given out.  Operators only; t is the  *)
(* stopwatch's elapsed time.                                               *)
(***************************************************************************)
EXTENDS Integers

newBurstyStats(periodPermits) == [availablePermits |-> periodPermits, currentPeriod |-> 0]

\* Mutated refreshed: unused permits are kept.
refreshedKeepsUnused(b, t, period, periodPermits) ==
  LET newCurrentPeriod == t \div period
  IN IF b.currentPeriod >= newCurrentPeriod THEN b
     ELSE [availablePermits |-> b.availablePermits
             + (newCurrentPeriod - b.currentPeriod + 1) * periodPermits,
           currentPeriod |-> newCurrentPeriod]

\* The first part of acquirePermits: a new period brings new permits.
refreshed(b, t, period, periodPermits) ==
  LET newCurrentPeriod == t \div period
  IN IF b.currentPeriod >= newCurrentPeriod THEN b
     ELSE [availablePermits |->
             IF b.availablePermits < 0
             THEN b.availablePermits + (newCurrentPeriod - b.currentPeriod) * periodPermits
             ELSE periodPermits,
           currentPeriod |-> newCurrentPeriod]

\* The rest of it, for refreshed statistics: the time until the period that
\* has the last of the requested permits.
waitTime(b, t, period, periodPermits, requestedPermits) ==
  IF requestedPermits <= b.availablePermits THEN 0
  ELSE LET permitDeficit == requestedPermits - b.availablePermits
           additionalPeriods == permitDeficit \div periodPermits
           additionalUnits == permitDeficit % periodPermits
       IN (b.currentPeriod + 1) * period - t
            + (IF additionalUnits = 0 THEN additionalPeriods - 1 ELSE additionalPeriods) * period

taken(b, requestedPermits) == [b EXCEPT !.availablePermits = @ - requestedPermits]
=============================================================================
