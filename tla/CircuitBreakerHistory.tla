----------------------- MODULE CircuitBreakerHistory -----------------------
(***************************************************************************)
(* The circuit breaker with two history variables: the outcomes recorded   *)
(* since the current closed or half-open state was entered, and those that *)
(* released a permit of a half-open state without having held one.         *)
(***************************************************************************)
EXTENDS CircuitBreaker

CONSTANT MaxTally  \* bound: outcomes counted in the history, at least every capacity

ASSUME TallyAssumption ==
  /\ MaxTally \in Nat /\ MaxTimed <= MaxTally
  /\ \A c \in Configs : closedCapacity(c) <= MaxTally /\ halfOpenCapacity(c) <= MaxTally

\* A slice of the time based statistics lasts at least one unit of the clock:
\* currentBucket divides by its length.
ASSUME PeriodAssumption ==
  \A c \in Configs : c.failureThresholdingPeriod # 0 => c.failureThresholdingPeriod >= BucketCount

VARIABLES tally, extra

hvars == <<vars, tally, extra>>

None == [successes |-> 0, failures |-> 0]

HInit == Init /\ tally = None /\ extra = 0

Capped(n) == IF n < MaxTally THEN n + 1 ELSE n

Bumped(success) ==
  IF success THEN [tally EXCEPT !.successes = Capped(@)]
  ELSE [tally EXCEPT !.failures = Capped(@)]

\* Entering a closed or half-open state starts a new count.
Track(count) == tally' = IF state' # state /\ state' # "open" THEN None ELSE count

\* An outcome that leaves the breaker half-open released a permit; more says
\* that it is not the outcome of a trial.
Release(more) ==
  extra' = IF state = "halfOpen" /\ state' = "halfOpen"
           THEN (IF more THEN extra + 1 ELSE extra) ELSE 0

Outcome(success) ==
  \/ \E e \in Exec : PostExecute(e, success) /\ Release(e \notin trials)
  \/ RecordDirectly(success) /\ Release(TRUE)

HNext ==
  \/ \E success \in BOOLEAN : Outcome(success) /\ Track(Bumped(success))
  \/ ResetClears /\ Track(None) /\ Release(FALSE)
  \/ /\ \/ \E e \in Exec : PreExecute(e) \/ Panic(e)
        \/ Open \/ HalfOpen \/ Close \/ ResetCloses \/ Tick
     /\ Track(tally) /\ Release(FALSE)

HSpec == HInit /\ [][HNext]_hvars
-----------------------------------------------------------------------------
(***************************************************************************)
(* The permits of a half-open breaker add up: each one of the capacity is  *)
(* free, or held by a trial that is still running, or was held by a trial  *)
(* that panicked, and there is one more for every outcome of an execution  *)
(* that held none of them, such as one admitted before the breaker opened. *)
(* So no permit is lost: a half-open breaker that rejects an execution is  *)
(* waiting for a trial, unless its trials panicked.  And nothing but those *)
(* outcomes lets in more trials than the capacity, whatever direct         *)
(* records, manual transitions or resets happened in between.              *)
(***************************************************************************)
PermitsAddUp ==
  state = "halfOpen" =>
    /\ trials \subseteq {e \in Exec : pc[e] = "running"}
    /\ permittedExecutions + Cardinality(trials) + leaked = halfOpenCapacity(config) + extra

(***************************************************************************)
(* Thresholds are judged on what happened in the current state only: the   *)
(* statistics never count an outcome from before the breaker entered its   *)
(* closed or half-open state, or from before a Reset, and a half-open      *)
(* state counts every one since.                                           *)
(***************************************************************************)
NoCarryOver ==
  /\ successCount(stats) <= tally.successes
  /\ failureCount(stats) <= tally.failures
  /\ state = "halfOpen" => Counts(stats) = tally
=============================================================================
