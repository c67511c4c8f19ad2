------------------------- MODULE MCCircuitBreaker -------------------------
(***************************************************************************)
(* Configurations for model checking the circuit breaker.                  *)
(***************************************************************************)
EXTENDS CircuitBreaker, TLC

\* Count based: defaults, failure ratios, success thresholds and ratios, a DelayFunc.
CountConfigs ==
  { Builder(2),
    WithFailureThresholdRatio(Builder(2), 2, 3),
    WithSuccessThreshold(WithFailureThreshold(Builder(1), 2), 2),
    WithDelayFunc(WithSuccessThresholdRatio(WithFailureThreshold(Builder(2), 1), 2, 3), {-1, 1}) }

\* Time based: failures in a period, and a failure rate with and without a
\* success threshold.
TimedConfigs ==
  { WithFailureThresholdPeriod(Builder(1), 2, 4),
    WithFailureRateThreshold(Builder(2), 50, 3, 4),
    WithSuccessThreshold(WithFailureRateThreshold(Builder(1), 34, 2, 2), 2) }

AllConfigs == CountConfigs \cup TimedConfigs

\* Executions are interchangeable.
Symmetry == Permutations(Exec)

\* One failure opens, two successes in a row close.
TwoTrials == { WithSuccessThreshold(WithFailureThreshold(Builder(1), 1), 2) }
=============================================================================
