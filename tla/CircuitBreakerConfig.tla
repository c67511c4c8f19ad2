----------------------- MODULE CircuitBreakerConfig -----------------------
(***************************************************************************)
(* The configuration of a circuit breaker and the builder operations that  *)
(* make one (circuitbreaker/circuitbreakerbuilder.go).  A zero threshold   *)
(* is one that was not configured.  delayFunc is the set of delays the     *)
(* configured function may return, -1 included; the empty set is no        *)
(* function.                                                               *)
(***************************************************************************)
EXTENDS Integers

Builder(delay) ==
  [failureThreshold |-> 1, failureRateThreshold |-> 0,
   failureThresholdingCapacity |-> 1, failureExecutionThreshold |-> 0,
   failureThresholdingPeriod |-> 0,
   successThreshold |-> 0, successThresholdingCapacity |-> 0,
   delay |-> delay, delayFunc |-> {}]

WithFailureThresholdRatio(c, threshold, capacity) ==
  [c EXCEPT !.failureThreshold = threshold, !.failureThresholdingCapacity = capacity]

WithFailureThreshold(c, threshold) == WithFailureThresholdRatio(c, threshold, threshold)

WithFailureThresholdPeriod(c, threshold, period) ==
  [c EXCEPT !.failureThreshold = threshold, !.failureThresholdingCapacity = threshold,
            !.failureExecutionThreshold = threshold, !.failureThresholdingPeriod = period]

WithFailureRateThreshold(c, rate, executions, period) ==
  [c EXCEPT !.failureRateThreshold = rate, !.failureExecutionThreshold = executions,
            !.failureThresholdingPeriod = period]

WithSuccessThresholdRatio(c, threshold, capacity) ==
  [c EXCEPT !.successThreshold = threshold, !.successThresholdingCapacity = capacity]

WithSuccessThreshold(c, threshold) == WithSuccessThresholdRatio(c, threshold, threshold)

WithDelayFunc(c, delays) == [c EXCEPT !.delayFunc = delays]

ConfigType ==
  [failureThreshold : Nat, failureRateThreshold : Nat,
   failureThresholdingCapacity : Nat, failureExecutionThreshold : Nat,
   failureThresholdingPeriod : Nat,
   successThreshold : Nat, successThresholdingCapacity : Nat,
   delay : Nat, delayFunc : SUBSET (Nat \cup {-1})]

(***************************************************************************)
(* A configuration whose thresholds can be met: the builder checks nothing *)
(* and would accept a threshold above its capacity, for which              *)
(* `capacity - threshold` wraps around in the code's unsigned integers.    *)
(***************************************************************************)
Sensible(c) ==
  /\ c.failureThreshold \in 1..c.failureThresholdingCapacity
  /\ c.failureRateThreshold \in 0..100
  /\ c.failureRateThreshold # 0 => c.failureExecutionThreshold >= 1
  /\ c.failureExecutionThreshold # 0 => c.failureThresholdingPeriod # 0
  /\ c.failureExecutionThreshold # 0 /\ c.failureRateThreshold = 0
       => c.failureExecutionThreshold = c.failureThresholdingCapacity
  /\ \/ c.successThreshold = 0 /\ c.successThresholdingCapacity = 0
     \/ c.successThreshold \in 1..c.successThresholdingCapacity
=============================================================================
