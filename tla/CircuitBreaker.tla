--------------------------- MODULE CircuitBreaker ---------------------------
(***************************************************************************)
(* A circuit breaker and the executions that go through it                 *)
(* (circuitbreaker/circuitbreaker.go, circuitstates.go,                    *)
(* circuitbreakerexecutor.go).  Every operation holds cb.mtx from start to *)
(* end and is one action; Reset, which takes no lock, is two.              *)
(*                                                                         *)
(* The object cb.state is the variables state, stats, permittedExecutions, *)
(* startTime and delay.  An openState keeps the statistics of the state    *)
(* before it, so stats survives opening.                                   *)
(***************************************************************************)
EXTENDS CircuitBreakerConfig, CircuitStats, FiniteSets

CONSTANTS Configs,      \* the configurations the breaker is checked with
          Exec,         \* execution slots: concurrent uses of the breaker
          BucketCount,  \* slices of the time based statistics (10 in the code)
          MaxTime,      \* bound: the clock
          MaxPanics,    \* bound: executions that panic in one behaviour
          MaxTimed      \* bound: outcomes in a time based window

ASSUME BreakerAssumption ==
  /\ Configs \subseteq {c \in ConfigType : Sensible(c)}
  /\ IsFiniteSet(Exec)
  /\ BucketCount \in Nat \ {0}
  /\ MaxTime \in Nat /\ MaxPanics \in Nat /\ MaxTimed \in Nat

VARIABLES config,               \* constant: chosen at Build
          now,                  \* config.clock
          state,
          stats,                \* the stats of the state object
          permittedExecutions,  \* halfOpenState.permittedExecutions
          startTime, delay,     \* openState.startTime and .delay
          pc,                   \* each execution: idle, running, rejected
          trials,               \* running executions admitted by this half-open state
          leaked,               \* permits of this half-open state held by panicked executions
          panics,               \* executions that panicked so far
          resetting             \* a Reset stands between its two steps

breaker == <<state, stats, permittedExecutions, startTime, delay>>
vars == <<config, now, breaker, pc, trials, leaked, panics, resetting>>
-----------------------------------------------------------------------------
\* The stats interface.
newStats(c, supportsTimeBased, capacity) ==
  IF supportsTimeBased /\ c.failureThresholdingPeriod # 0
  THEN Timed!newTimedStats(BucketCount, c.failureThresholdingPeriod)
  ELSE Counting!newCountingStats(capacity)

recorded(s, success) == IF IsTimed(s) THEN Timed!record(s, success, now) ELSE Counting!setNext(s, success)
-----------------------------------------------------------------------------
\* newClosedState, newHalfOpenState: how many outcomes the new window holds.
closedCapacity(c) ==
  IF c.failureExecutionThreshold # 0 THEN c.failureExecutionThreshold
  ELSE c.failureThresholdingCapacity

halfOpenCapacity(c) ==
  IF c.successThresholdingCapacity # 0 THEN c.successThresholdingCapacity
  ELSE closedCapacity(c)

\* closedState.checkThresholdAndReleasePermit
closedExceeded(c, s) ==
  /\ executionCount(s) >= c.failureExecutionThreshold
  /\ IF c.failureRateThreshold # 0 THEN failureRate(s) >= c.failureRateThreshold
     ELSE failureCount(s) >= c.failureThreshold

\* halfOpenState.checkThresholdAndReleasePermit, its two conditions
successesExceeded(c, s) ==
  CASE c.successThreshold # 0 -> successCount(s) >= c.successThreshold
    [] c.successThreshold = 0 /\ c.failureRateThreshold # 0 ->
         /\ executionCount(s) >= c.failureExecutionThreshold
         /\ successRate(s) > 100 - c.failureRateThreshold
    [] OTHER -> successCount(s) > c.failureThresholdingCapacity - c.failureThreshold

\* Mutated failuresExceeded: one failure more than the capacity leaves room for.
failuresExceededOffByOne(c, s) ==
  CASE c.successThreshold # 0 ->
         failureCount(s) > c.successThresholdingCapacity - c.successThreshold + 1
    [] c.successThreshold = 0 /\ c.failureRateThreshold # 0 ->
         /\ executionCount(s) >= c.failureExecutionThreshold
         /\ failureRate(s) > c.failureRateThreshold
    [] OTHER -> failureCount(s) > c.failureThreshold

failuresExceeded(c, s) ==
  CASE c.successThreshold # 0 ->
         failureCount(s) > c.successThresholdingCapacity - c.successThreshold
    [] c.successThreshold = 0 /\ c.failureRateThreshold # 0 ->
         /\ executionCount(s) >= c.failureExecutionThreshold
         /\ failureRate(s) >= c.failureRateThreshold
    [] OTHER -> failureCount(s) >= c.failureThreshold
-----------------------------------------------------------------------------
(***************************************************************************)
(* transitionTo, for a breaker that is in another state.  s is the         *)
(* statistics of the state that is left; the permits of a half-open state  *)
(* that is left behind belong to nobody.                                   *)
(***************************************************************************)
NoTrials == trials' = {} /\ leaked' = 0 /\ permittedExecutions' = 0

toClosed ==
  /\ state' = "closed"
  /\ stats' = newStats(config, TRUE, closedCapacity(config))
  /\ startTime' = 0 /\ delay' = 0
  /\ NoTrials

\* computed is what ComputeDelay returns for the execution, -1 for none.
toOpen(s, computed) ==
  /\ state' = "open"
  /\ stats' = s
  /\ startTime' = now
  /\ delay' = IF computed = -1 THEN config.delay ELSE computed
  /\ NoTrials

\* Mutated newHalfOpenState: the new state starts from the old statistics.
newHalfOpenStateKeepsStats(permits) ==
  /\ state' = "halfOpen"
  /\ stats' = IF IsTimed(stats) THEN newStats(config, FALSE, halfOpenCapacity(config)) ELSE stats
  /\ startTime' = 0 /\ delay' = 0
  /\ permittedExecutions' = permits

newHalfOpenState(permits) ==
  /\ state' = "halfOpen"
  /\ stats' = newStats(config, FALSE, halfOpenCapacity(config))
  /\ startTime' = 0 /\ delay' = 0
  /\ permittedExecutions' = permits
-----------------------------------------------------------------------------
\* What the DelayFunc returns for an execution, -1 if there is none.
ComputedDelays == IF config.delayFunc = {} THEN {-1} ELSE config.delayFunc

\* Mutated closedCheck: the threshold is checked before the outcome is recorded.
closedCheckTooEarly(s, computed) ==
  IF closedExceeded(config, stats) THEN toOpen(s, computed)
  ELSE stats' = s /\ UNCHANGED <<state, permittedExecutions, startTime, delay, trials, leaked>>

closedCheck(s, computed) ==
  IF closedExceeded(config, s) THEN toOpen(s, computed)
  ELSE stats' = s /\ UNCHANGED <<state, permittedExecutions, startTime, delay, trials, leaked>>

\* Mutated halfOpenCheck: an undecided outcome does not release its permit.
halfOpenCheckKeepsPermit(s, computed, holder) ==
  CASE successesExceeded(config, s) -> toClosed
    [] ~successesExceeded(config, s) /\ failuresExceeded(config, s) -> toOpen(s, computed)
    [] OTHER -> /\ stats' = s
                /\ trials' = trials \ holder
                /\ UNCHANGED <<state, permittedExecutions, startTime, delay, leaked>>

(***************************************************************************)
(* The permit is released whether or not the execution that recorded holds *)
(* one of this half-open state; holder is {} or the execution itself.      *)
(***************************************************************************)
halfOpenCheck(s, computed, holder) ==
  CASE successesExceeded(config, s) -> toClosed
    [] ~successesExceeded(config, s) /\ failuresExceeded(config, s) -> toOpen(s, computed)
    [] OTHER -> /\ stats' = s
                /\ permittedExecutions' = permittedExecutions + 1
                /\ trials' = trials \ holder
                /\ UNCHANGED <<state, startTime, delay, leaked>>

\* Mutated checkThresholdAndReleasePermit: an outcome that arrives in the open
\* state is checked as if the breaker was closed.
checkThresholdInOpen(s, computed, holder) ==
  \/ state \in {"closed", "open"} /\ closedCheck(s, computed)
  \/ state = "halfOpen" /\ halfOpenCheck(s, computed, holder)

checkThresholdAndReleasePermit(s, computed, holder) ==
  \/ state = "closed" /\ closedCheck(s, computed)
  \/ state = "halfOpen" /\ halfOpenCheck(s, computed, holder)
  \/ /\ state = "open"
     /\ stats' = s
     /\ UNCHANGED <<state, permittedExecutions, startTime, delay, trials, leaked>>

\* cb.recordSuccess and cb.recordFailure
recordOutcome(success, computed, holder) ==
  /\ IsTimed(stats) => executionCount(stats) < MaxTimed
  /\ checkThresholdAndReleasePermit(recorded(stats, success), computed, holder)
-----------------------------------------------------------------------------
\* Build
Init ==
  /\ config \in Configs
  /\ now = 0
  /\ state = "closed"
  /\ stats = newStats(config, TRUE, closedCapacity(config))
  /\ permittedExecutions = 0
  /\ startTime = 0 /\ delay = 0
  /\ pc = [e \in Exec |-> "idle"]
  /\ trials = {} /\ leaked = 0 /\ panics = 0
  /\ resetting = FALSE

Admit(e) == pc' = [pc EXCEPT ![e] = "running"]

Reject(e) == pc' = [pc EXCEPT ![e] = "rejected"] /\ UNCHANGED <<breaker, trials, leaked>>

\* Mutated delayElapsed: the delay itself is not enough.
delayElapsedLate == now - startTime > delay

delayElapsed == now - startTime >= delay

\* The tryAcquirePermit of the state the breaker is in.
tryAcquirePermit(e) ==
  \/ state = "closed" /\ Admit(e) /\ UNCHANGED <<breaker, trials, leaked>>
  \/ /\ state = "open" /\ delayElapsed
     /\ newHalfOpenState(halfOpenCapacity(config) - 1)
     /\ trials' = {e} /\ leaked' = 0
     /\ Admit(e)
  \/ state = "open" /\ ~delayElapsed /\ Reject(e)
  \/ /\ state = "halfOpen" /\ permittedExecutions > 0
     /\ permittedExecutions' = permittedExecutions - 1
     /\ trials' = trials \cup {e}
     /\ Admit(e)
     /\ UNCHANGED <<state, stats, startTime, delay, leaked>>
  \/ state = "halfOpen" /\ permittedExecutions = 0 /\ Reject(e)

\* executor.PreExecute: TryAcquirePermit, ErrOpen if it is refused.
PreExecute(e) ==
  /\ pc[e] # "running"
  /\ tryAcquirePermit(e)
  /\ UNCHANGED <<config, now, panics, resetting>>

\* executor.OnSuccess and executor.OnFailure; a failure carries the execution
\* that the DelayFunc computes a delay from.
PostExecute(e, success) ==
  /\ pc[e] = "running"
  /\ \E computed \in (IF success THEN {-1} ELSE ComputedDelays) :
       recordOutcome(success, computed, {e})
  /\ pc' = [pc EXCEPT ![e] = "idle"]
  /\ UNCHANGED <<config, now, panics, resetting>>

\* A panic of the user function unwinds through the executor: nothing is recorded.
Panic(e) ==
  /\ pc[e] = "running" /\ panics < MaxPanics
  /\ pc' = [pc EXCEPT ![e] = "idle"]
  /\ panics' = panics + 1
  /\ trials' = trials \ {e}
  /\ leaked' = IF e \in trials THEN leaked + 1 ELSE leaked
  /\ UNCHANGED <<config, now, breaker, resetting>>

\* RecordSuccess, RecordFailure, RecordResult, RecordError called on the breaker itself.
RecordDirectly(success) ==
  /\ recordOutcome(success, -1, {})
  /\ UNCHANGED <<config, now, pc, panics, resetting>>

Open ==
  /\ state # "open" /\ toOpen(stats, -1)
  /\ UNCHANGED <<config, now, pc, panics, resetting>>

HalfOpen ==
  /\ state # "halfOpen"
  /\ newHalfOpenState(halfOpenCapacity(config))
  /\ trials' = {} /\ leaked' = 0
  /\ UNCHANGED <<config, now, pc, panics, resetting>>

Close ==
  /\ state # "closed" /\ toClosed
  /\ UNCHANGED <<config, now, pc, panics, resetting>>

\* Reset is cb.close() and then cb.state.reset(), without the lock.
ResetCloses ==
  /\ ~resetting /\ resetting' = TRUE
  /\ \/ state # "closed" /\ toClosed
     \/ state = "closed" /\ UNCHANGED <<breaker, trials, leaked>>
  /\ UNCHANGED <<config, now, pc, panics>>

ResetClears ==
  /\ resetting /\ resetting' = FALSE
  /\ stats' = resetStats(stats)
  /\ UNCHANGED <<config, now, state, permittedExecutions, startTime, delay, pc, trials, leaked, panics>>

Tick ==
  /\ now < MaxTime /\ now' = now + 1
  /\ UNCHANGED <<config, breaker, pc, trials, leaked, panics, resetting>>

Next ==
  \/ \E e \in Exec : \/ PreExecute(e)
                     \/ \E success \in BOOLEAN : PostExecute(e, success)
                     \/ Panic(e)
  \/ \E success \in BOOLEAN : RecordDirectly(success)
  \/ Open \/ HalfOpen \/ Close
  \/ ResetCloses \/ ResetClears
  \/ Tick

Spec == Init /\ [][Next]_vars
-----------------------------------------------------------------------------
CountingType(s) ==
  /\ s = [kind |-> "counting", size |-> s.size, head |-> s.head,
          occupiedBits |-> s.occupiedBits, successes |-> s.successes,
          failures |-> s.failures, bits |-> s.bits]
  /\ s.size \in Nat \ {0}
  /\ s.head \in 0..(s.size - 1)
  /\ s.occupiedBits \in 0..s.size
  /\ s.successes \in Int /\ s.failures \in Int
  /\ s.bits \in [0..(s.size - 1) -> BOOLEAN]

\* TimedStatsSpec has the type of the time based statistics.
TypeOK ==
  /\ config \in Configs
  /\ now \in Nat
  /\ state \in {"closed", "open", "halfOpen"}
  /\ IsTimed(stats) \/ CountingType(stats)
  /\ permittedExecutions \in Nat
  /\ startTime \in Nat /\ delay \in Nat
  /\ pc \in [Exec -> {"idle", "running", "rejected"}]
  /\ trials \subseteq Exec
  /\ leaked \in Nat /\ panics \in Nat
  /\ resetting \in BOOLEAN

(***************************************************************************)
(* A half-open breaker decides as soon as it can, and always by the time   *)
(* its window is full: while it is half-open no threshold is exceeded and  *)
(* fewer outcomes are recorded than its capacity.  In particular the two   *)
(* conditions of checkThresholdAndReleasePermit, rounded rates included,   *)
(* leave no full window undecided.                                         *)
(***************************************************************************)
HalfOpenDecides ==
  state = "halfOpen" =>
    /\ ~IsTimed(stats)
    /\ executionCount(stats) < halfOpenCapacity(config)
    /\ ~successesExceeded(config, stats) /\ ~failuresExceeded(config, stats)

(***************************************************************************)
(* A closed breaker is below its failure threshold: no sequence of         *)
(* outcomes, expiring slices, resets and manual transitions leaves it      *)
(* closed with a threshold exceeded.                                       *)
(***************************************************************************)
ClosedBelowThreshold == state = "closed" => ~closedExceeded(config, stats)

(***************************************************************************)
(* An open period is not cut short: the breaker leaves the open state only *)
(* once the delay it opened with has elapsed, or because Close, HalfOpen   *)
(* or Reset was called.  Late outcomes of executions admitted before it    *)
(* opened neither end the period nor restart its delay.                    *)
(***************************************************************************)
OpenPeriodHolds ==
  [][state = "open" =>
       IF state' = "open" THEN UNCHANGED <<startTime, delay>>
       ELSE delayElapsed \/ Close \/ HalfOpen \/ ResetCloses]_vars
(***************************************************************************)
(* What CircuitBreaker documents for the half-open state: "a configurable  *)
(* number of trial executions will be allowed", with a permit that is      *)
(* "automatically released when a result or failure is recorded": no more  *)
(* trials run at once than the half-open capacity.                         *)
(***************************************************************************)
TrialsWithinCapacity == state = "halfOpen" => Cardinality(trials) <= halfOpenCapacity(config)
-----------------------------------------------------------------------------
(***************************************************************************)
(* Liveness, for executions that keep arriving, return and do not panic    *)
(* (MaxPanics = 0), and a breaker that nobody opens, half-opens, closes or *)
(* resets by hand: the transitions are the breaker's own.                  *)
(***************************************************************************)
OwnNext ==
  \/ \E e \in Exec : PreExecute(e) \/ \E success \in BOOLEAN : PostExecute(e, success)
  \/ Tick

OwnSpec == Init /\ [][OwnNext]_vars

FairSpec ==
  /\ OwnSpec
  /\ WF_vars(Tick)
  /\ \A e \in Exec : /\ WF_vars(PreExecute(e))
                     /\ WF_vars(\E success \in BOOLEAN : PostExecute(e, success))

(***************************************************************************)
(* A half-open breaker does not stay half-open for ever: the trials it     *)
(* admits are enough to close it or to open it again.                      *)
(***************************************************************************)
HalfOpenResolves == (state = "halfOpen") ~> (state # "halfOpen")

(***************************************************************************)
(* An open breaker is given up: once its delay has elapsed within the time *)
(* the model has, the next execution half-opens it.                        *)
(***************************************************************************)
OpenEnds == (state = "open" /\ startTime + delay <= MaxTime) ~> (state # "open")
=============================================================================
