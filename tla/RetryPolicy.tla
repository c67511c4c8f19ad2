---------------------------- MODULE RetryPolicy ----------------------------
(***************************************************************************)
(* A retry policy from its builder (retrypolicy/retry.go) to the decisions *)
(* and the delays of its executor (retrypolicy/retryexecutor.go), for one  *)
(* execution.  Cancellation is the subject of Execution, and is left out.  *)
(*                                                                         *)
(* Times are whole numbers, of nanoseconds in the code; the factors of     *)
(* backoff and jitter are float32 numbers, in the parts of Float32.  Time  *)
(* passes while the function runs, between the two readings of the elapsed *)
(* time, and when a timer is late.                                         *)
(***************************************************************************)
EXTENDS Integers, Sequences, FiniteSetsExt, Conditions, Float32

CONSTANTS Programs,    \* the uses of a builder: builder, calls, and outcomes of the function
          MaxRun,      \* bound: the time one run of the function takes
          MaxLate,     \* bound: the time lost between two steps
          MaxElapsed,  \* bound: no attempt begins after this time
          MaxAttempts  \* bound: cuts policies without a limit on retries

Calls ==
  [op : {"WithMaxAttempts", "WithMaxRetries"}, n : Int]
  \cup [op : {"WithMaxDuration", "WithDelay", "WithJitter", "WithJitterFactor"}, d : Nat]
  \cup [op : {"WithBackoffFactor"}, d : Nat, max : Nat, factor : {f \in Nat : f >= One}]
  \cup [op : {"WithRandomDelay"}, min : Nat, max : Nat]
  \cup [op : {"WithDelayFunc"}, name : {"http", "any"}]
  \cup [op : {"HandleErrors", "AbortOnErrors"}, errs : SUBSET Errors]
  \cup [op : {"HandleErrorTypes", "AbortOnErrorTypes"}, types : SUBSET Types]
  \cup [op : {"HandleResult", "AbortOnResult"}, result : Results]
  \cup [op : {"HandleIf", "AbortIf"}, name : {"isBad", "isCanceled", "http", "grpc"}]

ASSUME RetryAssumption ==
  /\ \A p \in Programs :
       /\ p.builder \in {"retrypolicy", "http", "grpc"}
       /\ p.calls \in Seq(Calls)
       /\ p.outcomes \subseteq [result : Results, err : Errors]
  /\ MaxRun \in Nat /\ MaxLate \in Nat /\ MaxElapsed \in Nat /\ MaxAttempts \in Nat

min(a, b) == IF a < b THEN a ELSE b
max(a, b) == IF a > b THEN a ELSE b
-----------------------------------------------------------------------------
\* The builders.  The fields of conditions are those of NoConditions.
retryBuilder ==
  [conditions |-> NoConditions, delay |-> 0, delayFunc |-> "none", delayMin |-> 0, delayMax |-> 0,
   delayFactor |-> 0, maxDelay |-> 0, jitter |-> 0, jitterFactor |-> 0, maxDuration |-> 0,
   maxRetries |-> 2]

httpBuilder ==
  [retryBuilder EXCEPT !.conditions = AbortOnErrors(HandleIf(@, "http"), {"canceled"}),
                       !.delayFunc = "http"]

grpcBuilder == [retryBuilder EXCEPT !.conditions = HandleIf(@, "grpc")]

\* Mutated WithMaxAttempts: attempts are taken for retries.
WithMaxAttemptsAsRetries(c, n) == [c EXCEPT !.maxRetries = n]

WithMaxAttempts(c, n) == [c EXCEPT !.maxRetries = IF n = -1 THEN -1 ELSE n - 1]
WithMaxRetries(c, n) == [c EXCEPT !.maxRetries = n]
WithMaxDuration(c, d) == [c EXCEPT !.maxDuration = d]
WithDelay(c, d) == [c EXCEPT !.delay = d]
WithDelayFunc(c, name) == [c EXCEPT !.delayFunc = name]

\* WithBackoff is the factor 2.
WithBackoffFactor(c, d, maxDelay, factor) ==
  [c EXCEPT !.delay = d, !.maxDelay = maxDelay, !.delayFactor = factor, !.delayMin = 0, !.delayMax = 0]

\* Mutated WithRandomDelay: a delay that was set before stays.
WithRandomDelayKeeps(c, delayMin, delayMax) == [c EXCEPT !.delayMin = delayMin, !.delayMax = delayMax]

WithRandomDelay(c, delayMin, delayMax) ==
  [c EXCEPT !.delayMin = delayMin, !.delayMax = delayMax, !.delay = 0, !.maxDelay = 0]

WithJitter(c, d) == [c EXCEPT !.jitter = d]
WithJitterFactor(c, factor) == [c EXCEPT !.jitterFactor = factor]

\* One call of the builder.
configured(c, call) ==
  CASE call.op = "WithMaxAttempts" -> WithMaxAttempts(c, call.n)
    [] call.op = "WithMaxRetries" -> WithMaxRetries(c, call.n)
    [] call.op = "WithMaxDuration" -> WithMaxDuration(c, call.d)
    [] call.op = "WithDelay" -> WithDelay(c, call.d)
    [] call.op = "WithDelayFunc" -> WithDelayFunc(c, call.name)
    [] call.op = "WithBackoffFactor" -> WithBackoffFactor(c, call.d, call.max, call.factor)
    [] call.op = "WithRandomDelay" -> WithRandomDelay(c, call.min, call.max)
    [] call.op = "WithJitter" -> WithJitter(c, call.d)
    [] call.op = "WithJitterFactor" -> WithJitterFactor(c, call.d)
    [] call.op = "HandleErrors" -> [c EXCEPT !.conditions = HandleErrors(@, call.errs)]
    [] call.op = "HandleErrorTypes" -> [c EXCEPT !.conditions = HandleErrorTypes(@, call.types)]
    [] call.op = "HandleResult" -> [c EXCEPT !.conditions = HandleResult(@, call.result)]
    [] call.op = "HandleIf" -> [c EXCEPT !.conditions = HandleIf(@, call.name)]
    [] call.op = "AbortOnErrors" -> [c EXCEPT !.conditions = AbortOnErrors(@, call.errs)]
    [] call.op = "AbortOnErrorTypes" -> [c EXCEPT !.conditions = AbortOnErrorTypes(@, call.types)]
    [] call.op = "AbortOnResult" -> [c EXCEPT !.conditions = AbortOnResult(@, call.result)]
    [] call.op = "AbortIf" -> [c EXCEPT !.conditions = AbortIf(@, call.name)]
-----------------------------------------------------------------------------
VARIABLES program,         \* constant: how the policy is built and used
          called,          \* how many calls the builder has had
          config,          \* the builder's fields, then the policy's
          phase,           \* build, run, failed, delay, success, aborted, exceeded
          elapsed,         \* the execution's elapsed time
          attempts, failedAttempts, lastDelay,
          last,            \* the outcome of the last attempt
          drawn,           \* history: the last delay before jitter and maxDuration
          computed,        \* history: whether DelayFunc gave it
          delay,           \* the delay that is waited for
          backoffs,        \* history: how many delays were fixed or backoff delays
          late             \* history: how many attempts began after maxDuration

vars == <<program, called, config, phase, elapsed, attempts, failedAttempts, lastDelay, last,
          drawn, computed, delay, backoffs, late>>

Init ==
  /\ program \in Programs
  /\ called = 0
  /\ config = CASE program.builder = "retrypolicy" -> retryBuilder
                [] program.builder = "http" -> httpBuilder
                [] program.builder = "grpc" -> grpcBuilder
  /\ phase = "build"
  /\ elapsed = 0 /\ attempts = 1 /\ failedAttempts = 0 /\ lastDelay = 0
  /\ last = [result |-> "zero", err |-> "nil"]
  /\ drawn = 0 /\ computed = FALSE /\ delay = 0 /\ backoffs = 0 /\ late = 0

callBuilder ==
  /\ phase = "build" /\ called < Len(program.calls)
  /\ called' = called + 1
  /\ config' = configured(config, program.calls[called + 1])
  /\ UNCHANGED <<program, phase, elapsed, attempts, failedAttempts, lastDelay, last, drawn, computed,
                 delay, backoffs, late>>

\* Build, and an execution begins.
Build ==
  /\ phase = "build" /\ called = Len(program.calls)
  /\ phase' = "run"
  /\ UNCHANGED <<program, called, config, elapsed, attempts, failedAttempts, lastDelay, last, drawn,
                 computed, delay, backoffs, late>>

allowsRetries == config.maxRetries = -1 \/ config.maxRetries > 0

\* Mutated exceeds: the time at which the function returned is not looked at.
exceedsRetriesOnly(failed, time) == config.maxRetries # -1 /\ failed > config.maxRetries

exceeds(failed, time) ==
  \/ config.maxRetries # -1 /\ failed > config.maxRetries
  \/ config.maxDuration # 0 /\ time > config.maxDuration

(***************************************************************************)
(* The function returns after some time; PostExecute and OnFailure decide. *)
(* "exceeded" returns an ExceededError, also for an outcome that aborts.   *)
(***************************************************************************)
fnReturns(outcome, time) ==
  /\ phase = "run"
  /\ elapsed' = elapsed + time
  /\ last' = outcome
  /\ IF IsFailure(config.conditions, outcome.result, outcome.err)
     THEN /\ failedAttempts' = failedAttempts + 1
          /\ LET exceeded == exceeds(failedAttempts + 1, elapsed + time)
                 aborts == IsAbortable(config.conditions, outcome.result, outcome.err)
             IN phase' = CASE exceeded -> "exceeded"
                           [] ~exceeded /\ ~aborts /\ allowsRetries -> "failed"
                           [] OTHER -> "aborted"
     ELSE phase' = "success" /\ UNCHANGED failedAttempts
  /\ UNCHANGED <<program, called, config, attempts, lastDelay, drawn, computed, delay, backoffs, late>>

\* The values of ComputeDelay; a function of the user may give any.
ComputeDelay ==
  CASE config.delayFunc = "none" -> {NoDelay}
    [] config.delayFunc = "http" -> {httpDelay(last.result)}
    [] config.delayFunc = "any" -> {NoDelay, -2, 0, 3}

\* Mutated backoff: the limit comes before the factor.
backoffUnbounded ==
  IF lastDelay # 0 /\ attempts > 1 /\ config.maxDelay # 0
  THEN scaled(min(lastDelay, config.maxDelay), config.delayFactor)
  ELSE config.delay

\* The next fixed or backoff delay; Retries() is one less than the attempts.
backoff ==
  IF lastDelay # 0 /\ attempts > 1 /\ config.maxDelay # 0
  THEN min(scaled(lastDelay, config.delayFactor), config.maxDelay)
  ELSE config.delay

\* util.RandomDelayInRange
randomDelays ==
  IF config.delayMin # 0 /\ config.delayMax # 0
  THEN min(config.delayMin, config.delayMax)..max(config.delayMin, config.delayMax)
  ELSE {0}

\* util.RandomDelay and util.RandomDelayFactor, with a random number below 1; a
\* jitter goes before a factor.
RandomDelay(d, jitter) == (d - jitter + 1)..(d + jitter)
RandomDelayFactor(d, jitterFactor) ==
  {scaled(d, float32(One + part)) : part \in (1 - jitterFactor)..jitterFactor}
adjustForJitter(d) ==
  CASE config.jitter # 0 -> RandomDelay(d, config.jitter)
    [] config.jitter = 0 /\ config.jitterFactor # 0 -> RandomDelayFactor(d, config.jitterFactor)
    [] OTHER -> {d}

adjustForMaxDuration(d, time) ==
  IF config.maxDuration # 0 THEN max(0, min(d, config.maxDuration - time)) ELSE max(0, d)

(***************************************************************************)
(* getDelay, some time after OnFailure.                                    *)
(***************************************************************************)
getDelay(time) ==
  /\ phase = "failed"
  /\ phase' = "delay"
  /\ elapsed' = elapsed + time
  /\ \E c \in ComputeDelay :
       /\ computed' = (c # NoDelay)
       /\ \/ /\ c # NoDelay
             /\ drawn' = c
             /\ UNCHANGED <<lastDelay, backoffs>>
          \/ /\ c = NoDelay /\ config.delay # 0
             /\ drawn' = backoff
             /\ lastDelay' = backoff /\ backoffs' = backoffs + 1
          \/ /\ c = NoDelay /\ config.delay = 0
             /\ drawn' \in randomDelays
             /\ UNCHANGED <<lastDelay, backoffs>>
  /\ \E d \in IF drawn' = 0 THEN {0} ELSE adjustForJitter(drawn') :
       delay' = adjustForMaxDuration(d, elapsed')
  /\ UNCHANGED <<program, called, config, attempts, failedAttempts, last, late>>

\* The timer fires, perhaps late, and InitializeRetry begins the next attempt.
timerFires(time) ==
  /\ phase = "delay"
  /\ phase' = "run"
  /\ elapsed' = elapsed + delay + time
  /\ attempts' = attempts + 1
  /\ late' = IF config.maxDuration # 0 /\ elapsed' > config.maxDuration THEN late + 1 ELSE late
  /\ UNCHANGED <<program, called, config, failedAttempts, lastDelay, last, drawn, computed, delay, backoffs>>

Ended == phase \in {"success", "aborted", "exceeded"}
AtBound == phase = "delay" /\ (attempts >= MaxAttempts \/ elapsed > MaxElapsed)
Terminated == (Ended \/ AtBound) /\ UNCHANGED vars

Next ==
  \/ callBuilder
  \/ Build
  \/ \E outcome \in program.outcomes, time \in 0..MaxRun : fnReturns(outcome, time)
  \/ \E time \in 0..MaxLate : getDelay(time)
  \/ \E time \in 0..MaxLate : ~AtBound /\ timerFires(time)
  \/ Terminated

Spec == Init /\ [][Next]_vars
-----------------------------------------------------------------------------
TypeOK ==
  /\ program \in Programs
  /\ called \in 0..Len(program.calls)
  /\ DOMAIN config = DOMAIN retryBuilder
  /\ config.maxRetries \in Int /\ config.delayFunc \in {"none", "http", "any"}
  /\ \A f \in {"delay", "delayMin", "delayMax", "delayFactor", "maxDelay", "jitter",
               "jitterFactor", "maxDuration"} : config[f] \in Nat
  /\ phase \in {"build", "run", "failed", "delay", "success", "aborted", "exceeded"}
  /\ elapsed \in Nat /\ attempts \in Nat \ {0} /\ failedAttempts \in 0..attempts
  /\ lastDelay \in Nat /\ drawn \in Int /\ computed \in BOOLEAN /\ delay \in Nat
  /\ backoffs \in Nat /\ late \in Nat

(***************************************************************************)
(* maxDuration ends retries: whatever is late, and although time passes    *)
(* between the check of the elapsed time and the computation of the delay, *)
(* at most one attempt begins after it.                                    *)
(***************************************************************************)
OneLateAttempt == late <= 1

\* The delay after n multiplications by the factor, with both roundings of each
\* off as far as they can be.
Grown(sign, n) ==
  LET grow == [d \in Nat |-> min(Off(d * config.delayFactor, sign, 2) \div One, config.maxDelay)]
  IN Iterate(grow, config.delay, n)

(***************************************************************************)
(* Backoff is exponential up to maxDelay, also when the delays of a        *)
(* DelayFunc come between: the n-th backoff delay is the delay multiplied  *)
(* n - 1 times by the factor and cut at maxDelay, within the two roundings *)
(* that float32 makes of each multiplication.  With WithBackoff, whose     *)
(* factor is 2, it is exactly the delay times 2 to the power n - 1 if the  *)
(* delay is a float32.                                                     *)
(***************************************************************************)
BackoffIsExponential ==
  backoffs > 0 =>
    IF config.maxDelay = 0 THEN lastDelay = config.delay
    ELSE LET n == backoffs - 1
         IN /\ Grown(-1, n) <= lastDelay /\ lastDelay <= Grown(1, n)
            /\ n > 0 /\ config.delayFactor = 2 * One /\ float32(config.delay) = config.delay
                 => lastDelay = min(config.delay * Power(2, n), config.maxDelay)
-----------------------------------------------------------------------------
(***************************************************************************)
(* What a use of the builder means: these properties look at the calls,    *)
(* and not at the fields that they set.                                    *)
(***************************************************************************)
CallsOf(ops) == {i \in DOMAIN program.calls : program.calls[i].op \in ops}
LastCall(ops) == program.calls[Max(CallsOf(ops))]
Given(op) == IF CallsOf({op}) = {} THEN 0 ELSE LastCall({op}).d

\* An error and all the errors it wraps, directly or not; Unwrap is two deep.
Deeper(errs) == errs \cup UNION {Unwrap[e] : e \in errs}
Causes(err) == Deeper(Deeper({err}))

\* Whether a call with one of these names says that an outcome is meant.
CallSays(c, errors, types, result, predicate) ==
  \/ c.op = errors /\ c.errs \cap Causes(last.err) # {}
  \/ c.op = types /\ last.err # "nil" /\ \E e \in Causes(last.err) : TypeOf(e) \in c.types
  \/ c.op = result /\ last.result = c.result
  \/ c.op = predicate /\ Predicate(c.name, last.result, last.err)

Says(errors, types, result, predicate) ==
  \E i \in DOMAIN program.calls : CallSays(program.calls[i], errors, types, result, predicate)

\* An error is a failure by default: with no condition, or none that looks at errors.
IsCondition(c) ==
  \/ c.op \in {"HandleResult", "HandleIf"}
  \/ c.op = "HandleErrors" /\ c.errs # {}
  \/ c.op = "HandleErrorTypes" /\ c.types # {}
ErrorsFail ==
  /\ program.builder = "retrypolicy"
  /\ \/ \A i \in DOMAIN program.calls : ~IsCondition(program.calls[i])
     \/ CallsOf({"HandleErrors", "HandleErrorTypes", "HandleIf"}) = {}

SaysFailure ==
  \/ Says("HandleErrors", "HandleErrorTypes", "HandleResult", "HandleIf")
  \/ program.builder # "retrypolicy" /\ Predicate(program.builder, last.result, last.err)
  \/ ErrorsFail /\ last.err # "nil"
SaysAbort ==
  \/ Says("AbortOnErrors", "AbortOnErrorTypes", "AbortOnResult", "AbortIf")
  \/ program.builder = "http" /\ "canceled" \in Causes(last.err)

(***************************************************************************)
(* An outcome is judged by the conditions of the calls (policy.IsFailure,  *)
(* IsAbortable), in whatever order they came: any condition makes a        *)
(* failure, an error is one by default unless a condition looks at errors, *)
(* which one on results does not, and wrapped and joined errors count.     *)
(* Only such an outcome is retried or reported as exceeded, and not if a   *)
(* condition aborts.  A condition on results counts for an outcome with an *)
(* error too, which is not what FailurePolicyBuilder documents.            *)
(***************************************************************************)
JudgedAsConfigured ==
  /\ phase = "success" => ~SaysFailure
  /\ phase \in {"failed", "delay", "aborted", "exceeded"} => SaysFailure
  /\ phase \in {"failed", "delay"} => ~SaysAbort
  /\ phase = "aborted" => SaysAbort

\* The calls that still count: of WithBackoff and WithRandomDelay, the last one clears the other.
Growing == {i \in CallsOf({"WithBackoffFactor"}) : \A j \in CallsOf({"WithRandomDelay"}) : j < i}
Random == {i \in CallsOf({"WithRandomDelay"}) : \A j \in CallsOf({"WithBackoffFactor"}) : j < i}
DelaySetters == {"WithDelay", "WithBackoffFactor", "WithRandomDelay"}

\* The delays that the calls allow, before jitter and maxDuration.
DelayRange ==
  LET by == LastCall(DelaySetters)
      range == program.calls[Max(Random)]
      limit == program.calls[Max(Growing)].max
  IN CASE CallsOf(DelaySetters) = {} -> {0}
       [] Random # {} /\ (by.op = "WithRandomDelay" \/ by.d = 0) ->
            min(range.min, range.max)..max(range.min, range.max)
       [] OTHER -> IF Growing = {} THEN {by.d} ELSE 0..max(by.d, limit)

\* How far jitter may move a delay; a jitter goes before a factor, which takes
\* three roundings: of the delay, of the random factor and of their product.
Moved(d, sign) ==
  CASE Given("WithJitter") # 0 -> d + sign * Given("WithJitter")
    [] Given("WithJitter") = 0 /\ Given("WithJitterFactor") # 0 ->
         Off(d * (One + sign * Given("WithJitterFactor")), sign, 3) \div One
    [] OTHER -> d

(***************************************************************************)
(* The last call that sets a delay decides, through everything the calls   *)
(* before it left behind: a random delay is in its range, a backoff delay  *)
(* not above its limit, a fixed delay is that delay unless an earlier      *)
(* WithBackoff still makes it grow, and no delay is still a random one     *)
(* after WithRandomDelay.  The last WithJitter or WithJitterFactor moves a *)
(* delay by no more than it says, apart from the rounding, maxDuration     *)
(* only shortens it, and jitter does nothing without a delay.  After both, *)
(* WithJitter is the one that counts, also if it came first, which is not  *)
(* what RetryPolicyBuilder documents.                                      *)
(***************************************************************************)
DelayAsConfigured ==
  phase = "delay" =>
    /\ computed \/ drawn \in DelayRange
    /\ drawn > 0 => delay <= Moved(drawn, 1)
    /\ drawn > 0 /\ Given("WithMaxDuration") = 0 => delay >= Moved(drawn, -1)
    /\ drawn = 0 => delay = 0

\* The attempts that the calls allow; 0 is no limit.
LimitOps == {"WithMaxAttempts", "WithMaxRetries"}
LimitOf(c) == IF c.n = -1 THEN 0 ELSE IF c.op = "WithMaxAttempts" THEN c.n ELSE c.n + 1
Limit == IF CallsOf(LimitOps) = {} THEN 3 ELSE LimitOf(LastCall(LimitOps))

(***************************************************************************)
(* The last of WithMaxAttempts and WithMaxRetries limits the attempts,     *)
(* unless it is -1 or WithMaxAttempts(0), and an ExceededError means that  *)
(* all of them were used or that maxDuration has passed.                   *)
(***************************************************************************)
AttemptsAsConfigured ==
  /\ Limit # 0 => attempts <= max(Limit, 1)
  /\ phase = "exceeded" =>
       \/ Limit # 0 /\ attempts = max(Limit, 1)
       \/ Given("WithMaxDuration") # 0 /\ elapsed > Given("WithMaxDuration")
=============================================================================
