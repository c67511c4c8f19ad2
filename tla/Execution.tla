----------------------------- MODULE Execution -----------------------------
(***************************************************************************)
(* One execution going through a composition of policies (executor.go,     *)
(* execution.go, result.go, policy/policyexecutor.go and the executors of  *)
(* retrypolicy, timeout, fallback and cachepolicy).                        *)
(*                                                                         *)
(* policies[1] is the outermost policy; the function that policies compose *)
(* is walked level by level: "call" is a policy about to be applied,       *)
(* "return" a policy whose inner function has returned `result`.  Level    *)
(* Len(policies) + 1 is the user's function and level 0 the executor.      *)
(* Concurrently, timers fire, the caller's context is canceled and the     *)
(* asynchronous result is canceled, and other executions fill the cache.   *)
(* A step is a region under the execution's mutex, an atomic operation, a  *)
(* call of the cache, or code that touches nothing shared.                 *)
(***************************************************************************)
EXTENDS Integers, Sequences, FiniteSetsExt, Functions, PolicyResult

CONSTANTS Stacks,      \* the compositions the execution is checked with
          Cancelers,   \* who may cancel: "Cancel" (ExecutionResult.Cancel), "context"
          Panics,      \* whether the user's function may panic
          MaxAttempts  \* bound: attempts of one execution

\* The policies of a composition, outermost first.
RetryPolicy(maxRetries, maxDuration, returnLastFailure) ==
  [kind |-> "retry", maxRetries |-> maxRetries, maxDuration |-> maxDuration,
   returnLastFailure |-> returnLastFailure]
Timeout == [kind |-> "timeout"]
Fallback == [kind |-> "fallback"]
CircuitBreaker == [kind |-> "breaker"]

(***************************************************************************)
(* A CachePolicy with its key, the value the caller's context has for      *)
(* CacheKey ("none": no string), and the errors of the results that its    *)
(* CacheIf conditions accept; no conditions accept nothing.                *)
(***************************************************************************)
CachePolicy(key, contextKey, cacheIf) ==
  [kind |-> "cache", key |-> key, contextKey |-> contextKey, cacheIf |-> cacheIf]

RetryType == [kind : {"retry"}, maxRetries : Nat \cup {-1}, maxDuration : BOOLEAN,
              returnLastFailure : BOOLEAN]
CacheType == [kind : {"cache"}, key : STRING, contextKey : STRING, cacheIf : SUBSET STRING]
PolicyType == RetryType \cup CacheType \cup {Timeout, Fallback, CircuitBreaker}

ASSUME ExecutionAssumption ==
  /\ Stacks \subseteq Seq(PolicyType)
  /\ Cancelers \subseteq {"Cancel", "context"}
  /\ Panics \in BOOLEAN
  /\ MaxAttempts \in Nat

VARIABLES policies,         \* constant: the executor's policies
          level, phase,     \* where the execution's goroutine is
          result,           \* the PolicyResult that is being returned
          exec,             \* the context of the execution passed to each level
          ctxs,             \* the contexts, with the Timeout invocation that made each
          canceledResult,   \* *execution.canceledResult, shared by every copy
          attempts, retries, executions,
          failedAttempts, retriesExceeded,  \* of the retry executor at each level
          canceling,        \* ExecutionResult.Cancel: no, marked, yes
          cache             \* the user's cache: what each key holds

retryState == <<failedAttempts, retriesExceeded>>
counters == <<attempts, retries, executions>>
shared == <<ctxs, canceledResult, counters>>
vars == <<policies, level, phase, result, exec, shared, retryState, canceling, cache>>

\* The default IsFailure, and that of a Timeout: errors.Is looks through an ExceededError.
IsFailure(p, r) == IF p.kind = "timeout" THEN r.err = "timeout" ELSE r.err # "none"

\* BaseExecutor.PostExecute with BaseExecutor.OnFailure
PostExecute(p, r) == IF IsFailure(p, r) THEN WithFailure(r) ELSE WithDone(r, TRUE, TRUE)
-----------------------------------------------------------------------------
canceled(c) == ctxs[c].done # "no"

\* Whether the mutex of the execution is free: InitializeRetry holds it over two steps.
Unlocked == phase # "retry"

\* execution.isCanceledWithResult, for a canceled execution
cancelResult == IF canceledResult = Nil THEN FailureResult("context") ELSE canceledResult

\* Canceling a context cancels the contexts derived from it; done is the first cause.
Canceled(c, cause) ==
  [d \in DOMAIN ctxs |-> IF c \in ctxs[d].under /\ ~canceled(d)
                         THEN [ctxs[d] EXCEPT !.done = cause] ELSE ctxs[d]]

\* The key of the context, even an empty one, goes before that of the policy.
getCacheKey(p) == IF p.contextKey = "none" THEN p.key ELSE p.contextKey

CacheKeys == {getCacheKey(policies[l]) : l \in {m \in DOMAIN policies : policies[m].kind = "cache"}} \ {""}

\* newExecution
Init ==
  /\ policies \in Stacks
  /\ level = 1 /\ phase = "call"
  /\ result = Nil
  /\ exec = [l \in 1..(Len(policies) + 1) |-> 1]
  /\ ctxs = <<[under |-> {1}, done |-> "no", timer |-> "none"]>>
  /\ canceledResult = Nil
  /\ attempts = 1 /\ retries = 0 /\ executions = 0
  /\ failedAttempts = [l \in DOMAIN policies |-> 0]
  /\ retriesExceeded = [l \in DOMAIN policies |-> FALSE]
  /\ canceling = "no"
  /\ cache = [k \in CacheKeys |-> "absent"]

policy == policies[level]

At(where, kind) == phase = where /\ level \in DOMAIN policies /\ policy.kind = kind

callInner(c) ==
  /\ level' = level + 1
  /\ exec' = [exec EXCEPT ![level + 1] = c]
  /\ UNCHANGED <<phase, result>>

return(r) ==
  /\ level' = level - 1 /\ phase' = "return" /\ result' = r
  /\ UNCHANGED exec

\* The loop or the handler goes on at the same level.
goOn(next, r) ==
  /\ phase' = next /\ result' = r
  /\ UNCHANGED <<level, exec>>
-----------------------------------------------------------------------------
\* outerFn: the user's function returns.
fnReturns(err) ==
  /\ phase = "call" /\ level = Len(policies) + 1
  /\ executions' = executions + 1
  /\ return(FnResult(err))
  /\ UNCHANGED <<policies, ctxs, canceledResult, attempts, retries, retryState, canceling, cache>>

\* A panic of the user's function unwinds through every policy.
fnPanics ==
  /\ Panics /\ phase = "call" /\ level = Len(policies) + 1
  /\ goOn("panicked", result)
  /\ UNCHANGED <<policies, shared, retryState, canceling, cache>>

\* executor.execute after outerFn, and executionResult.record
record ==
  /\ phase = "return" /\ level = 0
  /\ goOn("done", result)
  /\ UNCHANGED <<policies, shared, retryState, canceling, cache>>
-----------------------------------------------------------------------------
\* A policy that does nothing before its inner function.
callThrough ==
  /\ At("call", "retry") \/ At("call", "fallback")
  /\ callInner(exec[level])
  /\ UNCHANGED <<policies, shared, retryState, canceling, cache>>

(***************************************************************************)
(* A policy that may refuse to execute: BaseExecutor.Apply, with the       *)
(* PreExecute of a circuit breaker that is open or not.                    *)
(***************************************************************************)
callBreaker ==
  /\ At("call", "breaker")
  /\ callInner(exec[level]) \/ return(FailureResult("open"))
  /\ UNCHANGED <<policies, shared, retryState, canceling, cache>>

breakerReturns ==
  /\ At("return", "breaker")
  /\ return(PostExecute(policy, result))
  /\ UNCHANGED <<policies, shared, retryState, canceling, cache>>
-----------------------------------------------------------------------------
(***************************************************************************)
(* PreExecute of a CachePolicy: a hit is returned without PostExecute.     *)
(* What a cache holds is told apart by the error of the result it is from: *)
(* only the result is stored, so a hit has no error.                       *)
(***************************************************************************)
callCache ==
  /\ At("call", "cache")
  /\ LET hit == getCacheKey(policy) # "" /\ cache[getCacheKey(policy)] # "absent"
     IN \/ hit /\ return(FnResult("none"))
        \/ ~hit /\ callInner(exec[level])
  /\ UNCHANGED <<policies, shared, retryState, canceling, cache>>

shouldCache(p, err) == (p.cacheIf = {} /\ err = "none") \/ err \in p.cacheIf

\* Mutated cacheReturns: the result is stored under the key of the policy.
cacheReturnsPolicyKey ==
  /\ At("return", "cache")
  /\ return(result)
  /\ cache' = IF shouldCache(policy, result.err) /\ policy.key \in DOMAIN cache
              THEN [cache EXCEPT ![policy.key] = result.err] ELSE cache
  /\ UNCHANGED <<policies, shared, retryState, canceling>>

\* PostExecute of a CachePolicy leaves the result as it is.
cacheReturns ==
  /\ At("return", "cache")
  /\ return(result)
  /\ cache' = IF shouldCache(policy, result.err) /\ getCacheKey(policy) # ""
              THEN [cache EXCEPT ![getCacheKey(policy)] = result.err] ELSE cache
  /\ UNCHANGED <<policies, shared, retryState, canceling>>

\* Another execution with the same policy stores its result.
otherStores(l, err) ==
  /\ policies[l].kind = "cache" /\ getCacheKey(policies[l]) # "" /\ shouldCache(policies[l], err)
  /\ cache' = [cache EXCEPT ![getCacheKey(policies[l])] = err]
  /\ UNCHANGED <<policies, level, phase, result, exec, shared, retryState, canceling>>
-----------------------------------------------------------------------------
\* Timeout: CopyForCancellable and time.AfterFunc
callTimeout ==
  /\ At("call", "timeout")
  /\ LET parent == ctxs[exec[level]]
         c == Len(ctxs) + 1
     IN /\ ctxs' = Append(ctxs, [under |-> parent.under \cup {c}, done |-> parent.done,
                                 timer |-> "armed"])
        /\ callInner(c)
  /\ UNCHANGED <<policies, canceledResult, counters, retryState, canceling, cache>>

\* Mutated timeoutReturns: the inner result is stored over the timer's.
timeoutReturnsOverwrites ==
  /\ At("return", "timeout")
  /\ LET c == exec[level + 1]
     IN /\ return(PostExecute(policy, result))
        /\ ctxs' = IF ctxs[c].timer = "armed" THEN [ctxs EXCEPT ![c].timer = "stopped"] ELSE ctxs
  /\ UNCHANGED <<policies, canceledResult, counters, retryState, canceling, cache>>

(***************************************************************************)
(* The inner function of a Timeout returns: the CompareAndSwap decides     *)
(* between its result and the timer's.  The timer field of the context is  *)
(* the cell they race for: "armed" is an empty cell.                       *)
(***************************************************************************)
timeoutReturns ==
  /\ At("return", "timeout")
  /\ LET c == exec[level + 1]
     IN IF ctxs[c].timer = "armed"
        THEN /\ ctxs' = [ctxs EXCEPT ![c].timer = "stopped"]
             /\ return(PostExecute(policy, result))
        ELSE /\ return(PostExecute(policy, FailureResult("timeout")))
             /\ UNCHANGED ctxs
  /\ UNCHANGED <<policies, canceledResult, counters, retryState, canceling, cache>>

\* The callback of time.AfterFunc up to its listener ...
timerFires(c) ==
  /\ ctxs[c].timer = "armed"
  /\ ctxs' = [ctxs EXCEPT ![c].timer = "won"]
  /\ UNCHANGED <<policies, level, phase, result, exec, canceledResult, counters, retryState, canceling, cache>>

\* Mutated timerCancels: the execution the Timeout was given is canceled, not its copy.
timerCancelsParent(c) ==
  /\ ctxs[c].timer = "won" /\ Unlocked
  /\ ctxs' = [Canceled(Max(ctxs[c].under \ {c}), "timeout") EXCEPT ![c].timer = "fired"]
  /\ UNCHANGED <<policies, level, phase, result, exec, canceledResult, counters, retryState, canceling, cache>>

\* ... and after it: execution.Cancel(timeoutResult), under the mutex
timerCancels(c) ==
  /\ ctxs[c].timer = "won" /\ Unlocked
  /\ ctxs' = [Canceled(c, "timeout") EXCEPT ![c].timer = "fired"]
  /\ canceledResult' = IF canceled(c) THEN canceledResult ELSE FailureResult("timeout")
  /\ UNCHANGED <<policies, level, phase, result, exec, counters, retryState, canceling, cache>>
-----------------------------------------------------------------------------
Abortable(r) == r.err = "abort"

\* Mutated maxRetriesExceeded: the test for no limit is the wrong way round.
maxRetriesExceededInverted(p, failed) == p.maxRetries = -1 /\ failed > p.maxRetries

maxRetriesExceeded(p, failed) == p.maxRetries # -1 /\ failed > p.maxRetries

allowsRetries(p) == p.maxRetries = -1 \/ p.maxRetries > 0

(***************************************************************************)
(* executor.OnFailure of a RetryPolicy; overdue is whether maxDuration has *)
(* elapsed.                                                                *)
(***************************************************************************)
OnFailure(r, overdue) ==
  LET failed == failedAttempts[level] + 1
      exceeded == maxRetriesExceeded(policy, failed) \/ overdue
      shouldRetry == ~Abortable(r) /\ ~exceeded /\ allowsRetries(policy)
  IN /\ failedAttempts' = [failedAttempts EXCEPT ![level] = failed]
     /\ retriesExceeded' = [retriesExceeded EXCEPT ![level] = exceeded]
     /\ IF exceeded /\ ~policy.returnLastFailure
        THEN return([FailureResult(r.err) EXCEPT !.exceeded = TRUE])
        ELSE IF shouldRetry THEN goOn("record", WithDone(r, FALSE, FALSE))
        ELSE return(WithDone(r, TRUE, FALSE))

\* Mutated retryReturns: an executor whose retries are exceeded counts again.
retryReturnsForgetsExceeded ==
  /\ At("return", "retry")
  /\ \/ canceled(exec[level]) /\ return(cancelResult) /\ UNCHANGED retryState
     \/ /\ ~canceled(exec[level]) /\ retriesExceeded[level] /\ IsFailure(policy, result)
        /\ retriesExceeded' = [retriesExceeded EXCEPT ![level] = FALSE]
        /\ failedAttempts' = [failedAttempts EXCEPT ![level] = 1]
        /\ goOn("record", WithDone(WithFailure(result), FALSE, FALSE))
     \/ /\ ~canceled(exec[level]) /\ ~retriesExceeded[level]
        /\ \/ IsFailure(policy, result) /\ OnFailure(WithFailure(result), FALSE)
           \/ ~IsFailure(policy, result) /\ return(WithDone(result, TRUE, TRUE)) /\ UNCHANGED retryState
  /\ UNCHANGED <<policies, shared, canceling, cache>>

\* executor.Apply of a RetryPolicy, from the return of innerFn to PostExecute.
retryReturns ==
  /\ At("return", "retry")
  /\ \/ canceled(exec[level]) /\ return(cancelResult) /\ UNCHANGED retryState
     \/ ~canceled(exec[level]) /\ retriesExceeded[level] /\ return(result) /\ UNCHANGED retryState
     \/ /\ ~canceled(exec[level]) /\ ~retriesExceeded[level]
        /\ \/ /\ IsFailure(policy, result)
              /\ \E overdue \in {FALSE, policy.maxDuration} : OnFailure(WithFailure(result), overdue)
           \/ /\ ~IsFailure(policy, result)
              /\ return(WithDone(result, TRUE, TRUE)) /\ UNCHANGED retryState
  /\ UNCHANGED <<policies, shared, canceling, cache>>

\* execution.RecordResult; the recorded result is only shown to listeners.
RecordResult ==
  /\ phase = "record"
  /\ \/ canceled(exec[level]) /\ return(cancelResult)
     \/ ~canceled(exec[level]) /\ goOn("delay", result)
  /\ UNCHANGED <<policies, shared, retryState, canceling, cache>>

\* Mutated InitializeRetry: a canceled execution is retried.
InitializeRetryUnchecked ==
  /\ phase = "delay" /\ attempts < MaxAttempts
  /\ goOn("retry", result)
  /\ UNCHANGED <<policies, shared, retryState, canceling, cache>>

(***************************************************************************)
(* The end of the delay, or its interruption, and the check at the         *)
(* beginning of execution.InitializeRetry.  The mutex is then held, which  *)
(* keeps Cancel out but not the end of a context.                          *)
(***************************************************************************)
InitializeRetry ==
  /\ phase = "delay"
  /\ \/ canceled(exec[level]) /\ return(cancelResult)
     \/ ~canceled(exec[level]) /\ attempts < MaxAttempts /\ goOn("retry", result)
  /\ UNCHANGED <<policies, shared, retryState, canceling, cache>>

\* The rest of InitializeRetry, which the loop follows by calling innerFn again.
beginRetry ==
  /\ phase = "retry"
  /\ attempts' = attempts + 1 /\ retries' = retries + 1
  /\ canceledResult' = Nil
  /\ level' = level + 1 /\ phase' = "call"
  /\ UNCHANGED <<policies, result, exec, ctxs, executions, retryState, canceling, cache>>
-----------------------------------------------------------------------------
\* executor.Apply of a Fallback, up to the call of the fallback function ...
fallbackReturns ==
  /\ At("return", "fallback")
  /\ LET r == PostExecute(policy, result)
     IN \/ r.success /\ return(r)
        \/ ~r.success /\ canceled(exec[level]) /\ return(cancelResult)
        \/ ~r.success /\ ~canceled(exec[level]) /\ goOn("fallback", r)
  /\ UNCHANGED <<policies, shared, retryState, canceling, cache>>

\* ... and after it.
fallbackFnReturns(err) ==
  /\ phase = "fallback"
  /\ \/ canceled(exec[level]) /\ return(cancelResult)
     \/ /\ ~canceled(exec[level])
        /\ return(IF IsFailure(policy, FnResult(err)) THEN FailureResult(err) ELSE FnResult(err))
  /\ UNCHANGED <<policies, shared, retryState, canceling, cache>>
-----------------------------------------------------------------------------
goroutine == <<policies, level, phase, result, exec, counters, retryState, cache>>

\* ExecutionResult.Cancel: execution.Cancel on the execution itself, which has
\* no cancelFunc, ...
CancelMarks ==
  /\ "Cancel" \in Cancelers /\ canceling = "no" /\ Unlocked
  /\ canceling' = "marked"
  /\ canceledResult' = IF canceled(1) THEN canceledResult ELSE FailureResult("canceled")
  /\ UNCHANGED <<goroutine, ctxs>>

\* ... and then the cancelFunc of its context.
CancelPropagates ==
  /\ canceling = "marked"
  /\ canceling' = "yes"
  /\ ctxs' = Canceled(1, "Cancel")
  /\ UNCHANGED <<goroutine, canceledResult>>

\* The caller's context is canceled, or its deadline passes.
contextDone ==
  /\ "context" \in Cancelers /\ ~canceled(1)
  /\ ctxs' = Canceled(1, "context")
  /\ UNCHANGED <<goroutine, canceledResult, canceling>>

Ended == phase \in {"done", "panicked"}

\* Nothing is left to happen once the goroutine has ended.
Terminated == Ended /\ UNCHANGED vars

FnErrors == {"none", "fail", "abort"}

Step ==
  \/ (\E err \in FnErrors : fnReturns(err)) \/ fnPanics \/ record
  \/ callThrough \/ callBreaker \/ breakerReturns
  \/ callCache \/ cacheReturns
  \/ callTimeout \/ timeoutReturns
  \/ retryReturns \/ RecordResult \/ InitializeRetry \/ beginRetry
  \/ fallbackReturns \/ \E err \in {"none", "fail"} : fallbackFnReturns(err)

Next ==
  \/ Step
  \/ \E c \in DOMAIN ctxs : timerFires(c) \/ timerCancels(c)
  \/ \E l \in DOMAIN policies, err \in FnErrors : ~Ended /\ otherStores(l, err)
  \/ CancelMarks \/ CancelPropagates \/ contextDone
  \/ Terminated

Spec == Init /\ [][Next]_vars

(***************************************************************************)
(* The goroutine runs and the functions it calls return; a timer that has  *)
(* fired runs to its end.  No timer has to fire, nobody has to cancel.     *)
(***************************************************************************)
FairSpec ==
  /\ Spec
  /\ WF_vars(Step)
  /\ \A c \in 1..(MaxAttempts * 2 + 1) : WF_vars(c \in DOMAIN ctxs /\ timerCancels(c))
  /\ WF_vars(CancelPropagates)
-----------------------------------------------------------------------------
ResultType == ResultsOf(FnErrors \cup {"nil", "timeout", "canceled", "context", "open"})

TypeOK ==
  /\ policies \in Stacks
  /\ level \in 0..(Len(policies) + 1)
  /\ phase \in {"call", "return", "record", "delay", "retry", "fallback", "done", "panicked"}
  /\ result \in ResultType /\ canceledResult \in ResultType
  /\ \A c \in DOMAIN ctxs :
       /\ c \in ctxs[c].under /\ ctxs[c].under \subseteq DOMAIN ctxs
       /\ ctxs[c].done \in {"no", "Cancel", "context", "timeout"}
       /\ ctxs[c].timer \in {"none", "armed", "stopped", "won", "fired"}
  /\ exec \in [1..(Len(policies) + 1) -> DOMAIN ctxs]
  /\ attempts \in Nat /\ retries \in Nat /\ executions \in Nat
  /\ failedAttempts \in [DOMAIN policies -> Nat]
  /\ retriesExceeded \in [DOMAIN policies -> BOOLEAN]
  /\ canceling \in {"no", "marked", "yes"}
  /\ cache \in [CacheKeys -> {"absent"} \cup {r.err : r \in ResultType}]

Uses(kind) == \E l \in DOMAIN policies : policies[l].kind = kind
RetryLevels == {l \in DOMAIN policies : policies[l].kind = "retry"}
TimedOut(c) == ctxs[c].timer \in {"won", "fired"}

(***************************************************************************)
(* The limits on retries are exact although executors are called again,    *)
(* and timers and cancellations race with them.  Composed retry policies   *)
(* do not multiply: their executors keep failedAttempts and                *)
(* retriesExceeded for the whole execution, so its retries are at most the *)
(* sum of their maxRetries.  An ExceededError of a single RetryPolicy      *)
(* without maxDuration means that the function has run once and then       *)
(* maxRetries times, if no breaker or cache answers in its place.          *)
(***************************************************************************)
RetriesBounded ==
  /\ (\A l \in RetryLevels : policies[l].maxRetries # -1) =>
       retries <= SumFunctionOnSet([l \in RetryLevels |-> policies[l].maxRetries], RetryLevels)
  /\ phase = "done" /\ result.exceeded /\ ~Uses("breaker") /\ ~Uses("cache")
       => \A l \in RetryLevels :
            Cardinality(RetryLevels) = 1 /\ ~policies[l].maxDuration
              => executions = policies[l].maxRetries + 1

(***************************************************************************)
(* The error an execution ends with has a cause: ErrExceeded that some     *)
(* Timeout lost its race, ErrExecutionCanceled that Cancel was called, and *)
(* a context error that the execution's own context, not only that of an   *)
(* attempt, is done.                                                       *)
(***************************************************************************)
ErrorHasCause ==
  Ended =>
    /\ result.err = "timeout" => \E c \in DOMAIN ctxs : TimedOut(c)
    /\ result.err = "canceled" => canceling # "no"
    /\ result.err = "context" => canceled(1)

(***************************************************************************)
(* Exactly one side wins a Timeout: when the outermost policy is a Timeout *)
(* the execution ends with ErrExceeded if the timer won, and with the      *)
(* result of its inner function if not; once it has ended no timer is      *)
(* armed.                                                                  *)
(***************************************************************************)
OneSideWins ==
  phase = "done" =>
    /\ \A c \in DOMAIN ctxs : ctxs[c].timer # "armed"
    /\ policies # <<>> /\ policies[1] = Timeout /\ TimedOut(2) => result.err = "timeout"
    /\ policies = <<Timeout>> /\ result.err = "timeout" => TimedOut(2)

(***************************************************************************)
(* Only the time limit of a Timeout at or above an attempt cancels it: a   *)
(* Timeout whose inner function returned first never cancels a context,    *)
(* and an attempt's Timeout does not reach the context of another attempt  *)
(* or of the whole execution.                                              *)
(***************************************************************************)
CanceledFromAbove ==
  \A c \in DOMAIN ctxs :
    ctxs[c].done = "timeout" => \E d \in ctxs[c].under : ctxs[d].timer = "fired"

(***************************************************************************)
(* A canceled execution is not retried: once the execution's own context   *)
(* is done no attempt begins and none is prepared, wherever the goroutine  *)
(* was at that moment, in whichever policy and under whichever Timeout.    *)
(* The exception is an attempt for which InitializeRetry had looked at the *)
(* context before: it begins, and is the last one.                         *)
(***************************************************************************)
NoRetryOnceCanceled ==
  [][canceled(1) /\ phase # "retry" => attempts' = attempts /\ phase' # "retry"]_vars

(***************************************************************************)
(* OnSuccess is called exactly for the executions that end well: a result  *)
(* is SuccessAll when it has no error, or when no policy judges errors,    *)
(* only Timeouts and caches, and the error is not a timeout.               *)
(***************************************************************************)
SuccessAllIsSuccess ==
  phase = "done" =>
    (result.successAll <=> \/ result.err = "none"
                           \/ /\ \A l \in DOMAIN policies : policies[l].kind \in {"timeout", "cache"}
                              /\ result.err # "timeout")

(***************************************************************************)
(* An execution that ends well leaves its result for the next one: the     *)
(* cache that its CachePolicy looked at, which has no conditions, holds a  *)
(* result under the key that was looked up, whatever retries, timeouts,    *)
(* cancellations and other executions did between the lookup and the       *)
(* store.  A Fallback or a cache outside may end it well by itself.        *)
(***************************************************************************)
SuccessIsCached ==
  phase = "done" /\ result.err = "none" =>
    \A l \in DOMAIN policies :
      /\ policies[l].kind = "cache" /\ policies[l].cacheIf = {}
      /\ \A m \in 1..(l - 1) : policies[m].kind \notin {"fallback", "cache"}
      => getCacheKey(policies[l]) = "" \/ cache[getCacheKey(policies[l])] # "absent"

(***************************************************************************)
(* An execution whose retries are limited ends, whatever fires and whoever *)
(* cancels, as long as the functions it calls return.                      *)
(***************************************************************************)
Terminates == (\A l \in RetryLevels : policies[l].maxRetries # -1) ~> Ended
-----------------------------------------------------------------------------
(***************************************************************************)
(* What ExecutionResult.Cancel documents: it cancels the execution "with   *)
(* ErrExecutionCanceled as the error".  An execution that ends with the    *)
(* error of a canceled context ends so because the caller's context, not   *)
(* Cancel, was the cause.                                                  *)
(***************************************************************************)
CancelGivesErrExecutionCanceled ==
  phase = "done" /\ result.err = "context" => ctxs[1].done = "context"
=============================================================================
