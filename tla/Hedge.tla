------------------------------- MODULE Hedge -------------------------------
(***************************************************************************)
(* A hedge policy around a function or around a retry policy               *)
(* (hedgepolicy/, and execution.go as hedges use it).                      *)
(*                                                                         *)
(* The goroutine of Apply starts attempts 0, 1, ... with delays between    *)
(* them and waits for one result; every attempt is a goroutine of its own. *)
(* All of them share the execution's counters and canceledResult, and, if  *)
(* the inner policy is a RetryPolicy, the fields of its one executor,      *)
(* which are read and written without a lock.  A step is a region under    *)
(* the execution's mutex, an atomic or channel operation, or one read or   *)
(* write of such a field.                                                  *)
(***************************************************************************)
EXTENDS Integers, FiniteSets, PolicyResult

CONSTANT Policies   \* the hedge policies that are checked

FnErrors == {"none", "fail"}
Errors == FnErrors \cup {"timeout", "canceled", "context"}

(***************************************************************************)
(* A policy: how many hedges, and which results cancel the other attempts. *)
(* Where it is used: around a RetryPolicy with maxRetries, or around the   *)
(* function (NoRetryPolicy), and who may cancel the execution: "Cancel"    *)
(* (ExecutionResult.Cancel), its "context", or a "timeout" around it.      *)
(***************************************************************************)
NoRetryPolicy == -2
Unlimited == -1

BuilderWithDelay ==
  [maxHedges |-> 1, cancelOn |-> {}, maxRetries |-> NoRetryPolicy, cancelers |-> {}]
WithMaxHedges(c, n) == [c EXCEPT !.maxHedges = n]
CancelOn(c, errs) == [c EXCEPT !.cancelOn = @ \cup errs]
Around(c, maxRetries) == [c EXCEPT !.maxRetries = maxRetries]
CanceledBy(c, who) == [c EXCEPT !.cancelers = who]
Build(c) == IF c.cancelOn = {} THEN [c EXCEPT !.cancelOn = Errors] ELSE c

ASSUME HedgeAssumption ==
  \A p \in Policies :
    /\ p.maxHedges \in Nat
    /\ p.cancelOn \subseteq Errors
    /\ p.maxRetries \in Nat \cup {NoRetryPolicy, Unlimited}
    /\ p.cancelers \subseteq {"Cancel", "context", "timeout"}

VARIABLES config,           \* constant: the policy
          pc, started,      \* Apply: where it is, how many attempts it started
          received,         \* Apply: the attempt whose result it has received
          next,             \* Apply: the next execution its last loop looks at
          output,           \* Apply: what it has returned
          at, result,       \* each attempt: where it is, the result it has
          own,              \* each attempt: failedAttempts as it has read it
          resultCount, resultSent, resultChan,
          done,             \* the context of each attempt: no, hedge, parent
          parentDone,       \* the context of the execution: no, or who canceled it
          canceledResult,   \* *execution.canceledResult, shared by every copy
          attempts, retries, hedges, executions,
          failedAttempts, retriesExceeded,   \* of the one retry executor
          canceling         \* ExecutionResult.Cancel: no, marked, yes

apply == <<pc, started, received, next, output>>
goroutines == <<at, result, own>>
sending == <<resultCount, resultSent, resultChan>>
contexts == <<done, parentDone, canceledResult>>
counters == <<attempts, retries, hedges, executions>>
retryState == <<failedAttempts, retriesExceeded>>
vars == <<config, apply, goroutines, sending, contexts, counters, retryState, canceling>>

Attempts == 0..config.maxHedges
None == -1

Init ==
  /\ config \in Policies
  /\ pc = "start" /\ started = 0 /\ received = None /\ next = 0 /\ output = Nil
  /\ at = [i \in Attempts |-> "idle"]
  /\ result = [i \in Attempts |-> Nil]
  /\ own = [i \in Attempts |-> 0]
  /\ resultCount = 0 /\ resultSent = FALSE /\ resultChan = None
  /\ done = [i \in Attempts |-> "no"] /\ parentDone = "no" /\ canceledResult = Nil
  /\ attempts = 1 /\ retries = 0 /\ hedges = 0 /\ executions = 0
  /\ failedAttempts = 0 /\ retriesExceeded = FALSE
  /\ canceling = "no"

\* execution.isCanceledWithResult, for a canceled execution
cancelResult == IF canceledResult = Nil THEN FailureResult("context") ELSE canceledResult

IsAbortable(r) == r.err \in config.cancelOn
-----------------------------------------------------------------------------
\* CopyForHedge counts the attempt ...
addAttempt ==
  /\ pc = "start" /\ started > 0
  /\ attempts' = attempts + 1
  /\ pc' = "adding"
  /\ UNCHANGED <<config, started, received, next, output, goroutines, sending, contexts, retries, hedges,
                 executions, retryState, canceling>>

\* Mutated startAttempt: the attempts before it are canceled.
startAttemptAlone ==
  /\ pc = IF started = 0 THEN "start" ELSE "adding"
  /\ at' = [at EXCEPT ![started] = "run"]
  /\ done' = [i \in Attempts |-> IF parentDone # "no" THEN "parent"
                                 ELSE IF i < started THEN "hedge" ELSE done[i]]
  /\ hedges' = IF started = 0 THEN hedges ELSE hedges + 1
  /\ started' = started + 1
  /\ pc' = "wait"
  /\ UNCHANGED <<config, received, next, output, result, own, sending, parentDone,
                 canceledResult, attempts, retries, executions, retryState, canceling>>

\* ... and the hedge, and gives it a context, as CopyForCancellable does for the first; and go.
startAttempt ==
  /\ pc = IF started = 0 THEN "start" ELSE "adding"
  /\ at' = [at EXCEPT ![started] = "run"]
  /\ done' = [done EXCEPT ![started] = IF parentDone = "no" THEN "no" ELSE "parent"]
  /\ hedges' = IF started = 0 THEN hedges ELSE hedges + 1
  /\ started' = started + 1
  /\ pc' = "wait"
  /\ UNCHANGED <<config, received, next, output, result, own, sending, parentDone,
                 canceledResult, attempts, retries, executions, retryState, canceling>>

\* The hedge delay; after the last attempt Apply only waits for the result.
delayElapses ==
  /\ pc = "wait" /\ started <= config.maxHedges
  /\ pc' = "check"
  /\ UNCHANGED <<config, started, received, next, output, goroutines, sending, contexts,
                 counters, retryState, canceling>>

receiveResult ==
  /\ pc = "wait" /\ resultChan # None
  /\ received' = resultChan /\ resultChan' = None
  /\ pc' = "check"
  /\ UNCHANGED <<config, started, next, output, goroutines, resultCount, resultSent, contexts,
                 counters, retryState, canceling>>

\* IsCanceledWithResult of the parent, and what Apply does with the answer.
checkParent ==
  /\ pc = "check"
  /\ \/ /\ parentDone # "no"
        /\ pc' = "returned" /\ output' = cancelResult
     \/ /\ parentDone = "no"
        /\ pc' = IF received = None THEN "start" ELSE "cancel"
        /\ UNCHANGED output
  /\ UNCHANGED <<config, started, received, next, goroutines, sending, contexts, counters,
                 retryState, canceling>>

\* Mutated cancelOther: only the attempts started before the winner are canceled.
cancelOtherEarlier ==
  /\ pc = "cancel" /\ next < started
  /\ next' = next + 1
  /\ IF next < received /\ done[next] = "no"
     THEN done' = [done EXCEPT ![next] = "hedge"] /\ canceledResult' = Nil
     ELSE UNCHANGED <<done, canceledResult>>
  /\ UNCHANGED <<config, pc, started, received, output, goroutines, sending, parentDone,
                 counters, retryState, canceling>>

\* One round of the loop over executions: execution.Cancel(nil) of a loser.
cancelOther ==
  /\ pc = "cancel" /\ next < started
  /\ next' = next + 1
  /\ IF next # received /\ done[next] = "no"
     THEN done' = [done EXCEPT ![next] = "hedge"] /\ canceledResult' = Nil
     ELSE UNCHANGED <<done, canceledResult>>
  /\ UNCHANGED <<config, pc, started, received, output, goroutines, sending, parentDone,
                 counters, retryState, canceling>>

returnResult ==
  /\ pc = "cancel" /\ next = started
  /\ pc' = "returned" /\ output' = result[received]
  /\ UNCHANGED <<config, started, received, next, goroutines, sending, contexts, counters,
                 retryState, canceling>>
-----------------------------------------------------------------------------
\* Attempt i is at one place and goes to another, with result r.
goTo(i, from, to, r) ==
  /\ at[i] = from
  /\ at' = [at EXCEPT ![i] = to]
  /\ result' = [result EXCEPT ![i] = r]

\* A step of attempt i that only moves it, and one that also uses the retry executor.
onlyGoroutine == UNCHANGED <<config, apply, own, sending, contexts, counters, retryState, canceling>>
onlyRetryState == UNCHANGED <<config, apply, sending, contexts, counters, canceling>>

\* outerFn: the function returns, to the RetryPolicy if there is one.
fnReturns(i, err) ==
  /\ goTo(i, "run", IF config.maxRetries = NoRetryPolicy THEN "return" ELSE "judge", FnResult(err))
  /\ executions' = executions + 1
  /\ UNCHANGED <<config, apply, own, sending, contexts, attempts, retries, hedges, retryState, canceling>>

\* retrypolicy: the execution may be canceled ...
judge(i) ==
  /\ \/ done[i] # "no" /\ goTo(i, "judge", "return", cancelResult)
     \/ done[i] = "no" /\ goTo(i, "judge", "judged", result[i])
  /\ onlyGoroutine

\* ... its retries may be used up, by any attempt, and it may have succeeded.
judged(i) ==
  /\ \/ retriesExceeded /\ goTo(i, "judged", "return", result[i])
     \/ /\ ~retriesExceeded /\ result[i].err = "none"
        /\ goTo(i, "judged", "return", WithDone(result[i], TRUE, TRUE))
     \/ /\ ~retriesExceeded /\ result[i].err # "none"
        /\ goTo(i, "judged", "failed", WithFailure(result[i]))
  /\ onlyGoroutine

\* failedAttempts++ is a read ...
readFailedAttempts(i) ==
  /\ goTo(i, "failed", "counting", result[i])
  /\ own' = [own EXCEPT ![i] = failedAttempts]
  /\ UNCHANGED retryState /\ onlyRetryState

\* ... and a write.
writeFailedAttempts(i) ==
  /\ goTo(i, "counting", "counted", result[i])
  /\ own' = [own EXCEPT ![i] = @ + 1]
  /\ failedAttempts' = own[i] + 1
  /\ UNCHANGED retriesExceeded /\ onlyRetryState

\* Mutated maxRetriesExceeded: one retry too few.
maxRetriesExceededEarly(i) ==
  /\ goTo(i, "counted", "compared", result[i])
  /\ \E failed \in {own[i], failedAttempts} :
       retriesExceeded' = (config.maxRetries # Unlimited /\ failed >= config.maxRetries)
  /\ own' = [own EXCEPT ![i] = 0]
  /\ UNCHANGED failedAttempts /\ onlyRetryState

(***************************************************************************)
(* The comparison with maxRetries may use the value just written or read   *)
(* the field again; own is not used after it.                              *)
(***************************************************************************)
maxRetriesExceeded(i) ==
  /\ goTo(i, "counted", "compared", result[i])
  /\ \E failed \in {own[i], failedAttempts} :
       retriesExceeded' = (config.maxRetries # Unlimited /\ failed > config.maxRetries)
  /\ own' = [own EXCEPT ![i] = 0]
  /\ UNCHANGED failedAttempts /\ onlyRetryState

\* shouldRetry reads retriesExceeded again ...
shouldRetry(i) ==
  LET retry == ~retriesExceeded /\ config.maxRetries # 0
  IN goTo(i, "compared", "decided", WithDone(result[i], ~retry, FALSE)) /\ onlyGoroutine

\* ... and so does the choice of the result, after the listeners.
OnFailure(i) ==
  /\ \/ /\ retriesExceeded
        /\ goTo(i, "decided", "return", [FailureResult(result[i].err) EXCEPT !.exceeded = TRUE])
     \/ /\ ~retriesExceeded
        /\ goTo(i, "decided", IF result[i].done THEN "return" ELSE "record", result[i])
  /\ onlyGoroutine

RecordResult(i) ==
  /\ \/ done[i] # "no" /\ goTo(i, "record", "return", cancelResult)
     \/ done[i] = "no" /\ goTo(i, "record", "delay", result[i])
  /\ onlyGoroutine

InitializeRetry(i) ==
  /\ \/ /\ done[i] # "no" /\ goTo(i, "delay", "return", cancelResult)
        /\ UNCHANGED <<canceledResult, attempts, retries>>
     \/ /\ done[i] = "no" /\ goTo(i, "delay", "run", result[i])
        /\ attempts' = attempts + 1 /\ retries' = retries + 1
        /\ canceledResult' = Nil
  /\ UNCHANGED <<config, apply, own, sending, done, parentDone, hedges, executions, retryState, canceling>>

\* Mutated countResult: the final result is that of the last hedge, without the first attempt.
countResultHedges(i) ==
  LET isFinalResult == resultCount + 1 = config.maxHedges
  IN /\ goTo(i, "return", IF isFinalResult \/ IsAbortable(result[i]) THEN "offer" ELSE "ended", result[i])
     /\ resultCount' = resultCount + 1
     /\ UNCHANGED <<config, apply, own, resultSent, resultChan, contexts, counters, retryState, canceling>>

\* Mutated countResult: both conditions are required.
countResultBoth(i) ==
  LET isFinalResult == resultCount + 1 = config.maxHedges + 1
  IN /\ goTo(i, "return", IF isFinalResult /\ IsAbortable(result[i]) THEN "offer" ELSE "ended", result[i])
     /\ resultCount' = resultCount + 1
     /\ UNCHANGED <<config, apply, own, resultSent, resultChan, contexts, counters, retryState, canceling>>

\* The goroutine of Apply: is this the final result, or one that cancels the others?
countResult(i) ==
  LET isFinalResult == resultCount + 1 = config.maxHedges + 1
  IN /\ goTo(i, "return", IF isFinalResult \/ IsAbortable(result[i]) THEN "offer" ELSE "ended", result[i])
     /\ resultCount' = resultCount + 1
     /\ UNCHANGED <<config, apply, own, resultSent, resultChan, contexts, counters, retryState, canceling>>

\* resultSent.CompareAndSwap(false, true) ...
claim(i) ==
  /\ goTo(i, "offer", IF resultSent THEN "ended" ELSE "send", result[i])
  /\ resultSent' = TRUE
  /\ UNCHANGED <<config, apply, own, resultCount, resultChan, contexts, counters, retryState, canceling>>

\* ... and the send, which needs room in the channel.
send(i) ==
  /\ goTo(i, "send", "ended", result[i])
  /\ resultChan = None /\ resultChan' = i
  /\ UNCHANGED <<config, apply, own, resultCount, resultSent, contexts, counters, retryState, canceling>>
-----------------------------------------------------------------------------
program == <<config, apply, goroutines, sending, counters, retryState>>

\* Mutated cancelParent: the contexts of hedges are not derived from the parent's.
cancelParentFirst(who) ==
  /\ parentDone' = IF parentDone = "no" THEN who ELSE parentDone
  /\ done' = [i \in Attempts |-> IF i = 0 /\ i < started /\ done[i] = "no" THEN "parent" ELSE done[i]]

\* A canceled context cancels those derived from it, as the attempts' contexts are.
cancelParent(who) ==
  /\ parentDone' = IF parentDone = "no" THEN who ELSE parentDone
  /\ done' = [i \in Attempts |-> IF i < started /\ done[i] = "no" THEN "parent" ELSE done[i]]

\* ExecutionResult.Cancel: the result ...
CancelMarks ==
  /\ "Cancel" \in config.cancelers /\ canceling = "no"
  /\ canceling' = "marked"
  /\ canceledResult' = IF parentDone = "no" THEN FailureResult("canceled") ELSE canceledResult
  /\ UNCHANGED <<program, done, parentDone>>

\* ... and the context.
CancelPropagates ==
  /\ canceling = "marked"
  /\ canceling' = "yes"
  /\ cancelParent("Cancel")
  /\ UNCHANGED <<program, canceledResult>>

contextDone ==
  /\ "context" \in config.cancelers /\ parentDone = "no"
  /\ cancelParent("context")
  /\ UNCHANGED <<program, canceledResult, canceling>>

\* The timer of a Timeout around the hedge policy: execution.Cancel(timeoutResult)
timerCancels ==
  /\ "timeout" \in config.cancelers /\ parentDone = "no"
  /\ cancelParent("timeout")
  /\ canceledResult' = FailureResult("timeout")
  /\ UNCHANGED <<program, canceling>>

Apply == addAttempt \/ startAttempt \/ delayElapses \/ receiveResult \/ checkParent \/ cancelOther \/ returnResult

\* What an attempt does by itself once its function has returned.
Continue(i) ==
  \/ judge(i) \/ judged(i)
  \/ readFailedAttempts(i) \/ writeFailedAttempts(i) \/ maxRetriesExceeded(i)
  \/ shouldRetry(i) \/ OnFailure(i) \/ RecordResult(i) \/ InitializeRetry(i)
  \/ countResult(i) \/ claim(i) \/ send(i)

Terminated == pc = "returned" /\ (\A i \in Attempts : at[i] \in {"idle", "ended"}) /\ UNCHANGED vars

Next ==
  \/ Apply
  \/ \E i \in Attempts : Continue(i) \/ \E err \in FnErrors : fnReturns(i, err)
  \/ CancelMarks \/ CancelPropagates \/ contextDone \/ timerCancels
  \/ Terminated

Spec == Init /\ [][Next]_vars

(***************************************************************************)
(* The goroutines run and the hedge delays pass.  A function has to return *)
(* only when its context is done, and nobody has to cancel.                *)
(***************************************************************************)
FairSpec ==
  /\ Spec
  /\ WF_vars(Apply)
  /\ WF_vars(\E i \in Attempts : Continue(i))
  /\ WF_vars(\E i \in Attempts, err \in FnErrors : done[i] # "no" /\ fnReturns(i, err))
-----------------------------------------------------------------------------
Running == {"run", "judge", "judged", "failed", "counting", "counted", "compared", "decided",
            "record", "delay"}
Returned == {"return", "offer", "send", "ended"}

TypeOK ==
  /\ config \in Policies
  /\ pc \in {"start", "adding", "wait", "check", "cancel", "returned"}
  /\ started \in 0..(config.maxHedges + 1) /\ next \in 0..started
  /\ received \in Attempts \cup {None} /\ resultChan \in Attempts \cup {None}
  /\ output \in ResultsOf(Errors \cup {"nil"}) /\ canceledResult \in ResultsOf(Errors \cup {"nil"})
  /\ at \in [Attempts -> Running \cup Returned \cup {"idle"}]
  /\ result \in [Attempts -> ResultsOf(Errors \cup {"nil"})]
  /\ own \in [Attempts -> Nat]
  /\ resultCount \in Nat /\ resultSent \in BOOLEAN
  /\ done \in [Attempts -> {"no", "hedge", "parent"}]
  /\ parentDone \in {"no", "Cancel", "context", "timeout"}
  /\ attempts \in Nat /\ retries \in Nat /\ hedges \in Nat /\ executions \in Nat
  /\ failedAttempts \in Nat /\ retriesExceeded \in BOOLEAN
  /\ canceling \in {"no", "marked", "yes"}

(***************************************************************************)
(* The result Apply received comes from one attempt that has returned it,  *)
(* and is one that cancels the others or the last of maxHedges + 1; no     *)
(* other attempt has its result on the way.                                *)
(***************************************************************************)
OneResult ==
  /\ received # None =>
       /\ at[received] = "ended" /\ resultChan = None
       /\ \/ IsAbortable(result[received])
          \/ \A i \in Attempts : at[i] \in Returned
  /\ Cardinality({i \in Attempts : at[i] = "send" \/ i \in {resultChan, received}}) <= 1

(***************************************************************************)
(* No attempt is left behind: when Apply has returned, an attempt that is  *)
(* not the winner has returned too or its context is done, also when Apply *)
(* returned because the parent was canceled; and the context of the winner *)
(* is not one the hedge policy canceled.                                   *)
(***************************************************************************)
LosersCanceled ==
  pc = "returned" =>
    \A i \in Attempts :
      /\ i # received => at[i] \in Returned \cup {"idle"} \/ done[i] # "no"
      /\ i = received => done[i] # "hedge"

(***************************************************************************)
(* A cancellation inside never gets out: canceling the losers, and the     *)
(* results they then return, do not become the result of Apply.  A context *)
(* error means that the execution's own context is done, ErrExceeded that  *)
(* the Timeout outside fired, ErrExecutionCanceled that Cancel was called. *)
(***************************************************************************)
OutputHasCause ==
  pc = "returned" =>
    /\ output.err = "context" => parentDone # "no"
    /\ output.err = "timeout" => parentDone = "timeout"
    /\ output.err = "canceled" => canceling # "no"

(***************************************************************************)
(* However attempts race on failedAttempts and retriesExceeded, an         *)
(* ExceededError is never early: the function has run more than maxRetries *)
(* times.                                                                  *)
(***************************************************************************)
ExceededNeverEarly ==
  \A i \in Attempts : result[i].exceeded =>
    config.maxRetries \in Nat /\ executions > config.maxRetries

\* A canceled execution ends although Apply's last wait only watches for the
\* result: the attempts it waits for are canceled too.
CancelEndsApply == parentDone # "no" ~> pc = "returned"

\* An attempt that returns a result which cancels the others ends Apply,
\* although no other function has to return.
AcceptedEndsApply ==
  (\E i \in Attempts : at[i] = "return" /\ IsAbortable(result[i])) ~> pc = "returned"

\* When Apply has returned, every goroutine it started ends.
GoroutinesEnd == pc = "returned" ~> \A i \in Attempts : at[i] \in {"idle", "ended"}
=============================================================================
