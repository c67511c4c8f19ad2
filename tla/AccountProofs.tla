--------------------------- MODULE AccountProofs ---------------------------
(***************************************************************************)
(* For Execution and every set of compositions: an account of what the     *)
(* policies have made of the results and how often each retry executor has *)
(* failed, kept through every interleaving.  It shows when an execution is *)
(* a success for all its policies and how often it is retried.             *)
(***************************************************************************)
EXTENDS Execution, SumTheorems, TLAPS

\* Where the goroutine may be: the loops and handlers are inside a policy.
Control ==
  /\ policies \in Stacks
  /\ level \in 0..(Len(policies) + 1)
  /\ phase \in {"record", "delay", "retry", "fallback"} => level \in DOMAIN policies

LEMMA Policies ==
  ASSUME Control
  PROVE  policies \in Seq(PolicyType) /\ DOMAIN policies = 1..Len(policies) /\ Len(policies) \in Nat
<1>1. policies \in Seq(PolicyType)
  BY ExecutionAssumption DEF Control
<1> QED BY <1>1

LEMMA ControlKept == ASSUME Control, [Next]_vars PROVE Control'
<1>1. DOMAIN policies = 1..Len(policies) /\ Len(policies) \in Nat
  BY Policies
<1>2. ASSUME NEW r, return(r), level \in 1..(Len(policies) + 1), policies' = policies PROVE Control'
  BY <1>1, <1>2 DEF Control, return
<1>3. ASSUME policies' = policies, level \in DOMAIN policies, level' = level + 1, phase' = "call"
      PROVE  Control'
  BY <1>1, <1>3 DEF Control
<1>4. ASSUME NEW next, NEW r, goOn(next, r), policies' = policies,
             level \in DOMAIN policies \/ next \notin {"record", "delay", "retry", "fallback"}
      PROVE  Control'
  BY <1>4 DEF Control, goOn
<1>5. level \in DOMAIN policies => level \in 1..(Len(policies) + 1)
  BY <1>1
<1>6. CASE (\E err \in FnErrors : fnReturns(err)) \/ fnPanics \/ record
  <2>1. Len(policies) + 1 \in 1..(Len(policies) + 1)
    BY <1>1
  <2> QED BY <1>2, <1>4, <1>6, <2>1, Zenon DEF fnReturns, fnPanics, record
<1>7. CASE callThrough \/ callBreaker \/ breakerReturns \/ callCache \/ cacheReturns \/ callTimeout
           \/ timeoutReturns
  <2>1. level \in DOMAIN policies /\ policies' = policies
    BY <1>7, Zenon DEF callThrough, callBreaker, breakerReturns, callCache, cacheReturns, callTimeout,
                       timeoutReturns, At, shared
  <2>2. (\E r : return(r)) \/ (phase = "call" /\ \E c : callInner(c))
    BY <1>7, Zenon DEF callThrough, callBreaker, breakerReturns, callCache, cacheReturns, callTimeout,
                       timeoutReturns, At
  <2> QED BY <1>2, <1>3, <1>5, <2>1, <2>2, Zenon DEF callInner
<1>8. CASE retryReturns \/ RecordResult \/ fallbackReturns
           \/ \E err \in {"none", "fail"} : fallbackFnReturns(err)
  <2>1. level \in DOMAIN policies /\ policies' = policies
    BY <1>8, Zenon DEF retryReturns, RecordResult, fallbackReturns, fallbackFnReturns, At, Control
  <2>2. (\E r : return(r)) \/ \E next, r : goOn(next, r)
    BY <1>8, Zenon DEF retryReturns, RecordResult, fallbackReturns, fallbackFnReturns, OnFailure
  <2> QED BY <1>2, <1>4, <1>5, <2>1, <2>2, Zenon
<1>9. CASE InitializeRetry
  <2>1. level \in DOMAIN policies /\ policies' = policies
    BY <1>9, Zenon DEF InitializeRetry, Control
  <2> QED BY <1>2, <1>4, <1>5, <1>9, <2>1, Zenon DEF InitializeRetry
<1>12. CASE beginRetry
  BY <1>3, <1>12, Zenon DEF beginRetry, Control
<1>10. CASE UNCHANGED <<policies, level, phase>>
  BY <1>10 DEF Control
<1>11. CASE Next /\ ~Step
  BY <1>10, <1>11, Zenon DEF Next, timerFires, timerCancels, otherStores, CancelMarks, CancelPropagates,
                             contextDone, goroutine, Terminated, vars
<1> QED BY <1>6, <1>7, <1>8, <1>9, <1>10, <1>11, <1>12, Zenon DEF Step, vars

(***************************************************************************)
(* What the operations on results make of them.                            *)
(***************************************************************************)
LEMMA NewResults ==
  ASSUME NEW err \in FnErrors \cup {"nil", "timeout", "canceled", "context", "open"}
  PROVE  /\ FailureResult(err) \in ResultType /\ FailureResult(err).err = err
         /\ FnResult(err) \in ResultType /\ FnResult(err).err = err
         /\ [FailureResult(err) EXCEPT !.exceeded = TRUE] \in ResultType
         /\ [FailureResult(err) EXCEPT !.exceeded = TRUE].err = err
BY Zenon DEF FailureResult, FnResult, ResultType, ResultsOf

LEMMA SameError ==
  ASSUME NEW r \in ResultType
  PROVE  /\ r.err \in FnErrors \cup {"nil", "timeout", "canceled", "context", "open"}
         /\ WithFailure(r) \in ResultType /\ WithFailure(r).err = r.err
         /\ \A done, success \in BOOLEAN :
              WithDone(r, done, success) \in ResultType /\ WithDone(r, done, success).err = r.err
         /\ \A p : PostExecute(p, r) \in ResultType /\ PostExecute(p, r).err = r.err
<1>1. /\ r.err \in FnErrors \cup {"nil", "timeout", "canceled", "context", "open"}
      /\ WithFailure(r) \in ResultType /\ WithFailure(r).err = r.err
  BY Zenon DEF WithFailure, ResultType, ResultsOf
<1>2. ASSUME NEW done \in BOOLEAN, NEW success \in BOOLEAN
      PROVE  WithDone(r, done, success) \in ResultType /\ WithDone(r, done, success).err = r.err
  BY Zenon DEF WithDone, ResultType, ResultsOf
<1>3. ASSUME NEW p PROVE PostExecute(p, r) \in ResultType /\ PostExecute(p, r).err = r.err
  BY <1>1, <1>2, Zenon DEF PostExecute
<1> QED BY <1>1, <1>2, <1>3

LEMMA SameFlags ==
  ASSUME NEW r \in ResultType
  PROVE  /\ r.successAll \in BOOLEAN /\ r.exceeded \in BOOLEAN
         /\ ~WithFailure(r).successAll /\ ~WithFailure(r).success
         /\ WithFailure(r).exceeded = r.exceeded
         /\ WithDone(r, TRUE, TRUE).successAll = r.successAll /\ WithDone(r, TRUE, TRUE).success
         /\ WithDone(r, TRUE, TRUE).exceeded = r.exceeded
         /\ \A done \in BOOLEAN : /\ ~WithDone(r, done, FALSE).successAll
                                  /\ WithDone(r, done, FALSE).exceeded = r.exceeded
<1>1. r.successAll \in BOOLEAN /\ r.exceeded \in BOOLEAN
  BY DEF ResultType, ResultsOf
<1>2. ~WithFailure(r).successAll /\ ~WithFailure(r).success /\ WithFailure(r).exceeded = r.exceeded
  BY Zenon DEF WithFailure, ResultType, ResultsOf
<1>3. WithDone(r, TRUE, TRUE).successAll = (TRUE /\ r.successAll) /\ WithDone(r, TRUE, TRUE).success
  BY Zenon DEF WithDone, ResultType, ResultsOf
<1>4. WithDone(r, TRUE, TRUE).exceeded = r.exceeded
  BY Zenon DEF WithDone, ResultType, ResultsOf
<1>5. ASSUME NEW done \in BOOLEAN
      PROVE  WithDone(r, done, FALSE).successAll = (FALSE /\ r.successAll)
  BY Zenon DEF WithDone, ResultType, ResultsOf
<1>6. ASSUME NEW done \in BOOLEAN PROVE WithDone(r, done, FALSE).exceeded = r.exceeded
  BY Zenon DEF WithDone, ResultType, ResultsOf
<1> QED BY <1>1, <1>2, <1>3, <1>4, <1>5, <1>6, Zenon

LEMMA PostExecuteFlags ==
  ASSUME NEW r \in ResultType, NEW p
  PROVE  /\ PostExecute(p, r).exceeded = r.exceeded
         /\ IsFailure(p, r) => ~PostExecute(p, r).successAll /\ ~PostExecute(p, r).success
         /\ ~IsFailure(p, r) => PostExecute(p, r).successAll = r.successAll /\ PostExecute(p, r).success
BY SameFlags, Zenon DEF PostExecute

\* Results that no policy takes for a success and that are no ExceededError.
Failures == {r \in ResultType : r.err # "none" /\ ~r.successAll /\ ~r.exceeded}

LEMMA FailureIs ==
  ASSUME NEW err \in {"fail", "abort", "nil", "timeout", "canceled", "context", "open"}
  PROVE  FailureResult(err) \in Failures
<1>1. FailureResult(err) \in ResultType /\ FailureResult(err).err = err
  BY NewResults, Zenon DEF FnErrors
<1>2. ~FailureResult(err).successAll /\ ~FailureResult(err).exceeded
  BY Zenon DEF FailureResult
<1>3. err # "none"
  OBVIOUS
<1> QED BY <1>1, <1>2, <1>3, Zenon DEF Failures

LEMMA FnFlags ==
  ASSUME NEW err
  PROVE  FnResult(err).successAll /\ ~FnResult(err).exceeded
BY Zenon DEF FnResult
-----------------------------------------------------------------------------
(***************************************************************************)
(* The account of an execution with policies ps whose goroutine is at      *)
(* level lv and phase ph with result r: f and x are the retry executors'   *)
(* failedAttempts and retriesExceeded, rt the retries, ex the executions.  *)
(***************************************************************************)
Levels(ps) == {l \in DOMAIN ps : ps[l].kind = "retry"}
Judges(ps, l) == ps[l].kind \notin {"timeout", "cache"}

\* The loops and handlers belong to their policies.
Placed(ps, lv, ph) ==
  /\ ph \in {"call", "return", "record", "delay", "retry", "fallback", "done", "panicked"}
  /\ ph \in {"record", "delay", "retry"} => ps[lv].kind = "retry"
  /\ ph = "fallback" => ps[lv].kind = "fallback"
  /\ ph = "done" => lv = 0

\* An outermost executor whose retries are exceeded is left for good.
First(ps, l) == l \in Levels(ps) /\ \A k \in Levels(ps) : l <= k
Left(ps, lv, ph, x) ==
  \A l \in DOMAIN ps : First(ps, l) /\ x[l] => lv < l /\ ph \in {"return", "fallback", "done"}

(***************************************************************************)
(* A result that left level L is SuccessAll if it has no error.  One with  *)
(* an error is not once a policy judged it, unless an exceeded executor    *)
(* let it pass: then there is a retry policy outside that will judge it.   *)
(***************************************************************************)
Judgement(ps, r, L) ==
  /\ r.err = "none" => r.successAll
  /\ r.err = "timeout" => ~r.successAll
  /\ r.successAll /\ r.err # "none" =>
       \/ \A l \in DOMAIN ps : l > L => ~Judges(ps, l)
       \/ \E l \in Levels(ps) : l <= L
  /\ ~r.successAll /\ r.err \notin {"none", "timeout"} => \E l \in DOMAIN ps : l > L /\ Judges(ps, l)

Judged(ps, lv, ph, r) == ph \in {"return", "done"} => Judgement(ps, r, lv)

\* An executor that may retry has not failed too often.
Within(ps, f, x) ==
  \A l \in Levels(ps) : ps[l].maxRetries # -1 /\ ~x[l] => f[l] <= ps[l].maxRetries

\* Every retry, and the one that is being prepared, is one that an executor's limit allows.
Allowed(ps, f) ==
  [l \in Levels(ps) |-> IF f[l] <= ps[l].maxRetries THEN f[l] ELSE ps[l].maxRetries]
Pending(ph) == IF ph \in {"record", "delay", "retry"} THEN 1 ELSE 0
Limited(ps) == \A l \in Levels(ps) : ps[l].maxRetries # -1
Accounted(ps, ph, f, rt) ==
  Limited(ps) => rt + Pending(ph) <= SumFunctionOnSet(Allowed(ps, f), Levels(ps))

\* Each failure of a lone executor is one execution of the function.
Lone(ps, l) ==
  /\ Levels(ps) = {l} /\ ~ps[l].maxDuration
  /\ \A k \in DOMAIN ps : ps[k].kind \notin {"breaker", "cache"}
Counts(ps, lv, r, f, ex) ==
  \A l \in DOMAIN ps :
    Lone(ps, l) => /\ lv >= l => ex = f[l] + 1 /\ ~r.exceeded
                   /\ lv < l /\ r.exceeded => ex = ps[l].maxRetries + 1
Counted(ps, lv, ph, r, f, ex) ==
  /\ ph \in {"call", "record", "delay", "retry"} => \A l \in DOMAIN ps : Lone(ps, l) => ex = f[l]
  /\ ph \in {"return", "done"} => Counts(ps, lv, r, f, ex)
  /\ ph = "fallback" => \A l \in DOMAIN ps : Lone(ps, l) /\ lv >= l => ex = f[l] + 1

Account(ps, lv, ph, r, f, x, rt, ex) ==
  /\ Placed(ps, lv, ph) /\ Left(ps, lv, ph, x) /\ Judged(ps, lv, ph, r) /\ Within(ps, f, x)
  /\ Accounted(ps, ph, f, rt) /\ Counted(ps, lv, ph, r, f, ex)

RInv ==
  /\ Control
  /\ result \in ResultType /\ canceledResult \in Failures
  /\ failedAttempts \in [DOMAIN policies -> Nat] /\ retriesExceeded \in [DOMAIN policies -> BOOLEAN]
  /\ retries \in Nat /\ executions \in Nat
  /\ Account(policies, level, phase, result, failedAttempts, retriesExceeded, retries, executions)

\* The verdicts on a result.
LEMMA VerdictNone ==
  ASSUME NEW ps, NEW r, r.err = "none", r.successAll, NEW L
  PROVE  Judgement(ps, r, L)
BY DEF Judgement

LEMMA VerdictTimeout ==
  ASSUME NEW ps, NEW r, r.err = "timeout", ~r.successAll, NEW L
  PROVE  Judgement(ps, r, L)
BY DEF Judgement

LEMMA VerdictFailure ==
  ASSUME NEW ps, NEW lv \in DOMAIN ps, DOMAIN ps \subseteq Nat, Judges(ps, lv),
         NEW r, ~r.successAll, r.err # "none"
  PROVE  Judgement(ps, r, lv - 1)
<1>1. lv \in Nat /\ lv > lv - 1
  OBVIOUS
<1> QED BY <1>1, Zenon DEF Judgement

LEMMA VerdictKept ==
  ASSUME NEW ps, NEW lv \in DOMAIN ps, DOMAIN ps \subseteq Nat, NEW r, Judgement(ps, r, lv),
         ~Judges(ps, lv) \/ \E k \in Levels(ps) : k <= lv - 1,
         NEW s, s.err = r.err, s.successAll = r.successAll
  PROVE  Judgement(ps, s, lv - 1)
<1>1. \A l \in DOMAIN ps : /\ l > lv => l > lv - 1
                           /\ l > lv - 1 => l > lv \/ l = lv
                           /\ l <= lv => l <= lv - 1 \/ l = lv
  <2> SUFFICES ASSUME NEW l \in DOMAIN ps
               PROVE  /\ l > lv => l > lv - 1
                      /\ l > lv - 1 => l > lv \/ l = lv
                      /\ l <= lv => l <= lv - 1 \/ l = lv
    OBVIOUS
  <2>1. l \in Nat /\ lv \in Nat
    OBVIOUS
  <2> QED BY <2>1
<1>2. ~Judges(ps, lv) => lv \notin Levels(ps)
  BY DEF Judges, Levels
<1>3. Levels(ps) \subseteq DOMAIN ps
  BY DEF Levels
<1> QED BY <1>1, <1>2, <1>3, Zenon DEF Judgement

LEMMA VerdictFn ==
  ASSUME NEW ps, NEW n \in Nat, DOMAIN ps = 1..n, NEW err \in FnErrors
  PROVE  Judgement(ps, FnResult(err), n)
<1>1. FnResult(err).err = err /\ FnResult(err).successAll
  BY NewResults, FnFlags, Zenon
<1>2. err # "timeout"
  BY DEF FnErrors
<1>3. \A l \in DOMAIN ps : ~(l > n)
  OBVIOUS
<1> QED BY <1>1, <1>2, <1>3, Zenon DEF Judgement

\* The policies and the numbers that an account is about.
Ledger(ps, n, lv, f, x, rt, ex) ==
  /\ n \in Nat /\ DOMAIN ps = 1..n /\ lv \in 0..(n + 1)
  /\ \A l \in Levels(ps) : ps[l].maxRetries \in Nat \cup {-1}
  /\ f \in [DOMAIN ps -> Nat] /\ x \in [DOMAIN ps -> BOOLEAN]
  /\ rt \in Nat /\ ex \in Nat

LEMMA LevelsFinite ==
  ASSUME NEW ps, NEW n \in Nat, DOMAIN ps = 1..n
  PROVE  Levels(ps) \subseteq 1..n /\ IsFiniteSet(Levels(ps))
<1>1. Levels(ps) \subseteq 1..n
  BY DEF Levels
<1>2. IsFiniteSet(1..n)
  BY FS_Interval
<1> QED BY <1>1, <1>2, FS_Subset, Zenon

LEMMA AllowedSum ==
  ASSUME NEW ps, NEW n \in Nat, DOMAIN ps = 1..n, NEW f \in [DOMAIN ps -> Nat],
         \A l \in Levels(ps) : ps[l].maxRetries \in Nat
  PROVE  /\ \A l \in Levels(ps) : Allowed(ps, f)[l] \in Int
         /\ SumFunctionOnSet(Allowed(ps, f), Levels(ps)) \in Int
<1>1. ASSUME NEW l \in Levels(ps) PROVE Allowed(ps, f)[l] \in Int
  BY <1>1, LevelsFinite DEF Allowed
<1>2. IsFiniteSet(Levels(ps))
  BY LevelsFinite, SMTT(20)
<1> QED BY <1>1, <1>2, SumType, Zenon

\* One more failure of an executor allows one more retry if it is within the limit, and never fewer.
LEMMA AllowedGrows ==
  ASSUME NEW ps, NEW n \in Nat, DOMAIN ps = 1..n, NEW f \in [DOMAIN ps -> Nat],
         \A l \in Levels(ps) : ps[l].maxRetries \in Nat, NEW lv \in Levels(ps), NEW g,
         g = [f EXCEPT ![lv] = f[lv] + 1]
  PROVE  /\ SumFunctionOnSet(Allowed(ps, f), Levels(ps)) \in Int
         /\ SumFunctionOnSet(Allowed(ps, g), Levels(ps)) \in Int
         /\ SumFunctionOnSet(Allowed(ps, g), Levels(ps)) >= SumFunctionOnSet(Allowed(ps, f), Levels(ps))
         /\ f[lv] + 1 <= ps[lv].maxRetries =>
              SumFunctionOnSet(Allowed(ps, g), Levels(ps)) = SumFunctionOnSet(Allowed(ps, f), Levels(ps)) + 1
<1> DEFINE S == Levels(ps)
           a == Allowed(ps, f)
           b == Allowed(ps, g)
<1>1. S \subseteq DOMAIN ps /\ IsFiniteSet(S)
  BY LevelsFinite
<1>2. g \in [DOMAIN ps -> Nat] /\ g[lv] = f[lv] + 1 /\ \A l \in S \ {lv} : g[l] = f[l]
  BY <1>1
<1>3. \A l \in S : a[l] \in Int /\ b[l] \in Int
  BY <1>2, AllowedSum, Zenon
<1>4. \A l \in S \ {lv} : a[l] = b[l]
  BY <1>2 DEF Allowed
<1>5. /\ b[lv] >= a[lv]
      /\ f[lv] + 1 <= ps[lv].maxRetries => b[lv] = a[lv] + 1
  <2>1. f[lv] \in Nat /\ ps[lv].maxRetries \in Nat
    BY <1>1
  <2>2. /\ a[lv] = IF f[lv] <= ps[lv].maxRetries THEN f[lv] ELSE ps[lv].maxRetries
        /\ b[lv] = IF f[lv] + 1 <= ps[lv].maxRetries THEN f[lv] + 1 ELSE ps[lv].maxRetries
    BY <1>2 DEF Allowed
  <2> HIDE DEF a, b
  <2> QED BY <2>1, <2>2
<1>6. SumFunctionOnSet(a, S) \in Int /\ SumFunctionOnSet(b, S) \in Int
  BY <1>2, AllowedSum, Zenon
<1> HIDE DEF S, a, b
<1>7. lv \in S /\ a[lv] \in Int /\ b[lv] \in Int
  BY <1>3 DEF S
<1>8. SumFunctionOnSet(b, S) = SumFunctionOnSet(a, S) + (b[lv] - a[lv])
  <2>1. SameBut(a, b, S, lv)
    BY <1>1, <1>3, <1>4, <1>7, Zenon DEF SameBut
  <2>2. SumMoves(a, b, S, lv)
    BY <2>1, SumMove
  <2> QED BY <2>2 DEF SumMoves
<1>9. /\ SumFunctionOnSet(b, S) >= SumFunctionOnSet(a, S)
      /\ f[lv] + 1 <= ps[lv].maxRetries => SumFunctionOnSet(b, S) = SumFunctionOnSet(a, S) + 1
  BY <1>5, <1>6, <1>7, <1>8
<1> QED BY <1>6, <1>9 DEF S, a, b

\* A policy calls its inner function, or the function panics.
LEMMA AccountCalls ==
  ASSUME NEW ps, NEW lv, NEW ph, NEW r, NEW f, NEW x, NEW rt, NEW ex,
         Account(ps, lv, ph, r, f, x, rt, ex), ph = "call"
  PROVE  /\ Account(ps, lv + 1, "call", r, f, x, rt, ex)
         /\ Account(ps, lv, "panicked", r, f, x, rt, ex)
BY DEF Account, Placed, Left, Judged, Accounted, Pending, Counted

\* The execution ends, or the retry that is recorded waits for its delay and is checked.
LEMMA AccountGoesOn ==
  ASSUME NEW ps, NEW lv, NEW ph, NEW r, NEW f, NEW x, NEW rt, NEW ex,
         Account(ps, lv, ph, r, f, x, rt, ex)
  PROVE  /\ ph = "return" /\ lv = 0 => Account(ps, lv, "done", r, f, x, rt, ex)
         /\ ph = "record" => Account(ps, lv, "delay", r, f, x, rt, ex)
         /\ ph = "delay" => Account(ps, lv, "retry", r, f, x, rt, ex)
BY DEF Account, Placed, Left, Judged, Accounted, Pending, Counted

\* beginRetry: the retry that was prepared is made.
LEMMA AccountRetries ==
  ASSUME NEW ps, NEW n, NEW lv, NEW r, NEW f, NEW x, NEW rt, NEW ex,
         Ledger(ps, n, lv, f, x, rt, ex), Account(ps, lv, "retry", r, f, x, rt, ex)
  PROVE  Account(ps, lv + 1, "call", r, f, x, rt + 1, ex)
<1>1. rt \in Nat /\ Pending("retry") = 1 /\ Pending("call") = 0 /\ rt + 1 + 0 = rt + 1
  BY DEF Ledger, Pending
<1>2. Accounted(ps, "call", f, rt + 1)
  BY <1>1, Zenon DEF Account, Accounted
<1> QED BY <1>2 DEF Account, Placed, Left, Judged, Counted

\* The function returns.
LEMMA AccountFn ==
  ASSUME NEW ps, NEW n, NEW lv, NEW r, NEW f, NEW x, NEW rt, NEW ex, NEW err \in FnErrors,
         Ledger(ps, n, lv, f, x, rt, ex), Account(ps, lv, "call", r, f, x, rt, ex), lv = n + 1
  PROVE  Account(ps, lv - 1, "return", FnResult(err), f, x, rt, ex + 1)
<1>1. n \in Nat /\ DOMAIN ps = 1..n /\ lv - 1 = n /\ ex \in Nat
  BY DEF Ledger
<1>2. Judged(ps, lv - 1, "return", FnResult(err))
  BY <1>1, VerdictFn DEF Judged
<1>3. Counted(ps, lv - 1, "return", FnResult(err), f, ex + 1)
  <2>1. ASSUME NEW l \in DOMAIN ps, Lone(ps, l) PROVE ex = f[l]
    BY <2>1 DEF Account, Counted
  <2> QED BY <1>1, <2>1, FnFlags DEF Counted, Counts
<1>4. Placed(ps, lv - 1, "return") /\ Left(ps, lv - 1, "return", x) /\ Within(ps, f, x)
  BY DEF Account, Placed, Left
<1>5. Accounted(ps, "return", f, rt)
  BY DEF Account, Accounted, Pending
<1> QED BY <1>2, <1>3, <1>4, <1>5 DEF Account

\* A policy returns s, and no executor's failure is counted.
LEMMA AccountReturns ==
  ASSUME NEW ps, NEW n, NEW lv, NEW ph, NEW r, NEW f, NEW x, NEW rt, NEW ex, NEW s,
         Ledger(ps, n, lv, f, x, rt, ex), Account(ps, lv, ph, r, f, x, rt, ex), lv \in DOMAIN ps,
         Judgement(ps, s, lv - 1), Counts(ps, lv - 1, s, f, ex)
  PROVE  Account(ps, lv - 1, "return", s, f, x, rt, ex)
<1>1. lv \in Nat /\ rt \in Nat /\ DOMAIN ps \subseteq Nat /\ n \in Nat /\ DOMAIN ps = 1..n
  BY DEF Ledger
<1>2. Left(ps, lv - 1, "return", x)
  <2>1. \A l \in DOMAIN ps : lv < l => lv - 1 < l
    BY <1>1
  <2> QED BY <2>1, Zenon DEF Account, Left
<1>3. Accounted(ps, "return", f, rt)
  <2> SUFFICES ASSUME Limited(ps)
               PROVE  rt + Pending("return") <= SumFunctionOnSet(Allowed(ps, f), Levels(ps))
    BY DEF Accounted
  <2>1. \A l \in Levels(ps) : ps[l].maxRetries \in Nat
    BY DEF Limited, Ledger
  <2>2. SumFunctionOnSet(Allowed(ps, f), Levels(ps)) \in Int
    BY <1>1, <2>1, AllowedSum, Zenon DEF Ledger
  <2>3. rt + Pending(ph) <= SumFunctionOnSet(Allowed(ps, f), Levels(ps))
    BY Zenon DEF Account, Accounted
  <2>4. Pending(ph) \in {0, 1} /\ Pending("return") = 0
    BY DEF Pending
  <2> QED BY <1>1, <2>2, <2>3, <2>4
<1>4. Placed(ps, lv - 1, "return") /\ Judged(ps, lv - 1, "return", s) /\ Within(ps, f, x)
  BY DEF Account, Placed, Judged
<1>5. Counted(ps, lv - 1, "return", s, f, ex)
  BY DEF Counted
<1> QED BY <1>2, <1>3, <1>4, <1>5 DEF Account

\* A Fallback calls its function.
LEMMA AccountHandles ==
  ASSUME NEW ps, NEW lv, NEW r, NEW f, NEW x, NEW rt, NEW ex, NEW s,
         Account(ps, lv, "return", r, f, x, rt, ex), ps[lv].kind = "fallback"
  PROVE  Account(ps, lv, "fallback", s, f, x, rt, ex)
BY DEF Account, Placed, Left, Judged, Accounted, Pending, Counted, Counts

(***************************************************************************)
(* What Counts asks of the result s that a policy returns: nothing of a    *)
(* breaker or a cache, and of others that they make no ExceededError.      *)
(***************************************************************************)
LEMMA CountsNot ==
  ASSUME NEW ps, NEW lv \in DOMAIN ps, NEW f, NEW ex, NEW s,
         ps[lv].kind \in {"breaker", "cache"}
  PROVE  Counts(ps, lv - 1, s, f, ex)
BY DEF Counts, Lone

LEMMA CountsKept ==
  ASSUME NEW ps, NEW n, NEW lv \in DOMAIN ps, NEW r, NEW f, NEW x, NEW rt, NEW ex, NEW s,
         Ledger(ps, n, lv, f, x, rt, ex), Account(ps, lv, "return", r, f, x, rt, ex),
         ps[lv].kind # "retry", s.exceeded => r.exceeded
  PROVE  Counts(ps, lv - 1, s, f, ex)
<1> SUFFICES ASSUME NEW l \in DOMAIN ps, Lone(ps, l)
             PROVE  /\ lv - 1 >= l => ex = f[l] + 1 /\ ~s.exceeded
                    /\ lv - 1 < l /\ s.exceeded => ex = ps[l].maxRetries + 1
  BY DEF Counts
<1>1. l # lv
  BY DEF Lone, Levels
<1>2. lv \in Nat /\ l \in Nat
  BY DEF Ledger
<1>3. (lv - 1 >= l => lv >= l) /\ (lv - 1 < l => lv < l)
  BY <1>1, <1>2
<1>4. Counts(ps, lv, r, f, ex)
  BY DEF Account, Counted
<1> QED BY <1>3, <1>4, Zenon DEF Counts

\* A failure that is no ExceededError, in place of a result that is returned or handled.
LEMMA CountsFailure ==
  ASSUME NEW ps, NEW n, NEW lv \in DOMAIN ps, NEW ph, NEW r, NEW f, NEW x, NEW rt, NEW ex, NEW s,
         Ledger(ps, n, lv, f, x, rt, ex), Account(ps, lv, ph, r, f, x, rt, ex),
         ps[lv].kind = "retry" \/ ph \in {"return", "fallback"}, ~s.exceeded
  PROVE  Counts(ps, lv - 1, s, f, ex)
<1> SUFFICES ASSUME NEW l \in DOMAIN ps, Lone(ps, l), lv - 1 >= l
             PROVE  ex = f[l] + 1
  BY Zenon DEF Counts
<1>1. lv \in Nat /\ l \in Nat
  BY DEF Ledger
<1>2. l # lv /\ lv >= l
  BY <1>1
<1>3. ps[lv].kind # "retry"
  BY <1>2 DEF Lone, Levels
<1>4. ph \in {"return", "fallback"}
  BY <1>3
<1> QED BY <1>2, <1>4 DEF Account, Counted, Counts

\* An executor whose retries are exceeded is called again: it is not alone.
LEMMA CountsPassed ==
  ASSUME NEW ps, NEW n, NEW lv \in DOMAIN ps, NEW r, NEW f, NEW x, NEW rt, NEW ex, NEW s,
         Ledger(ps, n, lv, f, x, rt, ex), Account(ps, lv, "return", r, f, x, rt, ex),
         ps[lv].kind = "retry", x[lv]
  PROVE  /\ Counts(ps, lv - 1, s, f, ex)
         /\ \E k \in Levels(ps) : k <= lv - 1
<1>1. lv \in Nat /\ DOMAIN ps \subseteq Nat /\ ~(lv < lv)
  BY DEF Ledger
<1>2. lv \in Levels(ps) /\ ~First(ps, lv)
  BY <1>1, Zenon DEF Account, Left, Levels
<1>3. PICK k \in Levels(ps) : ~(lv <= k)
  BY <1>2 DEF First
<1>4. k \in Nat /\ k <= lv - 1 /\ k # lv
  BY <1>1, <1>3 DEF Levels
<1>5. \A l : ~Lone(ps, l)
  BY <1>2, <1>3, <1>4 DEF Lone
<1> QED BY <1>4, <1>5 DEF Counts

(***************************************************************************)
(* OnFailure of a retry executor that has not given up: g and y are its    *)
(* failedAttempts and retriesExceeded after it.                            *)
(***************************************************************************)
Fails(ps, lv, f, x, g, y, exceeded) ==
  /\ ps[lv].kind = "retry" /\ ~x[lv]
  /\ g = [f EXCEPT ![lv] = f[lv] + 1]
  /\ y = [x EXCEPT ![lv] = exceeded]
  /\ exceeded \in BOOLEAN
  /\ maxRetriesExceeded(ps[lv], f[lv] + 1) => exceeded
  /\ exceeded /\ ~ps[lv].maxDuration => maxRetriesExceeded(ps[lv], f[lv] + 1)

Failed(ps, lv, f, x, g, y, exceeded) ==
  /\ g \in [DOMAIN ps -> Nat] /\ y \in [DOMAIN ps -> BOOLEAN]
  /\ lv \in Levels(ps) /\ f[lv] \in Nat /\ g[lv] = f[lv] + 1 /\ y[lv] = exceeded
  /\ \A l \in DOMAIN ps \ {lv} : g[l] = f[l] /\ y[l] = x[l]

LEMMA FailsType ==
  ASSUME NEW ps, NEW n, NEW lv \in DOMAIN ps, NEW f, NEW x, NEW rt, NEW ex, NEW g, NEW y,
         NEW exceeded, Ledger(ps, n, lv, f, x, rt, ex), Fails(ps, lv, f, x, g, y, exceeded)
  PROVE  Failed(ps, lv, f, x, g, y, exceeded)
<1>1. f \in [DOMAIN ps -> Nat] /\ x \in [DOMAIN ps -> BOOLEAN]
  BY DEF Ledger
<1>2. /\ g = [f EXCEPT ![lv] = f[lv] + 1] /\ y = [x EXCEPT ![lv] = exceeded]
      /\ exceeded \in BOOLEAN /\ lv \in Levels(ps)
  BY DEF Fails, Levels
<1>3. g \in [DOMAIN ps -> Nat] /\ f[lv] \in Nat /\ g[lv] = f[lv] + 1
      /\ \A l \in DOMAIN ps \ {lv} : g[l] = f[l]
  BY <1>1, <1>2
<1>4. y \in [DOMAIN ps -> BOOLEAN] /\ y[lv] = exceeded /\ \A l \in DOMAIN ps \ {lv} : y[l] = x[l]
  BY <1>1, <1>2, Zenon
<1> QED BY <1>2, <1>3, <1>4 DEF Failed

\* The executor stays within its limit unless it gives up ...
LEMMA FailsWithin ==
  ASSUME NEW ps, NEW n, NEW lv \in DOMAIN ps, NEW f, NEW x, NEW rt, NEW ex, NEW g, NEW y,
         NEW exceeded, Ledger(ps, n, lv, f, x, rt, ex), Fails(ps, lv, f, x, g, y, exceeded),
         Within(ps, f, x)
  PROVE  Within(ps, g, y)
<1> SUFFICES ASSUME NEW l \in Levels(ps), ps[l].maxRetries # -1, ~y[l]
             PROVE  g[l] <= ps[l].maxRetries
  BY DEF Within
<1>0. Failed(ps, lv, f, x, g, y, exceeded)
  BY FailsType, Zenon
<1>1. l \in DOMAIN ps /\ ps[l].maxRetries \in Nat
  BY DEF Levels, Ledger
<1>2. CASE l = lv
  <2>1. f[lv] \in Nat /\ g[lv] = f[lv] + 1 /\ y[lv] = exceeded
    BY <1>0, Zenon DEF Failed
  <2>2. ~maxRetriesExceeded(ps[lv], f[lv] + 1)
    BY <1>2, <2>1, Zenon DEF Fails
  <2> QED BY <1>1, <1>2, <2>1, <2>2 DEF maxRetriesExceeded
<1>3. CASE l # lv
  <2>1. l \in DOMAIN ps \ {lv}
    BY <1>1, <1>3
  <2>2. g[l] = f[l] /\ y[l] = x[l]
    BY <1>0, <2>1, Zenon DEF Failed
  <2> QED BY <2>2, Zenon DEF Within
<1> QED BY <1>2, <1>3

\* ... and what it allows pays for the retry that it asks for.
After(next, exceeded) == next = "return" \/ (next = "record" /\ ~exceeded)

LEMMA FailsAccounted ==
  ASSUME NEW ps, NEW n, NEW lv \in DOMAIN ps, NEW f, NEW x, NEW rt, NEW ex, NEW g, NEW y,
         NEW exceeded, Ledger(ps, n, lv, f, x, rt, ex), Fails(ps, lv, f, x, g, y, exceeded),
         Accounted(ps, "return", f, rt), NEW next, After(next, exceeded)
  PROVE  Accounted(ps, next, g, rt)
<1> SUFFICES ASSUME Limited(ps)
             PROVE  /\ rt <= SumFunctionOnSet(Allowed(ps, g), Levels(ps))
                    /\ ~exceeded => rt + 1 <= SumFunctionOnSet(Allowed(ps, g), Levels(ps))
  <2>1. rt + 0 = rt /\ Pending("return") = 0 /\ Pending("record") = 1
    BY DEF Ledger, Pending
  <2> QED BY <2>1, Zenon DEF Accounted, After
<1> DEFINE F == SumFunctionOnSet(Allowed(ps, f), Levels(ps))
           G == SumFunctionOnSet(Allowed(ps, g), Levels(ps))
<1>1. \A l \in Levels(ps) : ps[l].maxRetries \in Nat
  BY DEF Limited, Ledger
<1>2. n \in Nat /\ DOMAIN ps = 1..n /\ f \in [DOMAIN ps -> Nat] /\ rt \in Nat
  BY DEF Ledger
<1>0. Failed(ps, lv, f, x, g, y, exceeded)
  BY FailsType, Zenon
<1>3. lv \in Levels(ps) /\ g = [f EXCEPT ![lv] = f[lv] + 1] /\ f[lv] \in Nat
  BY <1>0, Zenon DEF Failed, Fails
<1>4. /\ F \in Int /\ G \in Int /\ G >= F
      /\ f[lv] + 1 <= ps[lv].maxRetries => G = F + 1
  BY <1>1, <1>2, <1>3, AllowedGrows, Zenon
<1>5. rt <= F
  <2>1. rt + Pending("return") <= F
    BY Zenon DEF Accounted
  <2> HIDE DEF F
  <2> QED BY <1>2, <1>4, <2>1 DEF Pending
<1>6. ~exceeded => f[lv] + 1 <= ps[lv].maxRetries
  BY <1>1, <1>3 DEF Fails, maxRetriesExceeded
<1> HIDE DEF F, G
<1>7. rt <= G /\ (~exceeded => rt + 1 <= G)
  BY <1>2, <1>4, <1>5, <1>6
<1> QED BY <1>7 DEF G

\* The executor returns the failure s, an ExceededError only if it gives up ...
LEMMA AccountFails ==
  ASSUME NEW ps, NEW n, NEW lv \in DOMAIN ps, NEW r, NEW f, NEW x, NEW rt, NEW ex, NEW g, NEW y,
         NEW exceeded, NEW s,
         Ledger(ps, n, lv, f, x, rt, ex), Account(ps, lv, "return", r, f, x, rt, ex),
         Fails(ps, lv, f, x, g, y, exceeded),
         Judgement(ps, s, lv - 1), s.exceeded => exceeded \/ r.exceeded
  PROVE  Account(ps, lv - 1, "return", s, g, y, rt, ex)
<1>1. Failed(ps, lv, f, x, g, y, exceeded)
  BY FailsType, Zenon
<1>2. lv \in Nat /\ DOMAIN ps \subseteq Nat /\ lv - 1 < lv
  BY DEF Ledger
<1>3. Within(ps, g, y)
  BY FailsWithin, Zenon DEF Account
<1>4. Accounted(ps, "return", g, rt)
  <2>1. Accounted(ps, "return", f, rt)
    BY DEF Account
  <2>2. After("return", exceeded)
    BY DEF After
  <2> QED BY <2>1, <2>2, FailsAccounted, Zenon
<1>5. Left(ps, lv - 1, "return", y)
  <2> SUFFICES ASSUME NEW l \in DOMAIN ps, First(ps, l), y[l]
               PROVE  lv - 1 < l
    BY DEF Left
  <2>1. CASE l = lv
    BY <1>2, <2>1
  <2>2. CASE l # lv
    <3>1. x[l]
      BY <1>1, <2>2, Zenon DEF Failed
    <3>2. lv < l
      BY <3>1 DEF Account, Left
    <3> QED BY <1>2, <3>2
  <2> QED BY <2>1, <2>2
<1>6. Counts(ps, lv - 1, s, g, ex)
  <2> SUFFICES ASSUME NEW l \in DOMAIN ps, Lone(ps, l)
               PROVE  /\ lv - 1 >= l => ex = g[l] + 1 /\ ~s.exceeded
                      /\ lv - 1 < l /\ s.exceeded => ex = ps[l].maxRetries + 1
    BY DEF Counts
  <2>1. l = lv /\ ~ps[lv].maxDuration
    BY <1>1 DEF Failed, Lone
  <2>2. lv >= lv /\ ~(lv - 1 >= lv)
    BY <1>2
  <2>3. ex = f[lv] + 1 /\ ~r.exceeded
    BY <2>1, <2>2, Zenon DEF Account, Counted, Counts
  <2>4. ASSUME s.exceeded PROVE ex = ps[lv].maxRetries + 1
    <3>1. maxRetriesExceeded(ps[lv], f[lv] + 1) /\ ~x[lv]
      BY <2>1, <2>3, <2>4, Zenon DEF Fails
    <3>2. ps[lv].maxRetries # -1 /\ f[lv] + 1 > ps[lv].maxRetries
      BY <3>1 DEF maxRetriesExceeded
    <3>3. lv \in Levels(ps) /\ f[lv] \in Nat
      BY <1>1 DEF Failed
    <3>4. f[lv] <= ps[lv].maxRetries
      BY <3>1, <3>2, <3>3, Zenon DEF Account, Within
    <3>5. ps[lv].maxRetries \in Nat
      BY <3>2, <3>3 DEF Ledger
    <3> QED BY <2>3, <3>2, <3>3, <3>4, <3>5
  <2> QED BY <2>1, <2>2, <2>4, Zenon
<1>7. Placed(ps, lv - 1, "return") /\ Judged(ps, lv - 1, "return", s)
  BY DEF Placed, Judged
<1>8. Counted(ps, lv - 1, "return", s, g, ex)
  BY <1>6 DEF Counted
<1> QED BY <1>3, <1>4, <1>5, <1>7, <1>8 DEF Account

\* ... or asks for a retry.
LEMMA AccountAsks ==
  ASSUME NEW ps, NEW n, NEW lv \in DOMAIN ps, NEW r, NEW f, NEW x, NEW rt, NEW ex, NEW g, NEW y,
         NEW exceeded, NEW s,
         Ledger(ps, n, lv, f, x, rt, ex), Account(ps, lv, "return", r, f, x, rt, ex),
         Fails(ps, lv, f, x, g, y, exceeded), After("record", exceeded)
  PROVE  Account(ps, lv, "record", s, g, y, rt, ex)
<1>1. Failed(ps, lv, f, x, g, y, exceeded)
  BY FailsType, Zenon
<1>2. lv \in Nat /\ DOMAIN ps \subseteq Nat /\ lv >= lv
  BY DEF Ledger
<1>3. Within(ps, g, y)
  BY FailsWithin, Zenon DEF Account
<1>4. Accounted(ps, "record", g, rt)
  <2>1. Accounted(ps, "return", f, rt)
    BY DEF Account
  <2> QED BY <2>1, FailsAccounted, Zenon
<1>5. Left(ps, lv, "record", y)
  <2> SUFFICES ASSUME NEW l \in DOMAIN ps, First(ps, l), y[l]
               PROVE  FALSE
    BY DEF Left
  <2>1. l # lv /\ l <= lv /\ x[l]
    BY <1>1, Zenon DEF Failed, First, After
  <2>2. lv < l
    BY <2>1 DEF Account, Left
  <2> QED BY <1>2, <2>1, <2>2
<1>6. Counted(ps, lv, "record", s, g, ex)
  <2> SUFFICES ASSUME NEW l \in DOMAIN ps, Lone(ps, l)
               PROVE  ex = g[l]
    BY DEF Counted
  <2>1. l = lv
    BY <1>1 DEF Failed, Lone
  <2>2. ex = f[lv] + 1
    BY <1>2, <2>1, Zenon DEF Account, Counted, Counts
  <2> QED BY <1>1, <2>1, <2>2 DEF Failed
<1>7. Placed(ps, lv, "record") /\ Judged(ps, lv, "record", s)
  BY DEF Placed, Judged, Fails
<1> QED BY <1>3, <1>4, <1>5, <1>6, <1>7 DEF Account

LEMMA CountsSame ==
  ASSUME NEW ps, NEW n, NEW lv \in DOMAIN ps, NEW r, NEW f, NEW x, NEW rt, NEW ex, NEW s,
         Ledger(ps, n, lv, f, x, rt, ex), Account(ps, lv, "return", r, f, x, rt, ex),
         ps[lv].kind = "retry", s.exceeded => r.exceeded
  PROVE  Counts(ps, lv - 1, s, f, ex)
<1> SUFFICES ASSUME NEW l \in DOMAIN ps, Lone(ps, l)
             PROVE  ~(lv - 1 >= l) /\ ~s.exceeded
  BY Zenon DEF Counts
<1>1. l = lv
  BY DEF Lone, Levels
<1>2. lv >= lv /\ ~(lv - 1 >= lv)
  BY DEF Ledger
<1>3. Counts(ps, lv, r, f, ex)
  BY DEF Account, Counted
<1>4. ~r.exceeded
  BY <1>1, <1>2, <1>3, Zenon DEF Counts
<1> QED BY <1>1, <1>2, <1>4, Zenon
-----------------------------------------------------------------------------
LEMMA InLedger ==
  ASSUME RInv
  PROVE  Ledger(policies, Len(policies), level, failedAttempts, retriesExceeded, retries, executions)
<1>1. /\ policies \in Seq(PolicyType) /\ DOMAIN policies = 1..Len(policies) /\ Len(policies) \in Nat
      /\ level \in 0..(Len(policies) + 1)
  BY Policies DEF RInv, Control
<1>2. ASSUME NEW l \in Levels(policies) PROVE policies[l].maxRetries \in Nat \cup {-1}
  <2>1. policies[l] \in PolicyType /\ policies[l].kind = "retry"
    BY <1>1, <1>2 DEF Levels
  <2>2. policies[l] \in RetryType
    BY <2>1 DEF PolicyType, CacheType, Timeout, Fallback, CircuitBreaker
  <2> QED BY <2>2 DEF RetryType
<1> QED BY <1>1, <1>2 DEF Ledger, RInv

LEMMA RInvAfter ==
  ASSUME Control', result' \in ResultType, canceledResult' \in Failures,
         failedAttempts' \in [DOMAIN policies' -> Nat], retriesExceeded' \in [DOMAIN policies' -> BOOLEAN],
         retries' \in Nat, executions' \in Nat,
         Account(policies', level', phase', result', failedAttempts', retriesExceeded', retries', executions')
  PROVE  RInv'
BY DEF RInv

LEMMA RInvIs ==
  ASSUME RInv
  PROVE  /\ result \in ResultType /\ canceledResult \in Failures
         /\ failedAttempts \in [DOMAIN policies -> Nat] /\ retriesExceeded \in [DOMAIN policies -> BOOLEAN]
         /\ retries \in Nat /\ executions \in Nat
         /\ Account(policies, level, phase, result, failedAttempts, retriesExceeded, retries, executions)
         /\ DOMAIN policies \subseteq Nat
         /\ DOMAIN policies = 1..Len(policies) /\ Len(policies) \in Nat
BY Policies DEF RInv, Control

LEMMA CancelFails == ASSUME RInv PROVE cancelResult \in Failures /\ cancelResult \in ResultType
<1>1. FailureResult("context") \in Failures
  BY FailureIs
<1> QED BY <1>1, RInvIs DEF cancelResult, Failures

LEMMA RInitial == Init => RInv
<1> SUFFICES ASSUME Init PROVE RInv
  OBVIOUS
<1>1. Control
  <2>1. policies \in Seq(PolicyType) /\ Len(policies) \in Nat
    BY ExecutionAssumption DEF Init
  <2> QED BY <2>1 DEF Init, Control
<1>2. DOMAIN policies = 1..Len(policies) /\ Len(policies) \in Nat /\ policies \in Seq(PolicyType)
  BY <1>1, Policies DEF Control
<1>3. /\ result = Nil /\ canceledResult = Nil /\ phase = "call" /\ level = 1
      /\ retries = 0 /\ executions = 0
      /\ failedAttempts = [l \in DOMAIN policies |-> 0]
      /\ retriesExceeded = [l \in DOMAIN policies |-> FALSE]
  BY DEF Init
<1>4. Nil \in Failures /\ Nil \in ResultType
  <2>1. FailureResult("nil") \in Failures
    BY FailureIs
  <2> QED BY <2>1 DEF Nil, Failures
<1>5. failedAttempts \in [DOMAIN policies -> Nat] /\ retriesExceeded \in [DOMAIN policies -> BOOLEAN]
  BY <1>3
<1>6. \A l \in DOMAIN policies : failedAttempts[l] = 0 /\ ~retriesExceeded[l]
  BY <1>3
<1>7. /\ Placed(policies, level, phase) /\ Left(policies, level, phase, retriesExceeded)
      /\ Judged(policies, level, phase, result)
      /\ Counted(policies, level, phase, result, failedAttempts, executions)
  BY <1>3, <1>6 DEF Placed, Left, Judged, Counted
<1>8. \A l \in Levels(policies) : policies[l].maxRetries \in Nat \cup {-1}
  <2> SUFFICES ASSUME NEW l \in Levels(policies) PROVE policies[l].maxRetries \in Nat \cup {-1}
    OBVIOUS
  <2>1. policies[l] \in PolicyType /\ policies[l].kind = "retry"
    BY <1>2 DEF Levels
  <2>2. policies[l] \in RetryType
    BY <2>1 DEF PolicyType, CacheType, Timeout, Fallback, CircuitBreaker
  <2> QED BY <2>2 DEF RetryType
<1>9. Within(policies, failedAttempts, retriesExceeded)
  BY <1>6, <1>8 DEF Within, Levels
<1>10. Accounted(policies, phase, failedAttempts, retries)
  <2> SUFFICES ASSUME Limited(policies)
               PROVE  retries + Pending(phase)
                        <= SumFunctionOnSet(Allowed(policies, failedAttempts), Levels(policies))
    BY DEF Accounted
  <2> DEFINE S == Levels(policies)
             a == Allowed(policies, failedAttempts)
  <2>1. \A l \in S : a[l] = 0
    BY <1>6, <1>8 DEF Limited, Allowed, Levels
  <2>2. IsFiniteSet(S)
    BY <1>2, LevelsFinite, Zenon
  <2> HIDE DEF S, a
  <2>3. SumFunctionOnSet(a, S) = 0
    <3>1. SumFunctionOnSet(a, S) = 0 * Cardinality(S)
      BY <2>1, <2>2, SumConstant
    <3>2. Cardinality(S) \in Nat
      BY <2>2, FS_CardinalityType
    <3> QED BY <3>1, <3>2
  <2> QED BY <1>3, <2>3 DEF S, a, Pending
<1> QED BY <1>1, <1>3, <1>4, <1>5, <1>7, <1>9, <1>10 DEF RInv, Account

\* A policy returns s, and no executor's failure is counted.
LEMMA PolicyReturns ==
  ASSUME RInv, Control', NEW s \in ResultType, level \in DOMAIN policies, return(s),
         UNCHANGED <<policies, canceledResult, retries, executions, retryState>>,
         Judgement(policies, s, level - 1), Counts(policies, level - 1, s, failedAttempts, executions)
  PROVE  RInv'
<1>1. /\ level' = level - 1 /\ phase' = "return" /\ result' = s
      /\ policies' = policies /\ canceledResult' = canceledResult
      /\ retries' = retries /\ executions' = executions
      /\ failedAttempts' = failedAttempts /\ retriesExceeded' = retriesExceeded
  BY DEF return, retryState
<1>2. Account(policies, level - 1, "return", s, failedAttempts, retriesExceeded, retries, executions)
  BY InLedger, RInvIs, AccountReturns, Zenon
<1> QED BY <1>1, <1>2, RInvIs, RInvAfter, Zenon

\* A policy that judges returns a failure of its own.
LEMMA PolicyFails ==
  ASSUME RInv, Control', NEW s \in Failures, level \in DOMAIN policies, return(s),
         UNCHANGED <<policies, canceledResult, retries, executions, retryState>>,
         \/ policies[level].kind = "retry" \/ policies[level].kind = "breaker"
         \/ policies[level].kind = "fallback" /\ phase \in {"return", "fallback"}
  PROVE  RInv'
<1>1. s \in ResultType /\ s.err # "none" /\ ~s.successAll /\ ~s.exceeded
  BY DEF Failures
<1>2. Judgement(policies, s, level - 1)
  <2>1. Judges(policies, level)
    BY DEF Judges
  <2> QED BY <1>1, <2>1, RInvIs, VerdictFailure, Zenon
<1>3. Counts(policies, level - 1, s, failedAttempts, executions)
  <2>1. CASE policies[level].kind = "breaker"
    BY <2>1, CountsNot
  <2>2. CASE policies[level].kind = "retry" \/ phase \in {"return", "fallback"}
    BY <1>1, <2>2, InLedger, RInvIs, CountsFailure, Zenon
  <2> QED BY <2>1, <2>2
<1> QED BY <1>1, <1>2, <1>3, PolicyReturns, Zenon

\* A policy calls its inner function.
LEMMA PolicyCalls ==
  ASSUME RInv, Control', phase = "call", NEW c, callInner(c),
         UNCHANGED <<policies, canceledResult, retries, executions, retryState>>
  PROVE  RInv'
<1>1. /\ level' = level + 1 /\ phase' = "call" /\ result' = result
      /\ policies' = policies /\ canceledResult' = canceledResult
      /\ retries' = retries /\ executions' = executions
      /\ failedAttempts' = failedAttempts /\ retriesExceeded' = retriesExceeded
  BY DEF callInner, retryState
<1>2. Account(policies, level + 1, "call", result, failedAttempts, retriesExceeded, retries, executions)
  BY RInvIs, AccountCalls, Zenon
<1> QED BY <1>1, <1>2, RInvIs, RInvAfter, Zenon

\* What happens next to the goroutine.
LEMMA Beside ==
  ASSUME RInv, Control', canceledResult' \in Failures,
         UNCHANGED <<policies, level, phase, result, retries, executions, retryState>>
  PROVE  RInv'
<1>1. /\ level' = level /\ phase' = phase /\ result' = result /\ policies' = policies
      /\ retries' = retries /\ executions' = executions
      /\ failedAttempts' = failedAttempts /\ retriesExceeded' = retriesExceeded
  BY DEF retryState
<1> QED BY <1>1, RInvIs, RInvAfter, Zenon

\* The function returns or panics, and the execution ends.
LEMMA FunctionAccount ==
  ASSUME RInv, Control', (\E err \in FnErrors : fnReturns(err)) \/ fnPanics \/ record
  PROVE  RInv'
<1>1. ASSUME NEW err \in FnErrors, fnReturns(err) PROVE RInv'
  <2>1. /\ level' = level - 1 /\ phase' = "return" /\ result' = FnResult(err)
        /\ policies' = policies /\ canceledResult' = canceledResult
        /\ retries' = retries /\ executions' = executions + 1
        /\ failedAttempts' = failedAttempts /\ retriesExceeded' = retriesExceeded
        /\ phase = "call" /\ level = Len(policies) + 1
    BY <1>1 DEF fnReturns, return, retryState
  <2>2. Account(policies, level - 1, "return", FnResult(err), failedAttempts, retriesExceeded, retries,
                executions + 1)
    BY <2>1, InLedger, RInvIs, AccountFn, Zenon
  <2>3. FnResult(err) \in ResultType
    BY NewResults, Zenon
  <2>4. executions + 1 \in Nat
    BY RInvIs
  <2> QED BY <2>1, <2>2, <2>3, <2>4, RInvIs, RInvAfter, Zenon
<1>2. CASE fnPanics
  <2>1. /\ level' = level /\ phase' = "panicked" /\ result' = result
        /\ policies' = policies /\ canceledResult' = canceledResult
        /\ retries' = retries /\ executions' = executions
        /\ failedAttempts' = failedAttempts /\ retriesExceeded' = retriesExceeded
        /\ phase = "call"
    BY <1>2 DEF fnPanics, goOn, retryState, shared, counters
  <2>2. Account(policies, level, "panicked", result, failedAttempts, retriesExceeded, retries, executions)
    BY <2>1, RInvIs, AccountCalls, Zenon
  <2> QED BY <2>1, <2>2, RInvIs, RInvAfter, Zenon
<1>3. CASE record
  <2>1. /\ level' = level /\ phase' = "done" /\ result' = result
        /\ policies' = policies /\ canceledResult' = canceledResult
        /\ retries' = retries /\ executions' = executions
        /\ failedAttempts' = failedAttempts /\ retriesExceeded' = retriesExceeded
        /\ phase = "return" /\ level = 0
    BY <1>3 DEF record, goOn, retryState, shared, counters
  <2>2. Account(policies, level, "done", result, failedAttempts, retriesExceeded, retries, executions)
    BY <2>1, RInvIs, AccountGoesOn, Zenon
  <2> QED BY <2>1, <2>2, RInvIs, RInvAfter, Zenon
<1> QED BY <1>1, <1>2, <1>3

LEMMA Verdict == ASSUME RInv, phase = "return" PROVE Judgement(policies, result, level)
BY RInvIs DEF Account, Judged

\* What a policy makes of the result of its inner function, a Timeout of an error in its own way.
LEMMA PostVerdict ==
  ASSUME RInv, phase = "return", level \in DOMAIN policies
  PROVE  /\ Judges(policies, level) => Judgement(policies, PostExecute(policy, result), level - 1)
         /\ policies[level].kind = "timeout" => Judgement(policies, PostExecute(policy, result), level - 1)
<1>1. Judgement(policies, result, level) /\ result \in ResultType /\ DOMAIN policies \subseteq Nat
  BY Verdict, RInvIs, Zenon
<1>2. PostExecute(policy, result).err = result.err
  BY <1>1, SameError, Zenon
<1>3. /\ IsFailure(policy, result) => ~PostExecute(policy, result).successAll
      /\ ~IsFailure(policy, result) => PostExecute(policy, result).successAll = result.successAll
  BY <1>1, PostExecuteFlags, Zenon
<1>4. ASSUME Judges(policies, level) PROVE Judgement(policies, PostExecute(policy, result), level - 1)
  <2>1. IsFailure(policy, result) <=> result.err # "none"
    BY <1>4 DEF IsFailure, Judges, policy
  <2>2. CASE result.err = "none"
    <3>1. result.successAll
      BY <1>1, <2>2 DEF Judgement
    <3> QED BY <1>2, <1>3, <2>1, <2>2, <3>1, VerdictNone, Zenon
  <2>3. CASE result.err # "none"
    BY <1>1, <1>2, <1>3, <1>4, <2>1, <2>3, VerdictFailure, Zenon
  <2> QED BY <2>2, <2>3
<1>5. ASSUME policies[level].kind = "timeout"
      PROVE  Judgement(policies, PostExecute(policy, result), level - 1)
  <2>1. IsFailure(policy, result) <=> result.err = "timeout"
    BY <1>5 DEF IsFailure, policy
  <2>2. CASE result.err = "timeout"
    BY <1>2, <1>3, <2>1, <2>2, VerdictTimeout, Zenon
  <2>3. CASE result.err # "timeout"
    <3>1. ~Judges(policies, level)
      BY <1>5 DEF Judges
    <3> QED BY <1>1, <1>2, <1>3, <2>1, <2>3, <3>1, VerdictKept, Zenon
  <2> QED BY <2>2, <2>3
<1> QED BY <1>4, <1>5

\* The policies that do nothing of their own, and a breaker.
LEMMA BreakerAccount ==
  ASSUME RInv, Control', callThrough \/ callBreaker \/ breakerReturns
  PROVE  RInv'
<1>1. CASE callThrough
  <2>1. /\ phase = "call" /\ callInner(exec[level])
        /\ UNCHANGED <<policies, canceledResult, retries, executions, retryState>>
    BY <1>1 DEF callThrough, At, shared, counters
  <2> QED BY <2>1, PolicyCalls, Zenon
<1>2. CASE callBreaker
  <2>1. /\ phase = "call" /\ level \in DOMAIN policies /\ policies[level].kind = "breaker"
        /\ callInner(exec[level]) \/ return(FailureResult("open"))
        /\ UNCHANGED <<policies, canceledResult, retries, executions, retryState>>
    BY <1>2 DEF callBreaker, At, policy, shared, counters
  <2>2. FailureResult("open") \in Failures
    BY FailureIs
  <2>3. CASE callInner(exec[level])
    BY <2>1, <2>3, PolicyCalls, Zenon
  <2>4. CASE return(FailureResult("open"))
    BY <2>1, <2>2, <2>4, PolicyFails, Zenon
  <2> QED BY <2>1, <2>3, <2>4
<1>3. CASE breakerReturns
  <2>1. /\ phase = "return" /\ level \in DOMAIN policies /\ policies[level].kind = "breaker"
        /\ return(PostExecute(policy, result))
        /\ UNCHANGED <<policies, canceledResult, retries, executions, retryState>>
    BY <1>3 DEF breakerReturns, At, policy, shared, counters
  <2>2. PostExecute(policy, result) \in ResultType
    BY RInvIs, SameError, Zenon
  <2>3. Judgement(policies, PostExecute(policy, result), level - 1)
    <3>1. Judges(policies, level)
      BY <2>1 DEF Judges
    <3> QED BY <2>1, <3>1, PostVerdict, Zenon
  <2>4. Counts(policies, level - 1, PostExecute(policy, result), failedAttempts, executions)
    BY <2>1, CountsNot
  <2> QED BY <2>1, <2>2, <2>3, <2>4, PolicyReturns, Zenon
<1> QED BY <1>1, <1>2, <1>3

LEMMA CacheAccount ==
  ASSUME RInv, Control', callCache \/ cacheReturns
  PROVE  RInv'
<1>1. /\ level \in DOMAIN policies /\ policies[level].kind = "cache"
      /\ UNCHANGED <<policies, canceledResult, retries, executions, retryState>>
  BY Zenon DEF callCache, cacheReturns, At, policy, shared, counters
<1>2. \A s : Counts(policies, level - 1, s, failedAttempts, executions)
  BY <1>1, CountsNot
<1>3. CASE callCache
  <2>1. phase = "call" /\ (callInner(exec[level]) \/ return(FnResult("none")))
    BY <1>3, Zenon DEF callCache, At
  <2>2. CASE callInner(exec[level])
    BY <1>1, <2>1, <2>2, PolicyCalls, Zenon
  <2>3. CASE return(FnResult("none"))
    <3>1. FnResult("none") \in ResultType /\ FnResult("none").err = "none" /\ FnResult("none").successAll
      BY NewResults, FnFlags DEF FnErrors
    <3>2. Judgement(policies, FnResult("none"), level - 1)
      BY <3>1, VerdictNone, Zenon
    <3> QED BY <1>1, <1>2, <2>3, <3>1, <3>2, PolicyReturns, Zenon
  <2> QED BY <2>1, <2>2, <2>3
<1>4. CASE cacheReturns
  <2>1. phase = "return" /\ return(result)
    BY <1>4, Zenon DEF cacheReturns, At
  <2>2. ~Judges(policies, level)
    BY <1>1 DEF Judges
  <2>3. Judgement(policies, result, level - 1)
    BY <1>1, <2>1, <2>2, Verdict, RInvIs, VerdictKept, Zenon
  <2>4. result \in ResultType
    BY RInvIs
  <2> QED BY <1>1, <1>2, <2>1, <2>3, <2>4, PolicyReturns, Zenon
<1> QED BY <1>3, <1>4

LEMMA TimeoutAccount ==
  ASSUME RInv, Control', callTimeout \/ timeoutReturns
  PROVE  RInv'
<1>1. /\ level \in DOMAIN policies /\ policies[level].kind = "timeout" /\ policies[level].kind # "retry"
      /\ UNCHANGED <<policies, canceledResult, retries, executions, retryState>>
  BY DEF callTimeout, timeoutReturns, At, policy, counters
<1>2. CASE callTimeout
  <2>1. phase = "call" /\ \E c : callInner(c)
    BY <1>2, Zenon DEF callTimeout, At
  <2> QED BY <1>1, <2>1, PolicyCalls, Zenon
<1>3. CASE timeoutReturns
  <2> DEFINE late == FailureResult("timeout")
  <2>1. phase = "return" /\ (return(PostExecute(policy, result)) \/ return(PostExecute(policy, late)))
    BY <1>3, Zenon DEF timeoutReturns, At
  <2>2. Ledger(policies, Len(policies), level, failedAttempts, retriesExceeded, retries, executions)
    BY InLedger
  <2>3. Account(policies, level, "return", result, failedAttempts, retriesExceeded, retries, executions)
    BY <2>1, RInvIs, Zenon
  <2>4. CASE return(PostExecute(policy, result))
    <3>1. PostExecute(policy, result) \in ResultType /\ PostExecute(policy, result).exceeded = result.exceeded
      BY RInvIs, SameError, PostExecuteFlags, Zenon
    <3>2. Judgement(policies, PostExecute(policy, result), level - 1)
      BY <1>1, <2>1, PostVerdict, Zenon
    <3>3. Counts(policies, level - 1, PostExecute(policy, result), failedAttempts, executions)
      BY <1>1, <2>2, <2>3, <3>1, CountsKept, Zenon
    <3> QED BY <1>1, <2>4, <3>1, <3>2, <3>3, PolicyReturns, Zenon
  <2>5. CASE return(PostExecute(policy, late))
    <3>1. late \in ResultType /\ late.err = "timeout" /\ ~late.exceeded
      BY NewResults, FailureIs, Zenon DEF Failures
    <3>2. IsFailure(policy, late)
      BY <1>1, <3>1 DEF IsFailure, policy
    <3> HIDE DEF late
    <3>3. /\ PostExecute(policy, late) \in ResultType /\ PostExecute(policy, late).err = "timeout"
          /\ ~PostExecute(policy, late).exceeded /\ ~PostExecute(policy, late).successAll
      BY <3>1, <3>2, SameError, PostExecuteFlags, Zenon
    <3>4. Judgement(policies, PostExecute(policy, late), level - 1)
      BY <3>3, VerdictTimeout, Zenon
    <3>5. Counts(policies, level - 1, PostExecute(policy, late), failedAttempts, executions)
      BY <1>1, <2>2, <2>3, <3>3, CountsKept, Zenon
    <3> QED BY <1>1, <2>5, <3>3, <3>4, <3>5, PolicyReturns, Zenon
  <2> QED BY <2>1, <2>4, <2>5
<1> QED BY <1>2, <1>3

LEMMA FallbackAccount ==
  ASSUME RInv, Control', fallbackReturns \/ \E err \in {"none", "fail"} : fallbackFnReturns(err)
  PROVE  RInv'
<1>1. /\ level \in DOMAIN policies /\ policies[level].kind = "fallback" /\ policies[level].kind # "retry"
      /\ phase \in {"return", "fallback"}
      /\ UNCHANGED <<policies, canceledResult, retries, executions, retryState>>
  <2>1. CASE fallbackReturns
    BY <2>1 DEF fallbackReturns, At, policy, shared, counters
  <2>2. ASSUME NEW err, fallbackFnReturns(err)
        PROVE  /\ phase = "fallback" 
               /\ UNCHANGED <<policies, canceledResult, retries, executions, retryState>>
    BY <2>2, ZenonT(30) DEF fallbackFnReturns, shared, counters
  <2>3. phase = "fallback" => level \in DOMAIN policies /\ policies[level].kind = "fallback"
    BY RInvIs, Zenon DEF RInv, Control, Account, Placed
  <2> QED BY <2>1, <2>2, <2>3, SMTT(20)
<1>2. CASE return(cancelResult)
  BY <1>1, <1>2, CancelFails, PolicyFails, Zenon
<1>3. CASE fallbackReturns /\ ~return(cancelResult)
  <2> DEFINE s == PostExecute(policy, result)
  <2>1. phase = "return" /\ ((s.success /\ return(s)) \/ goOn("fallback", s))
    BY <1>3, Zenon DEF fallbackReturns, At
  <2>2. Account(policies, level, "return", result, failedAttempts, retriesExceeded, retries, executions)
    BY <2>1, RInvIs, Zenon
  <2>3. s \in ResultType /\ s.exceeded = result.exceeded
    BY RInvIs, SameError, PostExecuteFlags, Zenon
  <2>4. CASE return(s)
    <3>1. Judges(policies, level)
      BY <1>1 DEF Judges
    <3>2. Judgement(policies, s, level - 1)
      BY <1>1, <2>1, <3>1, PostVerdict, Zenon
    <3>3. Counts(policies, level - 1, s, failedAttempts, executions)
      BY <1>1, <2>2, <2>3, InLedger, CountsKept, Zenon
    <3> QED BY <1>1, <2>3, <2>4, <3>2, <3>3, PolicyReturns, ZenonT(30)
  <2>5. CASE goOn("fallback", s)
    <3>1. /\ level' = level /\ phase' = "fallback" /\ result' = s
          /\ policies' = policies /\ canceledResult' = canceledResult
          /\ retries' = retries /\ executions' = executions
          /\ failedAttempts' = failedAttempts /\ retriesExceeded' = retriesExceeded
      BY <1>1, <2>5, Zenon DEF goOn, retryState
    <3>2. Account(policies, level, "fallback", s, failedAttempts, retriesExceeded, retries, executions)
      BY <1>1, <2>2, AccountHandles, Zenon
    <3> HIDE DEF s
    <3> QED BY <2>3, <3>1, <3>2, RInvIs, RInvAfter, ZenonT(30)
  <2> QED BY <2>1, <2>4, <2>5
<1>4. ASSUME NEW err \in {"none", "fail"}, fallbackFnReturns(err), ~return(cancelResult) PROVE RInv'
  <2> DEFINE s == IF IsFailure(policy, FnResult(err)) THEN FailureResult(err) ELSE FnResult(err)
  <2>1. return(s)
    BY <1>4, Zenon DEF fallbackFnReturns
  <2>2. FnResult(err).err = err /\ FnResult(err) \in ResultType /\ FnResult(err).successAll
        /\ ~FnResult(err).exceeded
    BY NewResults, FnFlags DEF FnErrors
  <2>3. IsFailure(policy, FnResult(err)) <=> err # "none"
    BY <1>1, <2>2 DEF IsFailure, policy
  <2>4. CASE err = "none"
    <3>1. return(FnResult(err))
      BY <2>1, <2>3, <2>4
    <3>2. Judgement(policies, FnResult(err), level - 1)
      BY <2>2, <2>4, VerdictNone, Zenon
    <3>3. Counts(policies, level - 1, FnResult(err), failedAttempts, executions)
      BY <1>1, <2>2, InLedger, RInvIs, CountsFailure, Zenon
    <3> QED BY <1>1, <2>2, <3>1, <3>2, <3>3, PolicyReturns, Zenon
  <2>5. CASE err # "none"
    <3>1. return(FailureResult(err))
      BY <2>1, <2>3, <2>5
    <3>2. FailureResult(err) \in Failures
      BY <2>5, FailureIs
    <3> QED BY <1>1, <3>1, <3>2, PolicyFails, Zenon
  <2> QED BY <2>4, <2>5
<1> QED BY <1>2, <1>3, <1>4

\* OnFailure counts the failure, and returns it or asks for a retry.
LEMMA FailureAccount ==
  ASSUME RInv, Control', At("return", "retry"), ~retriesExceeded[level], IsFailure(policy, result),
         NEW overdue \in {FALSE, policy.maxDuration}, OnFailure(WithFailure(result), overdue),
         UNCHANGED <<policies, canceledResult, retries, executions>>
  PROVE  RInv'
<1> DEFINE r == WithFailure(result)
           failed == failedAttempts[level] + 1
           exceeded == maxRetriesExceeded(policy, failed) \/ overdue
           given == [FailureResult(r.err) EXCEPT !.exceeded = TRUE]
<1>1. /\ level \in DOMAIN policies /\ policies[level].kind = "retry" /\ phase = "return"
      /\ policies' = policies /\ canceledResult' = canceledResult
      /\ retries' = retries /\ executions' = executions
  BY DEF At, policy
<1>2. /\ Ledger(policies, Len(policies), level, failedAttempts, retriesExceeded, retries, executions)
      /\ Account(policies, level, "return", result, failedAttempts, retriesExceeded, retries, executions)
  BY <1>1, InLedger, RInvIs, Zenon
<1>3. /\ failedAttempts' = [failedAttempts EXCEPT ![level] = failed]
      /\ retriesExceeded' = [retriesExceeded EXCEPT ![level] = exceeded]
      /\ \/ exceeded /\ return(given)
         \/ ~exceeded /\ goOn("record", WithDone(r, FALSE, FALSE))
         \/ return(WithDone(r, TRUE, FALSE))
  BY Zenon DEF OnFailure
<1>4. Fails(policies, level, failedAttempts, retriesExceeded, failedAttempts', retriesExceeded', exceeded)
  <2>1. policies[level] \in RetryType
    <3>1. policies[level] \in PolicyType
      BY <1>1, Policies DEF RInv, Control
    <3> QED BY <1>1, <3>1 DEF PolicyType, CacheType, Timeout, Fallback, CircuitBreaker
  <2>2. overdue \in BOOLEAN /\ (overdue => policies[level].maxDuration)
    BY <2>1, Zenon DEF RetryType, policy
  <2>3. exceeded \in BOOLEAN
    BY <2>2 DEF maxRetriesExceeded
  <2> QED BY <1>1, <1>3, <2>2, <2>3, Zenon DEF Fails, policy
<1> HIDE DEF failed, exceeded
<1>5. Failed(policies, level, failedAttempts, retriesExceeded, failedAttempts', retriesExceeded', exceeded)
  BY <1>1, <1>2, <1>4, FailsType, Zenon
<1>6. failedAttempts' \in [DOMAIN policies' -> Nat] /\ retriesExceeded' \in [DOMAIN policies' -> BOOLEAN]
  BY <1>1, <1>5, Zenon DEF Failed
<1>7. Judges(policies, level)
  BY <1>1 DEF Judges
<1>8. result \in ResultType /\ result.err # "none"
  BY <1>1, RInvIs DEF IsFailure, policy
<1>9. r \in ResultType /\ r.err = result.err /\ r.exceeded = result.exceeded
  BY <1>8, SameError, SameFlags, Zenon
<1>10. ASSUME NEW s \in ResultType, return(s), ~s.successAll, s.err # "none",
              s.exceeded => exceeded \/ result.exceeded
       PROVE  RInv'
  <2>1. Judgement(policies, s, level - 1)
    BY <1>1, <1>7, <1>10, RInvIs, VerdictFailure, Zenon
  <2>2. Account(policies, level - 1, "return", s, failedAttempts', retriesExceeded', retries, executions)
    BY <1>1, <1>2, <1>4, <1>10, <2>1, AccountFails, Zenon
  <2>3. level' = level - 1 /\ phase' = "return" /\ result' = s
    BY <1>10 DEF return
  <2> QED BY <1>1, <1>6, <1>10, <2>2, <2>3, RInvIs, RInvAfter, Zenon
<1>11. CASE exceeded /\ return(given)
  <2>1. given \in ResultType /\ given.err # "none"
    <3>1. r.err \in FnErrors \cup {"nil", "timeout", "canceled", "context", "open"}
      BY <1>8, <1>9, SameError, Zenon
    <3> QED BY <1>8, <1>9, <3>1, NewResults, Zenon
  <2>2. ~given.successAll
    BY Zenon DEF FailureResult
  <2> QED BY <1>10, <1>11, <2>1, <2>2, Zenon
<1>12. CASE ~exceeded /\ goOn("record", WithDone(r, FALSE, FALSE))
  <2>1. WithDone(r, FALSE, FALSE) \in ResultType
    BY <1>9, SameError, Zenon
  <2>2. Account(policies, level, "record", WithDone(r, FALSE, FALSE), failedAttempts', retriesExceeded',
                retries, executions)
    <3>1. After("record", exceeded)
      BY <1>12 DEF After
    <3> QED BY <1>1, <1>2, <1>4, <3>1, AccountAsks, Zenon
  <2>3. level' = level /\ phase' = "record" /\ result' = WithDone(r, FALSE, FALSE)
    BY <1>12 DEF goOn
  <2> QED BY <1>1, <1>6, <2>1, <2>2, <2>3, RInvIs, RInvAfter, Zenon
<1>13. CASE return(WithDone(r, TRUE, FALSE))
  <2>1. WithDone(r, TRUE, FALSE) \in ResultType /\ WithDone(r, TRUE, FALSE).err # "none"
    BY <1>8, <1>9, SameError, Zenon
  <2>2. ~WithDone(r, TRUE, FALSE).successAll /\ WithDone(r, TRUE, FALSE).exceeded = result.exceeded
    BY <1>9, SameFlags, Zenon
  <2> QED BY <1>10, <1>13, <2>1, <2>2, Zenon
<1> QED BY <1>3, <1>11, <1>12, <1>13, Zenon

LEMMA RetryAccount ==
  ASSUME RInv, Control', retryReturns \/ RecordResult \/ InitializeRetry \/ beginRetry
  PROVE  RInv'
<1>1. /\ level \in DOMAIN policies /\ policies[level].kind = "retry" /\ policies' = policies
      /\ DOMAIN policies \subseteq Nat
  <2>1. phase \in {"record", "delay", "retry"} => level \in DOMAIN policies /\ policies[level].kind = "retry"
    BY RInvIs, Zenon DEF RInv, Control, Account, Placed
  <2>2. DOMAIN policies \subseteq Nat
    BY RInvIs
  <2> QED BY <2>1, <2>2, ZenonT(30) DEF retryReturns, RecordResult, InitializeRetry, beginRetry, At, policy
<1>2. ASSUME return(cancelResult), UNCHANGED <<canceledResult, retries, executions, retryState>> PROVE RInv'
  <2>1. UNCHANGED <<policies, canceledResult, retries, executions, retryState>>
    BY <1>1, <1>2
  <2> QED BY <1>1, <1>2, <2>1, CancelFails, PolicyFails, ZenonT(30)
<1>3. CASE retryReturns
  <2>1. /\ phase = "return" /\ At("return", "retry")
        /\ UNCHANGED <<policies, canceledResult, retries, executions>>
    BY <1>3, Zenon DEF retryReturns, At, shared, counters
  <2>2. /\ Ledger(policies, Len(policies), level, failedAttempts, retriesExceeded, retries, executions)
        /\ Account(policies, level, "return", result, failedAttempts, retriesExceeded, retries, executions)
    BY <2>1, InLedger, RInvIs, Zenon
  <2>3. Judgement(policies, result, level) /\ result \in ResultType
    BY <2>1, Verdict, RInvIs, Zenon
  <2>4. CASE return(cancelResult) /\ UNCHANGED retryState
    <3>1. UNCHANGED <<canceledResult, retries, executions, retryState>>
      BY <2>1, <2>4
    <3> QED BY <1>2, <2>4, <3>1
  <2>5. CASE retriesExceeded[level] /\ return(result) /\ UNCHANGED retryState
    <3>1. /\ Counts(policies, level - 1, result, failedAttempts, executions)
          /\ \E k \in Levels(policies) : k <= level - 1
      BY <1>1, <2>2, <2>5, CountsPassed, Zenon
    <3>2. Judgement(policies, result, level - 1)
      BY <1>1, <2>3, <3>1, VerdictKept, Zenon
    <3>3. UNCHANGED <<policies, canceledResult, retries, executions, retryState>>
      BY <2>1, <2>5
    <3> QED BY <1>1, <2>3, <2>5, <3>1, <3>2, <3>3, PolicyReturns, Zenon
  <2>6. CASE ~retriesExceeded[level] /\ IsFailure(policy, result)
             /\ \E overdue \in {FALSE, policy.maxDuration} : OnFailure(WithFailure(result), overdue)
    BY <2>1, <2>6, FailureAccount, Zenon
  <2>7. CASE ~IsFailure(policy, result) /\ return(WithDone(result, TRUE, TRUE)) /\ UNCHANGED retryState
    <3> DEFINE s == WithDone(result, TRUE, TRUE)
    <3>1. result.err = "none"
      BY <1>1, <2>7 DEF IsFailure, policy
    <3>2. s \in ResultType /\ s.err = "none" /\ s.successAll /\ s.exceeded = result.exceeded
      <4>1. result.successAll
        BY <2>3, <3>1 DEF Judgement
      <4> QED BY <2>3, <3>1, <4>1, SameError, SameFlags, Zenon
    <3> HIDE DEF s
    <3>3. Judgement(policies, s, level - 1)
      BY <3>2, VerdictNone, Zenon
    <3>4. Counts(policies, level - 1, s, failedAttempts, executions)
      BY <1>1, <2>2, <3>2, CountsSame, Zenon
    <3>5. UNCHANGED <<policies, canceledResult, retries, executions, retryState>> /\ return(s)
      BY <2>1, <2>7, Zenon DEF s
    <3> QED BY <1>1, <3>2, <3>3, <3>4, <3>5, PolicyReturns, Zenon
  <2> QED BY <1>3, <2>4, <2>5, <2>6, <2>7, Zenon DEF retryReturns
<1>4. CASE RecordResult
  <2>1. /\ phase = "record" /\ UNCHANGED <<canceledResult, retries, executions, retryState>>
        /\ return(cancelResult) \/ goOn("delay", result)
    BY <1>4, Zenon DEF RecordResult, shared, counters
  <2>2. CASE goOn("delay", result)
    <3>1. /\ level' = level /\ phase' = "delay" /\ result' = result /\ canceledResult' = canceledResult
          /\ retries' = retries /\ executions' = executions
          /\ failedAttempts' = failedAttempts /\ retriesExceeded' = retriesExceeded
      BY <2>1, <2>2 DEF goOn, retryState
    <3>2. Account(policies, level, "delay", result, failedAttempts, retriesExceeded, retries, executions)
      BY <2>1, RInvIs, AccountGoesOn, Zenon
    <3> QED BY <1>1, <3>1, <3>2, RInvIs, RInvAfter, Zenon
  <2> QED BY <1>2, <2>1, <2>2
<1>5. CASE InitializeRetry
  <2>1. /\ phase = "delay" /\ UNCHANGED <<canceledResult, retries, executions, retryState>>
        /\ return(cancelResult) \/ goOn("retry", result)
    BY <1>5, Zenon DEF InitializeRetry, shared, counters
  <2>2. CASE goOn("retry", result)
    <3>1. /\ level' = level /\ phase' = "retry" /\ result' = result /\ canceledResult' = canceledResult
          /\ retries' = retries /\ executions' = executions
          /\ failedAttempts' = failedAttempts /\ retriesExceeded' = retriesExceeded
      BY <2>1, <2>2 DEF goOn, retryState
    <3>2. Account(policies, level, "retry", result, failedAttempts, retriesExceeded, retries, executions)
      BY <2>1, RInvIs, AccountGoesOn, Zenon
    <3> QED BY <1>1, <3>1, <3>2, RInvIs, RInvAfter, Zenon
  <2> QED BY <1>2, <2>1, <2>2
<1>6. CASE beginRetry
  <2>1. /\ phase = "retry" /\ failedAttempts' = failedAttempts /\ retriesExceeded' = retriesExceeded
        /\ level' = level + 1 /\ phase' = "call" /\ result' = result /\ canceledResult' = Nil
        /\ retries' = retries + 1 /\ executions' = executions
    BY <1>6 DEF beginRetry, retryState
  <2>2. Account(policies, level + 1, "call", result, failedAttempts, retriesExceeded, retries + 1, executions)
    BY <2>1, InLedger, RInvIs, AccountRetries, Zenon
  <2>3. Nil \in Failures /\ retries + 1 \in Nat
    BY RInvIs, FailureIs DEF Nil
  <2> QED BY <1>1, <2>1, <2>2, <2>3, RInvIs, RInvAfter, Zenon
<1> QED BY <1>3, <1>4, <1>5, <1>6

\* Timers, cancellations and other executions.
LEMMA AsideAccount ==
  ASSUME RInv, Control',
         \/ \E c \in DOMAIN ctxs : timerFires(c) \/ timerCancels(c)
         \/ \E l \in DOMAIN policies, err \in FnErrors : otherStores(l, err)
         \/ CancelMarks \/ CancelPropagates \/ contextDone \/ UNCHANGED vars
  PROVE  RInv'
<1>1. UNCHANGED <<policies, level, phase, result, retries, executions, retryState>>
  BY Zenon DEF timerFires, timerCancels, otherStores, CancelMarks, CancelPropagates, contextDone, goroutine,
       shared, counters, vars
<1>2. canceledResult' \in {canceledResult, FailureResult("timeout"), FailureResult("canceled")}
  BY Zenon DEF timerFires, timerCancels, otherStores, CancelMarks, CancelPropagates, contextDone, shared, vars
<1>3. canceledResult' \in Failures
  BY <1>2, RInvIs, FailureIs
<1> QED BY <1>1, <1>3, Beside, Zenon

LEMMA RInductive == RInv /\ [Next]_vars => RInv'
<1> SUFFICES ASSUME RInv, [Next]_vars PROVE RInv'
  OBVIOUS
<1>1. Control'
  BY ControlKept DEF RInv
<1>2. CASE Step
  BY ZenonT(30), <1>1, <1>2, FunctionAccount, BreakerAccount, CacheAccount, TimeoutAccount, RetryAccount,
      FallbackAccount, Zenon DEF Step
<1>3. CASE (Next /\ ~Step) \/ UNCHANGED vars
  BY <1>1, <1>3, AsideAccount, Zenon DEF Next, Terminated
<1> QED BY <1>2, <1>3

LEMMA RInvariant == Spec => []RInv
<1> QED BY RInitial, RInductive, PTL DEF Spec

(***************************************************************************)
(* In every composition, and wherever timers and cancellations strike, an  *)
(* execution ends as SuccessAll exactly if it ends without an error, or    *)
(* with one that none of its policies judges (PolicyResult.WithDone and    *)
(* WithFailure through every PostExecute, executor.execute).               *)
(***************************************************************************)
THEOREM SuccessOfAll == Spec => []SuccessAllIsSuccess
<1>1. ASSUME RInv PROVE SuccessAllIsSuccess
  <2> SUFFICES ASSUME phase = "done"
               PROVE  result.successAll <=>
                        \/ result.err = "none"
                        \/ /\ \A l \in DOMAIN policies : policies[l].kind \in {"timeout", "cache"}
                           /\ result.err # "timeout"
    BY DEF SuccessAllIsSuccess
  <2>1. Judgement(policies, result, 0)
    BY <1>1, RInvIs DEF Account, Placed, Judged
  <2>2. DOMAIN policies \subseteq Nat \ {0} /\ \A l \in DOMAIN policies : l > 0 /\ ~(l <= 0)
    BY <1>1, RInvIs
  <2>3. \A l \in DOMAIN policies : Judges(policies, l) <=> policies[l].kind \notin {"timeout", "cache"}
    BY DEF Judges
  <2>4. Levels(policies) \subseteq DOMAIN policies
    BY DEF Levels
  <2> QED BY <2>1, <2>2, <2>3, <2>4, Zenon DEF Judgement
<1> QED BY <1>1, RInvariant, PTL

(***************************************************************************)
(* In every composition, the retries of an execution are at most the sum   *)
(* of the limits of its retry policies, and an ExceededError of a single   *)
(* one tells how often the function has run (retryexecutor.go: OnFailure   *)
(* and its failedAttempts, which all attempts of an execution share).      *)
(***************************************************************************)
THEOREM RetryLimits == Spec => []RetriesBounded
<1>1. ASSUME RInv PROVE RetriesBounded
  <2>1. RetryLevels = Levels(policies)
    BY DEF RetryLevels, Levels
  <2>2. /\ Ledger(policies, Len(policies), level, failedAttempts, retriesExceeded, retries, executions)
        /\ Account(policies, level, phase, result, failedAttempts, retriesExceeded, retries, executions)
        /\ Len(policies) \in Nat /\ DOMAIN policies = 1..Len(policies) /\ retries \in Nat
    BY <1>1, InLedger, RInvIs, Zenon
  <2>3. Levels(policies) \subseteq DOMAIN policies /\ IsFiniteSet(Levels(policies))
    BY <2>2, LevelsFinite, Zenon
  <2>4. ASSUME \A l \in RetryLevels : policies[l].maxRetries # -1
        PROVE  retries <= SumFunctionOnSet([l \in RetryLevels |-> policies[l].maxRetries], RetryLevels)
    <3> DEFINE S == Levels(policies)
               a == Allowed(policies, failedAttempts)
               b == [l \in S |-> policies[l].maxRetries]
    <3>1. Limited(policies) /\ \A l \in S : policies[l].maxRetries \in Nat
      BY <2>1, <2>2, <2>4, SMTT(20) DEF Limited, Ledger
    <3>2. \A l \in S : a[l] \in Int /\ b[l] \in Int /\ a[l] <= b[l]
      BY <2>2, <2>3, <3>1 DEF Allowed, Ledger
    <3>3. SumFunctionOnSet(a, S) \in Int
      BY <2>2, <3>1, AllowedSum, Zenon DEF Ledger
    <3>4. retries + Pending(phase) <= SumFunctionOnSet(a, S)
      BY <2>2, <3>1, Zenon DEF Account, Accounted
    <3>5. IsFiniteSet(S)
      BY <2>3
    <3> HIDE DEF a, b, S
    <3>6. SumFunctionOnSet(a, S) <= SumFunctionOnSet(b, S)
      BY <3>2, <3>5, SumMonotone
    <3>7. SumFunctionOnSet(b, S) \in Int
      BY <3>2, <3>5, SumType
    <3>8. Pending(phase) \in {0, 1}
      BY DEF Pending
    <3>9. retries <= SumFunctionOnSet(b, S)
      BY <2>2, <3>3, <3>4, <3>6, <3>7, <3>8, SMTT(20)
    <3> QED BY <2>1, <3>9 DEF b, S
  <2>5. ASSUME phase = "done", result.exceeded, ~Uses("breaker"), ~Uses("cache"),
               NEW l \in RetryLevels, Cardinality(RetryLevels) = 1, ~policies[l].maxDuration
        PROVE  executions = policies[l].maxRetries + 1
    <3>1. Levels(policies) = {l}
      BY <2>1, <2>3, <2>5, FS_Singleton
    <3>2. l \in DOMAIN policies /\ Lone(policies, l)
      BY <2>5, <3>1, Zenon DEF Lone, Uses, RetryLevels
    <3>3. level = 0 /\ 0 < l
      BY <2>2, <2>5, <3>2, SMTT(20) DEF Account, Placed
    <3> QED BY <2>2, <2>5, <3>2, <3>3, ZenonT(30) DEF Account, Counted, Counts
  <2> QED BY <2>4, <2>5 DEF RetriesBounded
<1> QED BY <1>1, RInvariant, PTL
=============================================================================
