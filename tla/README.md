# Failsafe-go: a TLA+ verification project

Failsafe-go composes *policies* (retry, timeout, circuit breaker, bulkhead, rate
limiter, fallback, hedge, cache) around a user function. This directory models
the policies and their composition in TLA+, checks the models with TLC and
proves the central invariants with TLAPS. `PROJECT.json` has the exact
correspondence: `map` names the source lines of every definition, `runs` the
model-checking runs, `mutants` a plausible bug per property that the run
catches, `hazards` what is hard to test and which property is about it.

## The system

| Part | State | Operations | Shared with |
|---|---|---|---|
| Executor, execution (`executor.go`, `execution.go`, `result.go`) | counters, context tree, `canceledResult`, all shared by the copies of an execution | compose and apply policies, `RecordResult`, `InitializeRetry`, `Cancel`, async `Cancel` | every policy of the composition; timers; the caller |
| Retry policy (`retrypolicy/`) | `failedAttempts`, `retriesExceeded`, `lastDelay`, per execution | the retry loop, `OnFailure` | cancels from timeouts and callers |
| Timeout (`timeout/`) | a result cell and a timer, per attempt | race of timer and inner function | cancels the execution below it |
| Fallback (`fallback/`) | none | replace a failed result | cancels from above |
| Circuit breaker (`circuitbreaker/`) | state object, statistics, permits; one lock | acquire, record, open, half-open, close, reset | all executions that use the breaker |
| Bulkhead (`bulkhead/`) | a buffered channel | four ways to acquire, release | all executions that use it |
| Rate limiter (`ratelimiter/`) | next free time, or permits and period; one lock | reserve, acquire, reset | all executions that use it |
| Hedge policy (`hedgepolicy/`) | concurrent copies, result counter and flag | start hedges, take a result, cancel the others | execution counters and cancellation |
| Cache policy (`cachepolicy/`) | the user's cache | lookup, store | executions with the same key |
| HTTP and gRPC (`failsafehttp/`, `failsafegrpc/`), `MergeContexts` | request bodies, merged contexts | run a request through an executor | contexts |

What is hard: executions that were admitted in one state of a breaker and
report in another; a timer that won its race but cancels later; a cancellation
that arrives in any phase of the retry loop; state shared by copies of an
execution; Go's `select`, which takes any ready case; permits that are lost by a
panic; windows, rates and periods at their boundaries.

## The modules

| Module | Models | Notes |
|---|---|---|
| `CountingStats`, `CountingStatsSpec` | `countingStats` | the operators; the operators as a state machine |
| `SlidingWindow` | what `countingStats` promises | abstract: the last `Size` outcomes, in order |
| `TimedStats`, `TimedStatsSpec` | `timedStats` | the wall clock may step back; the history of outcomes is the reference |
| `CircuitStats` | the `stats` interface and its two implementations | the interface, by the kind of statistics kept, and the instances that the breaker and the two specifications share |
| `CircuitBreakerConfig` | the builder | `Sensible` is what the proofs assume of a configuration |
| `CircuitBreaker` | states, permits, executor | one action per operation under `cb.mtx`; `Reset`, which takes no lock, is two |
| `CircuitBreakerHistory` | | adds history variables: the outcomes since the state was entered, and the permits that executions without one released |
| `PolicyResult` | `common.PolicyResult` | success of one policy and of all of them |
| `Execution` | executor, execution, async result; retry, timeout, fallback and cache executors | one execution, any composition of policies |
| `Conditions` | `policy/policy.go`, error matching, HTTP and gRPC conditions | operators on outcomes; errors wrap errors |
| `RetryPolicy` | the retry builder, the limits, the delays | one execution in time, without cancellation |
| `Float32` | Go's float32 | external: rounding to the nearest, ties to even, at any precision |
| `Hedge` | hedge policy, and the retry executor that its attempts share | every attempt is a goroutine |
| `Client` | HTTP and gRPC clients, `MergeContexts` | bodies, contexts and responses of retried or hedged attempts |
| `Bulkhead` | bulkhead and executor | with the Go channel's queue of blocked senders |
| `Semaphore` | what a bulkhead promises | abstract: a counting semaphore |
| `SmoothStats`, `BurstyStats`, `RateLimiter` | rate limiter and executor | the two `stats` implementations as operators, the callers as processes |
| `MCCircuitBreaker`, `MCCircuitBreakerHistory`, `MCExecution`, `MCHedge`, `MCRetryPolicy`, `MCClient`, `MCRateLimiter` | | configurations and compositions for TLC |
| `SumTheorems` | | induction on numbers and finite sets, and sums over finite sets, for the proofs |
| `StatsProofs`, `CircuitBreakerProofs`, `ExecutionProofs`, `AccountProofs`, `RetryProofs`, `ConcurrencyProofs`, `BoundaryProofs` | | theorems and their proofs; `StatsProofs` is about `CountingStatsSpec` and `TimedStatsSpec`, `ExecutionProofs` and `AccountProofs` about `Execution`, `ConcurrencyProofs` about `Hedge` and `Bulkhead`, `BoundaryProofs` about `RateLimiter` and `Client` |

**Circuit breaker.** `state`, `stats`, `permittedExecutions`, `startTime` and
`delay` are the fields of the state object. `stats` survives opening, because
`newOpenState` embeds the previous state. `PreExecute`, `PostExecute` and `Panic`
are what an execution does; `RecordDirectly`, `Open`, `HalfOpen`, `Close` and
the two halves of `Reset` are calls on the breaker. `trials` and `leaked` are
history: which running executions took a permit of the *current* half-open
state, and how many such executions panicked.

**Execution.** The composed function is walked level by level. `level` and
`phase` are the position of the goroutine: `call` a policy about to be applied,
`return` a policy whose inner function has returned, `record` and `delay` the
places of the retry loop between two attempts, `fallback` inside the fallback
function. `ctxs` is the tree of contexts; each Timeout invocation adds one. The
`timer` field of a context is the atomic cell that the timer and the inner
function race for. The callback of a timer is two steps, because it calls a
listener between winning the race and canceling. `ExecutionResult.Cancel` is two
steps as in the code. `InitializeRetry` looks at the context first, and counts
the attempt in a step of its own (`beginRetry`). It holds the lock over both,
which keeps `Cancel` and timers out, but a context may end in between. A circuit breaker in a composition is reduced to a policy
that may refuse. A cache
looks up its key (of the context, or of the policy) on the way in and stores
what its conditions accept on the way out, and other executions store under the
same keys at any time.

**Retry policy.** `program` is a sequence of calls of the builder, `config` the
fields they leave behind. `fnReturns` is the end of an attempt with the decision
of `PostExecute` and `OnFailure`; the delay is computed in a later step, and the
timer may be late, so time passes between any two readings of the elapsed time.
Random parts of a delay are chosen freely in their ranges. The properties
`JudgedAsConfigured`, `DelayAsConfigured` and `AttemptsAsConfigured` are stated
on the calls that were made and not on the fields, so they compare the builder
and the executor with each other. They are stated for every
sequence of calls, so they also say what the code makes of odd ones: a
`WithDelay(0)` after `WithRandomDelay` leaves the random delay in force, a
`HandleErrors()` without errors does not count as a condition, and a limit below
-1 allows one attempt. Where a document says something else (see below), they
state what the code does.

**Delays in float32.** Backoff and the jitter factor compute in float32, with 24
significant bits, and a delay is a number of nanoseconds: above 17 milliseconds
most of them have no float32 of their own. `Float32` has the rounding of every
conversion and product, for any `Precision`, with fractions as whole numbers of
parts (`FractionBits`). So `BackoffIsExponential` is exact only where the code is: for the
factor 2 and a delay that is a float32. Otherwise it is within two roundings for
each multiplication. With `WithBackoff(time.Minute, time.Hour)` the second delay
is 120.000004096 seconds. Two things are left out: factors below 1, with which
delays shrink, and products beyond int64, for which the result of a conversion
depends on the processor.

**Hedge policy.** `pc` is the position of the goroutine of `Apply`, `at` that of
each attempt. A step is a region under the execution's mutex, an atomic or a
channel operation, or one read or write of a field that is shared without a
lock: `failedAttempts` and `retriesExceeded` of a retry executor inside a hedge
policy. `failedAttempts++` is a read and a write, and `own` is the value read.
`done` says by whom the context of an attempt was canceled. `canceledResult`,
which all copies of an execution share, can be set from outside by a timeout or
by `Cancel` and erased by the cancellation of the losers. `CopyForHedge` adds
to two shared counters and makes a context: `addAttempt` is the first, and
`startAttempt` the rest and the `go` statement. Other steps may come in between.

**Clients.** `Client` reduces the two ways to run several attempts, one after the
other and next to each other, to what concerns requests: the position of every
attempt's transport in its body, the two contexts and the merged one with its
goroutine, and the caller that reads the response. A retry policy that has used
its attempts gives an ExceededError and no response, unless its conditions abort.
`RetryPolicy` and `Hedge` have the details that are left out.

**Bulkhead.** `semaphore` is the number of elements in the channel, `queue` its
blocked senders. Receiving from a full channel hands the place to the first of
them, as the Go runtime does. The second select of `AcquirePermitWithMaxWait` is
a step of its own.

**Rate limiter.** `config` is chosen at the start, as in `CircuitBreaker`. `wait`
is what each caller still has to sleep, `uses` a history of permits used per
period since the last reset. A timer fires exactly when it is due; an operating
system may be late, which the properties about single periods do not cover.

## The runs

Passing runs:

| Run | Shows | Bounds and why they are enough |
|---|---|---|
| `CountingStats` | totals match the ring; the ring is a sliding window | size 6: the ring fills and wraps with every content |
| `TimedStats` | the summary counts exactly the last slices | 3 slices of 2 units, clock to 14: gaps longer than the ring, steps back |
| `CircuitBreaker` | permits add up, half-open decides, closed below threshold, nothing carried over, open period holds | 4 count based configurations (default, ratio, success threshold, ratio with DelayFunc) and 3 time based ones (failures in a period, rates with and without success threshold); 2 executions, interchangeable; 1 panic; clock to 4, so several open periods; at most 4 outcomes in a time based window (`MaxTimed`) and in the history (`MaxTally`), above every capacity |
| `CircuitBreakerLive` | half-open resolves, open ends | the count based configurations, 3 executions; fairness below |
| `Execution` | exact retry limits, causes of errors, timeout races, success reporting, a result that is stored for the next execution, no retry after cancel; the execution ends | 21 compositions up to 3 deep of retries, timeouts, fallbacks, breakers and caches, both cancelers, panics, at most 5 attempts (`MaxAttempts`); fairness below |
| `RetryPolicy` | outcomes judged, attempts limited and delays computed as the builder calls say; backoff is exponential up to its rounding; at most one attempt begins after maxDuration | every sequence of up to two calls that set a delay, zero delays included, with seven endings; backoff with the factors 1, 1.5 and 2 from delays that have a float32 and one that has none, and every pair of jitter calls; 3 significant bits (`Precision`) and 2 after the point (`FractionBits`), so that delays from 9 on are rounded; every pair of ten condition calls on twelve outcomes; limits -2, -1, 0, 1 and 3; the HTTP and gRPC policies with every outcome their conditions tell apart; each step takes up to 2 units (`MaxRun`), a timer is up to 1 late (`MaxLate`) |
| `Hedge` | one result, no attempt left behind, errors have causes, retries never given up early; cancellation and an accepted result end `Apply`, and every goroutine ends | up to 3 attempts next to each other, around a function, and 2 around a retry policy with one retry or none, which is enough for lost updates; Cancel, context and timeout |
| `Client` | whole bodies, readable responses, a canceled call ends, losers are released | every pair of contexts with 2 attempts, bodies of 2 parts of both kinds with hedges and with 3 attempts in turn, gRPC calls with 3 attempts |
| `Bulkhead` | permits accounted, a counting semaphore, waits end | 4 users, 2 permits: two can wait; 1 panic; fairness below |
| `RateLimiter` | the rate over every run of intervals (smooth), the long-run rate (both) | interval 3; 2 permits per period of 2; requests of 1 and 3, more than a period has; 2 callers; reservations 2 periods ahead (`MaxAhead`) |

Every module also states the types of its variables (`TypeOK`). For the counting
statistics, the circuit breaker, the rate limiter and the bulkhead they are
proved; the invariants of the other proofs contain the types they need. The runs
list only the properties that say more than types.

Runs that show a disagreement between a document and the code (each is a
finding in `PROJECT.json` with the quoted line):

| Run | The document says | The code does |
|---|---|---|
| `CircuitBreakerTrials` | a configurable number of trials in half-open | a late outcome of an execution admitted while closed frees a permit it never took |
| `ExecutionCancel` | `Cancel` gives `ErrExecutionCanceled` | `InitializeRetry` can clear that result before the context is canceled |

More disagreements are behaviours of the models without a run of their own:

- An open breaker shows the metrics of the closed state before it
  (`circuitbreaker.go:111`), but a late outcome changes them, and after a failed
  trial they are those of the half-open state.
- Canceling during a retry delay gives a Canceled error
  (`test/cancellation_test.go:98`), but if the attempt before had timed out,
  its timeout result is returned (`execution.go:240`).
- A bursty limiter allows up to `maxExecutions` per period (`ratelimiter.go:206`),
  but a deficit is refilled without a limit (`ratelimiterstats.go:92`).
- A retry policy inside a hedge policy: increments of `failedAttempts` are lost, so
  there are more retries than `maxRetries` (`retry.go:98`), and an attempt that
  sees `retriesExceeded` set by another returns its failing result as it is,
  with `SuccessAll` true (`retryexecutor.go:36`).
- The merged context of an HTTP attempt is canceled when the attempt returns
  (`http.go:74`), which cuts off the body of the response if the contexts of the
  request and of the executor can both be canceled. `ResponseReadable` is about
  the other pairs.
- A body that is an `io.Seeker` is shared by all attempts: a transport that still
  reads it when the next attempt seeks gives both a wrong body. `BodyWhole`
  excludes that case, and holds for all other bodies.
- `WithJitterFactor` says that it "Replaces any previously configured jitter
  duration" (`retrypolicy/retry.go:126`), but both stay, and the duration is used
  (`DelayAsConfigured`).
- `HandleResult` "is only considered when a result is returned from an execution,
  not when an error is returned" (`policy.go:34`), but the result is compared
  whatever the error is (`JudgedAsConfigured`).
- `WithMaxAttempts(0)` sets no limit.
  The HTTP retry policy does not retry errors of an unknown authority, but only
  one that is directly inside a `url.Error`.
- After a panic of the user's function the timer of a Timeout stays armed and
  calls `onTimeoutExceeded`, although `Executor` says that no listener is called.
- `AcquirePermit` on a bulkhead with a canceled context may be admitted, since
  `select` takes any ready case, although the document says that it returns
  `context.Canceled`.

No run turns deadlock checking off. `Execution` and other modules of one
execution have an explicit stuttering step `Terminated` for an execution that
has ended. In `Execution`, `MaxAttempts` only cuts the one composition without a
limit on retries; `Terminates` does not speak of it, and the others stay below
the bound. In `RetryPolicy` it cuts the uses without a limit.

**Fairness.** `CircuitBreakerLive`: time passes, executions keep arriving and
return; nobody panics and nobody operates the breaker by hand. Arrival is an
assumption about the load: without it an open breaker stays open, as in the
code, where only an execution that asks moves it on. `Execution`: the
goroutine is scheduled and the functions it calls return; a timer callback or a
`Cancel` that has begun runs on. No timer has to fire and nobody has to cancel.
`Hedge`: the goroutines run and the hedge delays pass; a function has to return
only once its context is done, and nobody has to cancel. `Client`: the program
runs, delays pass, and a transport returns once its context is done; no server
has to answer and no context has to end. `Bulkhead`: executions inside end,
timers elapse, and a caller between its two selects goes on.

## The proofs

| Theorem | Statement |
|---|---|
| `StatsProofs!Totals` | `RingSpec => [](RingType /\ TotalsMatchRing)` |
| `StatsProofs!RingRefinement` | `RingSpec => ImplementsSlidingWindow` |
| `StatsProofs!Windows` | `SlicesSpec => []SummaryIsWindow` |
| `CircuitBreakerProofs!PermitsKept` | `HSpec => []PermitsAddUp` |
| `CircuitBreakerProofs!OpenPeriod` | `Spec => OpenPeriodHolds` |
| `CircuitBreakerProofs!BelowThreshold` | `Spec => []ClosedBelowThreshold` |
| `CircuitBreakerProofs!HalfOpenWindows` | `Spec => []HalfOpenDecides` |
| `CircuitBreakerProofs!NothingCarriesOver` | `HSpec => []NoCarryOver` |
| `CircuitBreakerProofs!Types` | `HSpec => []TypeOK` |
| `ConcurrencyProofs!Invariance` | `BulkheadSpec => [](BulkheadTypeOK /\ PermitsAccounted /\ NoLostWakeUp)` |
| `ConcurrencyProofs!Isolation` | `BulkheadSpec => []WithinConcurrency` |
| `ConcurrencyProofs!Refinement` | `BulkheadSpec => ImplementsSemaphore` |
| `BoundaryProofs!Rate` | `Spec => [](TypeOK /\ AverageRateHolds)` |
| `BoundaryProofs!Smoothness` | `Spec => []NeverBunches` |
| `RetryProofs!LateAttempts` | `Spec => []OneLateAttempt` |
| `RetryProofs!JudgedByCalls` | `Spec => []JudgedAsConfigured` |
| `RetryProofs!AttemptsLimited` | `Spec => []AttemptsAsConfigured` |
| `RetryProofs!BackoffPowers` | `Spec => []BackoffIsExponential` |
| `RetryProofs!DelaysAsSet` | `Spec => []DelayAsConfigured` |
| `BoundaryProofs!BodiesWhole` | `ClientSpec => []BodyWhole` |
| `BoundaryProofs!ResponsesReadable` | `ClientSpec => []ResponseReadable` |
| `ExecutionProofs!CancelsFromAbove` | `Spec => []CanceledFromAbove` |
| `ExecutionProofs!CanceledNotRetried` | `Spec => NoRetryOnceCanceled` |
| `ExecutionProofs!ErrorsHaveCauses` | `Spec => []ErrorHasCause` |
| `ExecutionProofs!TimeoutsDecided` | `Spec => []OneSideWins` |
| `AccountProofs!SuccessOfAll` | `Spec => []SuccessAllIsSuccess` |
| `AccountProofs!RetryLimits` | `Spec => []RetriesBounded` |
| `ConcurrencyProofs!NoAttemptLeft` | `Spec => []LosersCanceled` |
| `ConcurrencyProofs!OneResultReceived` | `Spec => []OneResult` |
| `ConcurrencyProofs!CausesFromOutside` | `Spec => []OutputHasCause` |
| `ConcurrencyProofs!NeverEarly` | `Spec => []ExceededNeverEarly` |

*Counting statistics*, for every `Size >= 1`. The invariant is the type invariant
with `TotalsMatchRing`: the totals are cardinalities of sets of places, and while
the ring is not full its head is the number of outcomes. The last conjunct is
what makes it inductive: it tells which place is written. The refinement shows
place by place that the ring read from its oldest place is the old window with
its first element dropped, if full, and the outcome appended.

*Time based statistics*, for every number of slices and every period that has at
least a nanosecond for each slice (`TimedAssumption`). `SlicesInv` says three
things: the summary is the sum of the slices; the latest slice seen is the head;
and each slice of the ring counts the outcomes of the one slice of time among the
last `SliceCount` that has its place (`Tells`). What makes it inductive is that
the places the head passes over are exactly those of the slices of time that
become too old, once round the ring at most (`PassedOver`), and that two slices
of time that are not too old never share a place. A clock that steps back moves
no head, and its outcomes count for the slice of the head. The sums are those of
the model, with the lemmas of `SumTheorems`; adding up cardinalities over the
places of the ring gives the window (`SumOfPlaces`).

*Circuit breaker*, for every set of `Sensible` configurations, every finite set
of executions and all bounds. `PermitInv` strengthens `PermitsAddUp` with what
concerns the history variables and the types they need; each action keeps the
sum of free permits, trials and leaked permits equal to the capacity and the
permits of `extra`. Those are the excess of the finding above: only the outcome
of an execution that this half-open state did not admit adds one. `OpenPeriodHolds` is an action
property with a case per action. `BelowInv` adds to `ClosedBelowThreshold` only
that the statistics are one of the two kinds and the configuration is one of
`Configs`; the argument is that every path that ends in the closed state either
has checked the threshold on the very statistics it leaves behind, or leaves
empty ones. `DecideInv` is what `HalfOpenDecides` needs: a half-open breaker has a
ring of its own capacity whose totals are what it holds, so the successes and
failures add up to the outcomes. Every configuration is then a case of
arithmetic: if neither condition holds, the window is not full. For a failure
rate this goes through the rounding of `failureRate`; for a success threshold
it needs that the two thresholds leave no gap. `HInv`, for `NoCarryOver`, adds
to `DecideInv` that the statistics of every state are well-formed (`StatsOK`: a
ring as in `StatsProofs`, or slices as there), with counts at most those of the
history variable. A time based window forgets, so there the counts are only at
most the history's; that a slice never counts less than nothing when it expires
is what the lemmas about `currentBucket` give. The history variable is cut at
`MaxTally`, and `TallyAssumption` says that this is no less than any window can
hold; `PeriodAssumption` says of the configurations what `TimedAssumption` says of
a single window, because `currentBucket` divides by the length of a slice. `Types`
puts `PermitInv`, `HInv` and the types of the remaining variables together.

*Bulkhead*, for every finite set of executions and every `MaxConcurrency`. The
invariant is `BulkheadTypeOK`, `PermitsAccounted` and `NoLostWakeUp` together: that a
release hands the permit to the head of the queue is only right if that sender
waits, and is queued once.

*Rate limiter*, for every interval or period, number of permits, finite set of
callers, set of requests and all bounds. `LimiterInv` is about *claims*: permits
used in a period, and those of callers that still sleep and will use them in
the period in which they wake. `Backed` relates all claims to the statistics: by
the end of a period no more is claimed than the periods until then give, nor
than was given out so far. For a smooth limiter it also says that no run of
intervals has more claims than intervals, up to one request, and that intervals
not given out have none. A request then adds its claim behind all the others; a
caller that wakes turns a claim into a use in the same period; one that gives up
takes its claim away; a reset takes all of them. The sums are those of the
model (`SumFunctionOnSet`), over periods and over callers, and what is needed of
them is proved in `SumTheorems` by induction over finite sets.

*Retry policy*, for every set of programs (sequences of builder calls and the
outcomes of the function) and all bounds. The invariant has the types of the
fields after any sequence of calls (`ConfigOK`), the counters (`CountInv`: a
failure has been counted exactly when its attempt has been judged) and
`LateInv`: an attempt that began late runs with the elapsed time beyond
maxDuration, and there is none while a retry is being prepared. The second
conjunct is what `OneLateAttempt` needs, since it makes the judgement of a late
attempt the last one. What calls of the builder mean is proved along
`BuilderInv`: after each call, every field is what the last call that sets or
clears it says, and the conditions are exactly those that the calls so far add.
It has a lemma for each field and each kind of call. On top of it, `Judged` says
that the phase of an attempt agrees with the conditions, `AttemptsInv` relates
attempts to `maxRetries`, and `BackoffInv` says how far backoff has come. What is
left is to show that matching a condition is what the calls say of an outcome:
`errors.Is` and `errors.As`, which are recursive functions, reach exactly the
error, its causes and their causes (`IsCause`, `AsCause`). The errors of the model
wrap each other at most two deep, which is the only bound on data here.

Delays are proved for every precision of at least two bits. The first lemmas of
`RetryProofs` are about `Float32`: a rounding moves a number by at most one part
in `Fine` (`Near`), never below a power of two (`NearestAbove`), and twice a float32 is one
(`Doubled`). `Grown` is the delay after n multiplications that are all rounded
the same way; it is a recursive function, like `Power`, and the equations of both
are proved by induction (`Iteration`, `Powers`). One more multiplication takes a
delay between the two `Grown` to one between the next two (`GrowthBounds`,
`NextBackoff`), and with the factor 2 it is exact up to the limit (`NextPower`).
`JitterBounds` puts the three roundings of a jitter factor together.

*Execution*, for every set of compositions, so every number and order of
policies, and every bound. `IInv` has the control state (`Control`), the
types of the contexts, and `Tree`: every context is below that of the whole
execution, which has no timer, and is done when that one is. The last part gives
`NoRetryOnceCanceled`, because `InitializeRetry` looks at the context of its own
level only; that no attempt is prepared once it has looked is a case per action.
For `ErrorHasCause` three more parts are needed. `Downwards`:
cancellation goes down the tree, and a context that a caller or `Cancel` ended
means that the root is done. `Nested`: the level that runs is under exactly the
contexts of the Timeouts above it, which differ from each other and whose races
are not lost yet. `Causes`: a context error on its way has the root as its
cause, or a fired Timeout that the error has yet to pass; at that Timeout the
race is lost, so it puts its own error in its place, and a policy in between
that is not canceled never sees one. A step of the goroutine is a call, a
return or a step at the same depth, with one lemma each; the steps of timers and
callers share the lemma that they take no cause away. `WInv`, for `OneSideWins`,
adds that armed timers belong to Timeouts under way, that an outermost Timeout
has the second context, and that a result that left it after its timer fired is
its own error.

`RInv`, in `AccountProofs`, is the account of an execution. `Judgement`: a result
on its way is `SuccessAll` if it has no error; with an error it is so only as
long as no policy has judged it, or if a retry executor that has given up let
it pass, and then there is a retry policy further out that judges it; the
outermost one is left for good when it gives up (`Left`). `Accounted`: the retries
so far, and one that is being prepared, are at most the sum over the retry
policies of their failures, each cut at its limit. `Counted`: for a single retry
policy, failures are executions of the function. `Account` is stated on the
values of the variables before and after a step, so that each policy's handler
has one lemma that does not mention the others.

*Hedge policy*, for every set of policies, so every number of hedges, every
`maxRetries` and every set of cancelers. On top of the types and the control
state (`TypeInv`) there is one invariant per property. `LoserInv`: attempts not
started are idle, a canceled parent has reached every attempt that was started,
and the loop over the losers has done its part up to `next`. `SendInv`:
`resultCount` is the number of attempts that have returned, at most one result
is on its way, and only after the flag was set; the result that is offered is
accepted or all others have returned. `CauseInv`: the shared `canceledResult` and
the results of the attempts have their causes, where an attempt that lost may
have the error of its own context. `RaceInv`, for the fields that are shared
without a lock: `failedAttempts`, and every value read from it and not yet
written back, is at most the number of executions less the attempts whose
failure is not yet counted. A lost update only makes it smaller, so the limit is
never exceeded early.

*Clients*, for every set of uses, so every number of attempts and every length
of a body. `BodyInv`: an attempt has read nothing before it is sent; a body that
attempts share has one reader, whose part sent is as long as the position of the
body, as long as no attempt has rewound it under another; and what was sent counts
up from the first part. `ResponseInv`: no attempt has lost before the call
returns, the winner, if there is one, never does, and an attempt uses a merged context only if
there were two to merge.

Only model-checked: the liveness properties, since the prover used does not handle
liveness under fairness or `ENABLED`, and `SuccessIsCached`. All the other
safety properties of the passing runs are proved.
Its library states induction for predicates, which none of its backends
instantiates; `SumTheorems` states it for sets instead (`Induction`,
`FiniteInduction`, from the well-foundedness of the natural numbers), and the
proofs about sums and powers use that form. `RetryProofs` repeats the four of its
lemmas that it needs, because the provers slow down with every lemma in scope.

## What is not modelled

- Listeners and events. They observe; a listener that calls its own breaker
  would deadlock on the breaker's lock.
- The server interceptor and the tap handle of gRPC: the same code around a
  handler, and an executor around a constant function.
- The reply of a gRPC call, which hedged attempts decode into the same message,
  and the closing of responses that are retried, which is the transport's.
- A panic in the goroutine of a hedge, which ends the program.
- Data races inside `Reset` of a breaker finer than its two steps.
- Configurations the builders accept but that make no sense: thresholds above
  their capacity (unsigned arithmetic wraps), a period shorter than its slices;
  and a builder that is changed after `Build`, which changes the conditions of
  the policies it has built.
- `ReleasePermit` on a bulkhead by a caller that holds no permit.
- Timers of the rate limiter that are late.
- `internal/testutil` and the generated code of the tests.

## What could be added

A composition of `CircuitBreaker` and `Execution`: several executions through one
breaker with retries and timeouts.
