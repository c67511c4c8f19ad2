---------------------------- MODULE RateLimiter ----------------------------
(***************************************************************************)
(* A rate limiter, smooth or bursty, and the callers that take permits     *)
(* from it (ratelimiter/ratelimiter.go, ratelimiterexecutor.go).  stats    *)
(* and the stopwatch are guarded by the stats' mutex, so each call of      *)
(* acquirePermits is one step; a caller that has to wait sleeps until its  *)
(* timer fires or its context is canceled, and then keeps nothing.         *)
(***************************************************************************)
EXTENDS Integers, FiniteSetsExt, Functions

CONSTANTS Configs,   \* the configurations the limiter is checked with
          Requests,  \* numbers of permits that callers ask for at once
          MaxWaits,  \* wait limits of callers, -1 for none
          Exec,      \* callers that may be waiting at once
          MaxTime,   \* bound: the stopwatch
          MaxAhead   \* bound: periods for which permits are given out

Smooth == INSTANCE SmoothStats
Bursty == INSTANCE BurstyStats

\* One permit every interval.
SmoothBuilderWithMaxRate(interval) == [kind |-> "smooth", period |-> interval, periodPermits |-> 1]

BurstyBuilder(maxExecutions, period) ==
  [kind |-> "bursty", period |-> period, periodPermits |-> maxExecutions]

ASSUME LimiterAssumption ==
  /\ Configs \subseteq [kind : {"smooth", "bursty"}, period : Nat \ {0}, periodPermits : Nat \ {0}]
  /\ Requests \subseteq Nat \ {0} /\ IsFiniteSet(Requests) /\ Requests # {}
  /\ MaxWaits \subseteq Nat \cup {-1}
  /\ IsFiniteSet(Exec)
  /\ MaxTime \in Nat /\ MaxAhead \in Nat

VARIABLES config,  \* constant: chosen at Build
          stats,   \* nextFreePermitTime, or availablePermits and currentPeriod
          now,     \* stopwatch.ElapsedTime
          wait,    \* each caller: what is left of its wait, and its permits
          uses     \* history: permits used in each period since Build or Reset

vars == <<config, stats, now, wait, uses>>

Kind == config.kind
Period == config.period
PeriodPermits == config.periodPermits

Idle == [left |-> -1, permits |-> 0]
Horizon == 0..(MaxTime \div Period + MaxAhead)

newStats ==
  IF Kind = "smooth" THEN [nextFreePermitTime |-> 0]
  ELSE Bursty!newBurstyStats(PeriodPermits)

Init ==
  /\ config \in Configs
  /\ stats = newStats /\ now = 0
  /\ wait = [e \in Exec |-> Idle]
  /\ uses = [p \in Horizon |-> 0]

\* stats.acquirePermits: the new statistics and the time to wait.
smoothAcquire(permits) ==
  LET newNext == Smooth!newNextFreePermitTime(stats.nextFreePermitTime, now, Period, permits)
  IN [stats |-> [nextFreePermitTime |-> newNext],
      waitTime |-> Smooth!waitTime(newNext, now, Period)]

burstyAcquire(permits) ==
  LET b == Bursty!refreshed(stats, now, Period, PeriodPermits)
  IN [stats |-> Bursty!taken(b, permits), refused |-> b,
      waitTime |-> Bursty!waitTime(b, now, Period, PeriodPermits, permits)]

acquired(permits) == IF Kind = "smooth" THEN smoothAcquire(permits) ELSE burstyAcquire(permits)

\* A refusal still leaves a bursty limiter in its new period.
afterRefusal(a) == IF Kind = "smooth" THEN stats ELSE a.refused

Use(permits) == uses' = [uses EXCEPT ![now \div Period] = @ + permits]

(***************************************************************************)
(* AcquirePermits (no maxWaitTime: -1), acquirePermitsWithMaxWait,         *)
(* TryAcquirePermits (0) and the executor's Apply.                         *)
(***************************************************************************)
acquirePermits(e, permits, maxWaitTime) ==
  /\ wait[e] = Idle
  /\ LET a == acquired(permits)
     IN \/ /\ Smooth!exceedsMaxWaitTime(a.waitTime, maxWaitTime)
           /\ stats' = afterRefusal(a)
           /\ UNCHANGED <<wait, uses>>
        \/ /\ ~Smooth!exceedsMaxWaitTime(a.waitTime, maxWaitTime)
           /\ (now + a.waitTime) \div Period \in Horizon
           /\ stats' = a.stats
           /\ wait' = [wait EXCEPT ![e] = [left |-> a.waitTime, permits |-> permits]]
           /\ UNCHANGED uses
  /\ UNCHANGED <<config, now>>

\* The timer fires; a permit from before a Reset is no use of this epoch.
proceed(e) ==
  /\ wait[e].left = 0
  /\ Use(wait[e].permits)
  /\ wait' = [wait EXCEPT ![e] = Idle]
  /\ UNCHANGED <<config, stats, now>>

\* The context is canceled: the permits are not given back.
canceled(e) ==
  /\ wait[e] # Idle
  /\ wait' = [wait EXCEPT ![e] = Idle]
  /\ UNCHANGED <<config, stats, now, uses>>

Reset ==
  /\ stats' = newStats /\ now' = 0
  /\ wait' = [e \in Exec |-> [wait[e] EXCEPT !.permits = 0]]
  /\ uses' = [p \in Horizon |-> 0]
  /\ UNCHANGED config

\* Time passes; timers are punctual.
Tick ==
  /\ now < MaxTime + MaxAhead * Period
  /\ now < MaxTime \/ \E e \in Exec : wait[e] # Idle
  /\ \A e \in Exec : wait[e].left # 0
  /\ now' = now + 1
  /\ wait' = [e \in Exec |-> IF wait[e].left > 0 THEN [wait[e] EXCEPT !.left = @ - 1] ELSE wait[e]]
  /\ UNCHANGED <<config, stats, uses>>

Next ==
  \/ \E e \in Exec :
       \/ \E permits \in Requests, maxWaitTime \in MaxWaits : acquirePermits(e, permits, maxWaitTime)
       \/ proceed(e) \/ canceled(e)
  \/ Reset \/ Tick

Spec == Init /\ [][Next]_vars
-----------------------------------------------------------------------------
TypeOK ==
  /\ config \in Configs
  /\ IF Kind = "smooth" THEN stats \in [nextFreePermitTime : Nat]
     ELSE stats \in [availablePermits : Int, currentPeriod : Nat]
  /\ now \in Nat
  /\ wait \in [Exec -> [left : Nat \cup {-1}, permits : Nat]]
  /\ uses \in [Horizon -> Nat]

UsesIn(periods) == SumFunctionOnSet(uses, periods)

(***************************************************************************)
(* The long-run rate holds: by the end of any period no more permits were  *)
(* used since the start than that many periods give.  Reservations for the *)
(* future, deficits, refusals and canceled waits do not add up to more.    *)
(***************************************************************************)
AverageRateHolds ==
  \A p \in Horizon : UsesIn(0..p) <= (p + 1) * PeriodPermits

(***************************************************************************)
(* A smooth limiter never bunches: in any run of consecutive intervals     *)
(* there are no more uses than intervals, plus the part of one request     *)
(* that was spread over the intervals before.                              *)
(***************************************************************************)
NeverBunches ==
  Kind = "smooth" =>
    \A p, q \in Horizon :
      p <= q => UsesIn(p..q) <= (q - p + 1) + Max(Requests) - 1
=============================================================================
