----------------------- MODULE CircuitBreakerProofs -----------------------
(***************************************************************************)
(* Proofs about the circuit breaker, for every set of sensible             *)
(* configurations, any number of executions and any bounds.                *)
(***************************************************************************)
EXTENDS CircuitBreakerHistory, StatsProofs
-----------------------------------------------------------------------------
(***************************************************************************)
(* The inductive invariant behind PermitsAddUp.  It says nothing of the    *)
(* statistics: permits are kept whatever the thresholds decide.            *)
(***************************************************************************)
PermitInv ==
  /\ config \in Configs
  /\ permittedExecutions \in Nat /\ leaked \in Nat /\ extra \in Nat
  /\ trials \subseteq Exec
  /\ pc \in [Exec -> {"idle", "running", "rejected"}]
  /\ PermitsAddUp

\* A sensible configuration has room for a trial.
LEMMA Capacity ==
  ASSUME NEW c \in Configs
  PROVE  halfOpenCapacity(c) \in Nat \ {0}
BY BreakerAssumption DEF Sensible, ConfigType, halfOpenCapacity, closedCapacity

\* What recording an outcome can do to the permits.
LEMMA OutcomeShape ==
  ASSUME NEW success, NEW computed, NEW holder, recordOutcome(success, computed, holder)
  PROVE  \/ /\ state' # "halfOpen" /\ permittedExecutions' = 0 /\ trials' = {} /\ leaked' = 0
         \/ /\ state = "halfOpen" /\ state' = state /\ leaked' = leaked
            /\ permittedExecutions' = permittedExecutions + 1
            /\ trials' = trials \ holder
         \/ /\ state # "halfOpen"
            /\ UNCHANGED <<state, permittedExecutions, trials, leaked>>
<1> DEFINE s == recorded(stats, success)
<1>1. checkThresholdAndReleasePermit(s, computed, holder)
  BY DEF recordOutcome
<1> HIDE DEF s
<1>2. CASE state = "closed" /\ closedCheck(s, computed)
  BY <1>2 DEF closedCheck, toOpen, NoTrials
<1>3. CASE state = "halfOpen" /\ halfOpenCheck(s, computed, holder)
  BY <1>3, Zenon DEF halfOpenCheck, toOpen, toClosed, NoTrials
<1>4. CASE state = "open" /\ UNCHANGED <<state, permittedExecutions, startTime, delay, trials, leaked>>
  BY <1>4
<1> QED BY <1>1, <1>2, <1>3, <1>4 DEF checkThresholdAndReleasePermit

\* Taking an execution out of the trials takes out at most one.
LEMMA TrialsFinite ==
  ASSUME trials \subseteq Exec
  PROVE  /\ Cardinality(trials) \in Nat
         /\ \A e : Cardinality(trials \ {e}) \in Nat
         /\ \A e : Cardinality(trials \ {e})
                     = IF e \in trials THEN Cardinality(trials) - 1 ELSE Cardinality(trials)
         /\ \A e : e \notin trials => Cardinality(trials \cup {e}) = Cardinality(trials) + 1
<1>1. IsFiniteSet(trials)
  BY FS_Subset, BreakerAssumption
<1>2. \A e : IsFiniteSet(trials \ {e})
  BY <1>1, FS_RemoveElement
<1> QED BY <1>1, <1>2, FS_CardinalityType, FS_AddElement, FS_RemoveElement, Zenon

\* The permits survive the outcome of an execution that is no longer running.
LEMMA PostExecuteKeeps ==
  ASSUME PermitInv, NEW e \in Exec, NEW success \in BOOLEAN, PostExecute(e, success), Release(e \notin trials)
  PROVE  PermitInv'
<1>1. PICK computed : recordOutcome(success, computed, {e})
  BY DEF PostExecute
<1>2. pc' = [pc EXCEPT ![e] = "idle"] /\ config' = config
  BY DEF PostExecute
<1>3. pc' \in [Exec -> {"idle", "running", "rejected"}] /\ extra' \in Nat
  BY <1>2 DEF PermitInv, Release
<1>4. CASE state' # "halfOpen" /\ permittedExecutions' = 0 /\ trials' = {} /\ leaked' = 0
  BY <1>2, <1>3, <1>4 DEF PermitInv, PermitsAddUp
<1>5. CASE /\ state = "halfOpen" /\ state' = state /\ leaked' = leaked
           /\ permittedExecutions' = permittedExecutions + 1 /\ trials' = trials \ {e}
  <2>1. trials' \subseteq {x \in Exec : pc'[x] = "running"}
    BY <1>2, <1>5 DEF PermitInv, PermitsAddUp
  <2>2. halfOpenCapacity(config)' = halfOpenCapacity(config)
    BY <1>2 DEF halfOpenCapacity, closedCapacity
  <2>3. permittedExecutions' + Cardinality(trials') + leaked' = halfOpenCapacity(config) + extra'
    <3>1. Cardinality(trials') = IF e \in trials THEN Cardinality(trials) - 1 ELSE Cardinality(trials)
      BY <1>5, TrialsFinite, Zenon DEF PermitInv
    <3>2. Cardinality(trials) \in Nat /\ halfOpenCapacity(config) \in Nat
      BY TrialsFinite, Capacity DEF PermitInv
    <3>3. extra' = IF e \in trials THEN extra ELSE extra + 1
      BY <1>5 DEF Release
    <3> QED BY <1>5, <3>1, <3>2, <3>3 DEF PermitInv, PermitsAddUp
  <2> QED BY <1>2, <1>3, <1>5, <2>1, <2>2, <2>3 DEF PermitInv, PermitsAddUp
<1>6. CASE state # "halfOpen" /\ UNCHANGED <<state, permittedExecutions, trials, leaked>>
  BY <1>2, <1>3, <1>6 DEF PermitInv, PermitsAddUp
<1> QED BY <1>1, <1>4, <1>5, <1>6, OutcomeShape

LEMMA RecordDirectlyKeeps ==
  ASSUME PermitInv, NEW success \in BOOLEAN, RecordDirectly(success), Release(TRUE)
  PROVE  PermitInv'
<1>1. recordOutcome(success, -1, {}) /\ pc' = pc /\ config' = config
  BY DEF RecordDirectly
<1>2. Cardinality(trials) \in Nat /\ halfOpenCapacity(config) \in Nat /\ extra' \in Nat
  BY TrialsFinite, Capacity DEF PermitInv, Release
<1>3. halfOpenCapacity(config)' = halfOpenCapacity(config)
  BY <1>1 DEF halfOpenCapacity, closedCapacity
<1>4. CASE state' # "halfOpen" /\ permittedExecutions' = 0 /\ trials' = {} /\ leaked' = 0
  BY <1>1, <1>2, <1>4 DEF PermitInv, PermitsAddUp
<1>5. CASE /\ state = "halfOpen" /\ state' = state /\ leaked' = leaked
           /\ permittedExecutions' = permittedExecutions + 1 /\ trials' = trials \ {}
  <2>1. trials' = trials /\ extra' = extra + 1
    BY <1>5 DEF Release
  <2> QED BY <1>1, <1>2, <1>3, <1>5, <2>1 DEF PermitInv, PermitsAddUp
<1>6. CASE state # "halfOpen" /\ UNCHANGED <<state, permittedExecutions, trials, leaked>>
  BY <1>1, <1>2, <1>6 DEF PermitInv, PermitsAddUp
<1> QED BY <1>1, <1>4, <1>5, <1>6, OutcomeShape

\* A permit that is taken is held by a trial.
LEMMA PreExecuteKeeps ==
  ASSUME PermitInv, NEW e \in Exec, PreExecute(e), Release(FALSE)
  PROVE  PermitInv'
<1>1. pc[e] # "running" /\ tryAcquirePermit(e) /\ config' = config
  BY DEF PreExecute
<1>2. Cardinality(trials) \in Nat /\ halfOpenCapacity(config) \in Nat \ {0}
  BY TrialsFinite, Capacity DEF PermitInv
<1>3. halfOpenCapacity(config)' = halfOpenCapacity(config) /\ extra' \in Nat
  BY <1>1 DEF halfOpenCapacity, closedCapacity, Release, PermitInv
<1>4. CASE Admit(e) /\ state = "closed" /\ UNCHANGED <<breaker, trials, leaked>>
  BY <1>1, <1>3, <1>4 DEF PermitInv, PermitsAddUp, Admit, breaker
<1>5. CASE /\ state = "open" /\ newHalfOpenState(halfOpenCapacity(config) - 1)
           /\ trials' = {e} /\ leaked' = 0 /\ Admit(e)
  <2>1. Cardinality(trials') = 1
    BY <1>5, FS_Singleton
  <2>2. permittedExecutions' = halfOpenCapacity(config) - 1 /\ permittedExecutions' \in Nat
    BY <1>2, <1>5 DEF newHalfOpenState
  <2>3. /\ pc' \in [Exec -> {"idle", "running", "rejected"}]
        /\ trials' \subseteq {x \in Exec : pc'[x] = "running"}
    BY <1>5 DEF PermitInv, Admit
  <2>4. permittedExecutions' + Cardinality(trials') + leaked' = halfOpenCapacity(config)' + extra'
    <3>1. extra' = 0
      BY <1>5 DEF Release
    <3> QED BY <1>2, <1>3, <1>5, <2>1, <2>2, <3>1, SMTT(20)
  <2> QED BY <1>1, <1>3, <1>5, <2>2, <2>3, <2>4 DEF PermitInv, PermitsAddUp
<1>6. CASE /\ state = "halfOpen" /\ permittedExecutions > 0
           /\ permittedExecutions' = permittedExecutions - 1
           /\ trials' = trials \cup {e} /\ Admit(e)
           /\ UNCHANGED <<state, stats, startTime, delay, leaked>>
  <2>1. e \notin trials
    BY <1>1, <1>6 DEF PermitInv, PermitsAddUp
  <2>2. Cardinality(trials') = Cardinality(trials) + 1
    BY <1>6, <2>1, TrialsFinite DEF PermitInv
  <2>3. /\ pc' \in [Exec -> {"idle", "running", "rejected"}]
        /\ trials' \subseteq {x \in Exec : pc'[x] = "running"}
    BY <1>6 DEF PermitInv, PermitsAddUp, Admit
  <2>4. permittedExecutions' + Cardinality(trials') + leaked' = halfOpenCapacity(config)' + extra'
    <3>1. extra' = extra
      BY <1>6 DEF Release
    <3> QED BY <1>2, <1>3, <1>6, <2>2, <3>1, SMTT(20) DEF PermitInv, PermitsAddUp
  <2> QED BY <1>1, <1>3, <1>6, <2>3, <2>4, SMTT(20) DEF PermitInv, PermitsAddUp
<1>7. CASE Reject(e)
  BY <1>1, <1>3, <1>7 DEF PermitInv, PermitsAddUp, Reject, breaker, Release
<1> QED BY <1>1, <1>4, <1>5, <1>6, <1>7, SMTT(20) DEF tryAcquirePermit

\* The permit of a trial that panics is accounted for as leaked.
LEMMA PanicKeeps ==
  ASSUME PermitInv, NEW e \in Exec, Panic(e), Release(FALSE)
  PROVE  PermitInv'
<1>1. /\ pc' = [pc EXCEPT ![e] = "idle"] /\ trials' = trials \ {e}
      /\ leaked' = IF e \in trials THEN leaked + 1 ELSE leaked
      /\ UNCHANGED <<config, state, permittedExecutions>>
  BY DEF Panic, breaker
<1>2. Cardinality(trials) \in Nat /\ halfOpenCapacity(config) \in Nat
  BY TrialsFinite, Capacity DEF PermitInv
<1>3. halfOpenCapacity(config)' = halfOpenCapacity(config) /\ extra' \in Nat
  BY <1>1 DEF halfOpenCapacity, closedCapacity, Release, PermitInv
<1>0. state = "halfOpen" => extra' = extra
  BY <1>1 DEF Release
<1>4. Cardinality(trials') + leaked' = Cardinality(trials) + leaked
  BY <1>1, <1>2, TrialsFinite DEF PermitInv
<1>5. Cardinality(trials') \in Nat /\ leaked' \in Nat
  <2>1. leaked' \in Nat
    BY <1>1 DEF PermitInv
  <2>2. Cardinality(trials \ {e}) \in Nat
    BY TrialsFinite, Zenon DEF PermitInv
  <2> QED BY <1>1, <2>1, <2>2
<1>6. state = "halfOpen" => trials' \subseteq {x \in Exec : pc'[x] = "running"}
  BY <1>1 DEF PermitInv, PermitsAddUp
<1>7. state = "halfOpen" =>
        permittedExecutions' + Cardinality(trials') + leaked' = halfOpenCapacity(config)' + extra'
  BY <1>0, <1>1, <1>2, <1>3, <1>4, <1>5, SMTT(20) DEF PermitInv, PermitsAddUp
<1>8. pc' \in [Exec -> {"idle", "running", "rejected"}] /\ trials' \subseteq Exec
  BY <1>1 DEF PermitInv
<1> QED BY <1>1, <1>3, <1>5, <1>6, <1>7, <1>8, SMTT(20) DEF PermitInv, PermitsAddUp

LEMMA PermitStep == PermitInv /\ [HNext]_hvars => PermitInv'
<1> SUFFICES ASSUME PermitInv, [HNext]_hvars PROVE PermitInv'
  OBVIOUS
<1>1. ASSUME NEW e \in Exec, PreExecute(e), Release(FALSE) PROVE PermitInv'
  BY <1>1, PreExecuteKeeps, Zenon
<1>2. ASSUME NEW success \in BOOLEAN, Outcome(success) PROVE PermitInv'
  <2>1. ASSUME NEW e \in Exec, PostExecute(e, success), Release(e \notin trials) PROVE PermitInv'
    BY <2>1, PostExecuteKeeps, Zenon
  <2>2. ASSUME RecordDirectly(success), Release(TRUE) PROVE PermitInv'
    BY <2>2, RecordDirectlyKeeps, Zenon
  <2> QED BY <1>2, <2>1, <2>2, Zenon DEF Outcome
<1>3. ASSUME NEW e \in Exec, Panic(e), Release(FALSE) PROVE PermitInv'
  BY <1>3, PanicKeeps, Zenon
<1>4. Release(FALSE) => /\ extra' \in Nat
                        /\ state = "halfOpen" /\ state' = "halfOpen" => extra' = extra
                        /\ state # "halfOpen" => extra' = 0
  BY DEF Release, PermitInv
<1>5. CASE (Open \/ Close) /\ Release(FALSE)
  <2>1. state' # "halfOpen" /\ NoTrials /\ UNCHANGED <<config, pc>>
    BY <1>5, Zenon DEF Open, Close, toOpen, toClosed
  <2> QED BY <1>4, <1>5, <2>1 DEF NoTrials, PermitInv, PermitsAddUp
<1>6. CASE HalfOpen /\ Release(FALSE)
  <2>1. Cardinality({}) = 0
    BY FS_EmptySet
  <2>2. halfOpenCapacity(config)' = halfOpenCapacity(config) /\ halfOpenCapacity(config) \in Nat
    BY <1>6, Capacity DEF HalfOpen, halfOpenCapacity, closedCapacity, PermitInv
  <2> QED BY <1>4, <1>6, <2>1, <2>2 DEF HalfOpen, newHalfOpenState, PermitInv, PermitsAddUp
<1>7. CASE ResetCloses /\ Release(FALSE)
  <2>1. /\ state' = "closed" /\ UNCHANGED <<config, pc>>
        /\ NoTrials \/ UNCHANGED <<permittedExecutions, trials, leaked>>
    BY <1>7, Zenon DEF ResetCloses, toClosed, breaker
  <2> QED BY <1>4, <1>7, <2>1 DEF NoTrials, PermitInv, PermitsAddUp
<1>8. CASE (ResetClears \/ Tick) /\ Release(FALSE)
  <2>1. UNCHANGED <<config, state, permittedExecutions, pc, trials, leaked>>
    BY <1>8 DEF ResetClears, Tick, breaker
  <2> QED BY <1>4, <1>8, <2>1 DEF PermitInv, PermitsAddUp, halfOpenCapacity, closedCapacity
<1>9. CASE UNCHANGED hvars
  BY <1>9 DEF PermitInv, PermitsAddUp, halfOpenCapacity, closedCapacity, hvars, vars, breaker
<1> QED BY <1>1, <1>2, <1>3, <1>5, <1>6, <1>7, <1>8, <1>9, Zenon DEF HNext

LEMMA PermitInvariant == HSpec => []PermitInv
<1>1. HInit => PermitInv
  BY DEF HInit, Init, PermitInv, PermitsAddUp
<1> QED BY <1>1, PermitStep, PTL DEF HSpec

(***************************************************************************)
(* For all sensible configurations and any number of executions: the       *)
(* permits of a half-open circuit breaker add up.  None is lost, so it     *)
(* never rejects every execution while nobody is left who could make it    *)
(* decide, panicked trials apart; and only the outcomes of executions that *)
(* it did not admit let in more trials than its capacity.                  *)
(***************************************************************************)
THEOREM PermitsKept == HSpec => []PermitsAddUp
<1>1. PermitInv => PermitsAddUp
  BY DEF PermitInv
<1> QED BY <1>1, PermitInvariant, PTL
-----------------------------------------------------------------------------
(***************************************************************************)
(* An open period ends only when its delay has elapsed or on request, for  *)
(* all sensible configurations and delays.                                 *)
(***************************************************************************)
THEOREM OpenPeriod == Spec => OpenPeriodHolds
<1> DEFINE Holds == state = "open" =>
             IF state' = "open" THEN UNCHANGED <<startTime, delay>>
             ELSE delayElapsed \/ Close \/ HalfOpen \/ ResetCloses
<1>1. [Next]_vars => [Holds]_vars
  <2> SUFFICES ASSUME Next, state = "open" PROVE Holds
    BY DEF vars
  <2>1. ASSUME NEW success, NEW computed, NEW holder, recordOutcome(success, computed, holder)
        PROVE  Holds
    BY <2>1 DEF recordOutcome, checkThresholdAndReleasePermit
  <2>2. ASSUME NEW e \in Exec, PreExecute(e) PROVE Holds
    BY <2>2, Zenon DEF PreExecute, tryAcquirePermit, newHalfOpenState, Reject, breaker
  <2>3. ASSUME NEW e \in Exec, NEW success \in BOOLEAN, PostExecute(e, success) PROVE Holds
    BY <2>1, <2>3 DEF PostExecute
  <2>4. ASSUME NEW e \in Exec, Panic(e) PROVE Holds
    BY <2>4 DEF Panic, breaker
  <2>5. ASSUME NEW success \in BOOLEAN, RecordDirectly(success) PROVE Holds
    BY <2>1, <2>5 DEF RecordDirectly
  <2>6. CASE Open
    BY <2>6 DEF Open
  <2>7. CASE HalfOpen \/ Close \/ ResetCloses
    <3>1. state' # "open"
      BY <2>7, ZenonT(30) DEF HalfOpen, newHalfOpenState, Close, toClosed, ResetCloses
    <3> QED BY <2>7, <3>1
  <2>8. CASE ResetClears \/ Tick
    BY <2>8 DEF ResetClears, Tick, breaker
  <2> QED BY <2>2, <2>3, <2>4, <2>5, <2>6, <2>7, <2>8, SMTT(20) DEF Next
<1> QED BY <1>1, PTL DEF Spec, OpenPeriodHolds
-----------------------------------------------------------------------------
(***************************************************************************)
(* The inductive invariant behind ClosedBelowThreshold: the statistics are *)
(* records whose kind, and whose summary if they are time based, an        *)
(* assignment can reach.                                                   *)
(***************************************************************************)
HasFields(s) == "kind" \in DOMAIN s /\ (IsTimed(s) => "summary" \in DOMAIN s)

BelowInv == config \in Configs /\ HasFields(stats) /\ ClosedBelowThreshold

\* Empty statistics exceed no threshold.
LEMMA EmptyIsBelow ==
  ASSUME NEW c \in Configs, NEW s, executionCount(s) = 0, failureCount(s) = 0
  PROVE  ~closedExceeded(c, s)
BY BreakerAssumption DEF closedExceeded, ConfigType, Sensible

LEMMA NewStatsEmpty ==
  ASSUME NEW c, NEW timeBased, NEW capacity
  PROVE  LET s == newStats(c, timeBased, capacity)
         IN HasFields(s) /\ executionCount(s) = 0 /\ failureCount(s) = 0
<1>1. CASE timeBased /\ c.failureThresholdingPeriod # 0
  BY <1>1 DEF newStats, HasFields, IsTimed, executionCount, failureCount,
     Timed!newTimedStats, Timed!executionCount, Timed!failureCount, Timed!stat
<1>2. CASE ~(timeBased /\ c.failureThresholdingPeriod # 0)
  BY <1>2, Zenon DEF newStats, HasFields, IsTimed, executionCount, failureCount,
     Counting!newCountingStats, Counting!executionCount, Counting!failureCount
<1> QED BY <1>1, <1>2

LEMMA ResetStatsEmpty ==
  ASSUME NEW s, HasFields(s)
  PROVE  LET r == resetStats(s)
         IN HasFields(r) /\ executionCount(r) = 0 /\ failureCount(r) = 0
<1>1. CASE IsTimed(s)
  <2> DEFINE r == Timed!reset(s)
  <2>1. r.kind = "timed" /\ r.summary = Timed!stat(0, 0) /\ DOMAIN r = DOMAIN s
    BY <1>1 DEF HasFields, IsTimed, Timed!reset
  <2>2. resetStats(s) = r
    BY <1>1 DEF resetStats
  <2> HIDE DEF r
  <2> QED BY <1>1, <2>1, <2>2 DEF HasFields, IsTimed, executionCount, failureCount,
          Timed!executionCount, Timed!failureCount, Timed!stat
<1>2. CASE ~IsTimed(s)
  BY <1>2, Zenon DEF resetStats, HasFields, IsTimed, executionCount, failureCount, Counting!reset,
     Counting!newCountingStats, Counting!executionCount, Counting!failureCount
<1> QED BY <1>1, <1>2

\* Recording an outcome assigns to fields the statistics have.
LEMMA RecordedHasFields ==
  ASSUME NEW s, HasFields(s), NEW success
  PROVE  HasFields(recorded(s, success))
<1>1. CASE IsTimed(s)
  <2> DEFINE t == Timed!currentBucket(s, now)
  <2>1. DOMAIN t = DOMAIN s /\ t.kind = "timed"
    BY <1>1 DEF HasFields, IsTimed, Timed!currentBucket
  <2> HIDE DEF t
  <2>2. DOMAIN Timed!record(s, success, now) = DOMAIN t
    BY DEF Timed!record, t
  <2> QED BY <1>1, <2>1, <2>2 DEF HasFields, recorded
<1>2. CASE ~IsTimed(s)
  <2>1. DOMAIN Counting!setNext(s, success) = DOMAIN s /\ Counting!setNext(s, success).kind = s.kind
    BY <1>2 DEF HasFields, Counting!setNext
  <2> QED BY <1>2, <2>1 DEF HasFields, recorded, IsTimed
<1> QED BY <1>1, <1>2

\* Recording an outcome opens a closed breaker that exceeds its threshold.
LEMMA OutcomeBelow ==
  ASSUME BelowInv, config' = config, NEW success, NEW computed, NEW holder,
         recordOutcome(success, computed, holder)
  PROVE  BelowInv'
<1> DEFINE s == recorded(stats, success)
<1>1. HasFields(s)
  BY RecordedHasFields DEF BelowInv
<1>2. checkThresholdAndReleasePermit(s, computed, holder)
  BY DEF recordOutcome
<1> HIDE DEF s
<1>3. CASE toClosed
  BY <1>3, NewStatsEmpty, EmptyIsBelow, Zenon DEF toClosed, BelowInv, ClosedBelowThreshold
<1>4. CASE state' # "closed" /\ stats' = s
  BY <1>1, <1>4 DEF BelowInv, ClosedBelowThreshold
<1>5. CASE state = "closed" /\ closedCheck(s, computed)
  <2>1. CASE closedExceeded(config, s)
    BY <1>4, <1>5, <2>1, SMTT(20) DEF closedCheck, toOpen
  <2>2. CASE ~closedExceeded(config, s)
    <3>1. stats' = s /\ ~closedExceeded(config', stats')
      BY <1>5, <2>2 DEF closedCheck
    <3> QED BY <1>1, <3>1 DEF BelowInv, ClosedBelowThreshold, closedExceeded
  <2> QED BY <2>1, <2>2
<1>6. CASE state = "halfOpen" /\ halfOpenCheck(s, computed, holder)
  <2>1. toClosed \/ (state' # "closed" /\ stats' = s)
    BY <1>6 DEF halfOpenCheck, toOpen
  <2> QED BY <1>3, <1>4, <2>1
<1>7. CASE state = "open" /\ stats' = s /\ UNCHANGED state
  BY <1>4, <1>7
<1> QED BY <1>2, <1>5, <1>6, <1>7 DEF checkThresholdAndReleasePermit

LEMMA BelowStep == BelowInv /\ [Next]_vars => BelowInv'
<1> SUFFICES ASSUME BelowInv, [Next]_vars PROVE BelowInv'
  OBVIOUS
<1>0. config' = config
  BY Zenon DEF Next, PreExecute, PostExecute, Panic, RecordDirectly, Open, HalfOpen, Close,
         ResetCloses, ResetClears, Tick, vars
<1>1. CASE UNCHANGED <<state, stats>>
  <2>1. state' = "closed" => ~closedExceeded(config', stats')
    BY <1>0, <1>1 DEF BelowInv, ClosedBelowThreshold
  <2> QED BY <1>0, <1>1, <2>1 DEF BelowInv, ClosedBelowThreshold
<1>2. ASSUME NEW permits, newHalfOpenState(permits) PROVE BelowInv'
  BY <1>0, <1>2, NewStatsEmpty, Zenon DEF newHalfOpenState, BelowInv, ClosedBelowThreshold
<1>3. CASE toClosed
  BY <1>0, <1>3, NewStatsEmpty, EmptyIsBelow, Zenon DEF toClosed, BelowInv, ClosedBelowThreshold
<1>4. ASSUME NEW e \in Exec, PreExecute(e) PROVE BelowInv'
  BY <1>1, <1>2, <1>4, ZenonT(30) DEF PreExecute, tryAcquirePermit, Reject, breaker
<1>5. ASSUME NEW e \in Exec, NEW success \in BOOLEAN, PostExecute(e, success) PROVE BelowInv'
  BY <1>0, <1>5, OutcomeBelow DEF PostExecute
<1>6. ASSUME NEW e \in Exec, Panic(e) PROVE BelowInv'
  BY <1>1, <1>6 DEF Panic, breaker
<1>7. ASSUME NEW success \in BOOLEAN, RecordDirectly(success) PROVE BelowInv'
  BY <1>0, <1>7, OutcomeBelow DEF RecordDirectly
<1>8. CASE Open
  BY <1>0, <1>8 DEF Open, toOpen, BelowInv, ClosedBelowThreshold
<1>9. CASE HalfOpen \/ Close
  BY <1>2, <1>3, <1>9 DEF HalfOpen, Close
<1>10. CASE ResetCloses
  BY <1>1, <1>3, <1>10 DEF ResetCloses, breaker
<1>11. CASE ResetClears
  <2>1. state' = state /\ stats' = resetStats(stats)
    BY <1>11 DEF ResetClears
  <2> QED BY <1>0, <2>1, ResetStatsEmpty, EmptyIsBelow DEF BelowInv, ClosedBelowThreshold
<1>12. CASE Tick \/ UNCHANGED vars
  BY <1>1, <1>12 DEF Tick, vars, breaker
<1> QED BY <1>4, <1>5, <1>6, <1>7, <1>8, <1>9, <1>10, <1>11, <1>12, SMTT(20) DEF Next

(***************************************************************************)
(* For all sensible configurations, count or time based: no behaviour      *)
(* leaves the breaker closed with its failure threshold exceeded.          *)
(***************************************************************************)
THEOREM BelowThreshold == Spec => []ClosedBelowThreshold
<1>1. Init => BelowInv
  BY NewStatsEmpty, EmptyIsBelow, Zenon DEF Init, BelowInv, ClosedBelowThreshold
<1>2. BelowInv => ClosedBelowThreshold
  BY DEF BelowInv
<1> QED BY <1>1, <1>2, BelowStep, PTL DEF Spec
-----------------------------------------------------------------------------
(***************************************************************************)
(* The inductive invariant behind HalfOpenDecides: the half-open state has *)
(* a ring of its capacity, whose totals are what it holds.                 *)
(***************************************************************************)
DecideInv ==
  /\ config \in Configs
  /\ state = "halfOpen" => RingOK(stats, halfOpenCapacity(config)) /\ HalfOpenDecides

\* A full half-open window is decided one way or the other.
LEMMA FullDecides ==
  ASSUME NEW c \in Configs, NEW s, RingOK(s, halfOpenCapacity(c)),
         executionCount(s) = halfOpenCapacity(c)
  PROVE  successesExceeded(c, s) \/ failuresExceeded(c, s)
<1> DEFINE n == halfOpenCapacity(c)
           a == successCount(s)
           b == failureCount(s)
<1>1. n \in Nat \ {0}
  BY Capacity
<1>2. a \in Nat /\ b \in Nat /\ a + b = n
  BY <1>1, RingShows, ZenonT(30)
<1>3. c \in ConfigType /\ Sensible(c)
  BY BreakerAssumption
<1>4. CASE c.successThreshold # 0
  <2>1. c.successThreshold \in 1..c.successThresholdingCapacity /\ n = c.successThresholdingCapacity
    BY <1>3, <1>4 DEF Sensible, ConfigType, halfOpenCapacity
  <2> HIDE DEF a, b, n
  <2>2. a >= c.successThreshold \/ b > c.successThresholdingCapacity - c.successThreshold
    BY <1>1, <1>2, <2>1
  <2> QED BY <1>4, <2>2 DEF successesExceeded, failuresExceeded, a, b
<1>5. CASE c.successThreshold = 0 /\ c.failureRateThreshold # 0
  <2>0. /\ c.successThresholdingCapacity = 0 /\ c.failureExecutionThreshold # 0
        /\ c.failureRateThreshold \in 0..100
    BY <1>3, <1>5 DEF Sensible, ConfigType
  <2>1. n = c.failureExecutionThreshold /\ executionCount(s) = c.failureExecutionThreshold
    BY <2>0, Zenon DEF halfOpenCapacity, closedCapacity
  <2>2. successRate(s) = Counting!Percentage(a, n) /\ failureRate(s) = Counting!Percentage(b, n)
    BY <1>1, RingShows, ZenonT(30)
  <2>3. /\ successRate(s) \in Int /\ failureRate(s) \in Int
        /\ successRate(s) + failureRate(s) >= 100
    BY <1>1, <1>2, <2>2, RatesCover, ZenonT(30)
  <2>4. successRate(s) > 100 - c.failureRateThreshold \/ failureRate(s) >= c.failureRateThreshold
    BY <2>0, <2>3
  <2>5. executionCount(s) >= c.failureExecutionThreshold
    BY <1>1, <2>1
  <2> QED BY <1>5, <2>4, <2>5, ZenonT(30) DEF successesExceeded, failuresExceeded
<1>6. CASE c.successThreshold = 0 /\ c.failureRateThreshold = 0
  <2>1. n = c.failureThresholdingCapacity /\ c.failureThreshold \in 1..c.failureThresholdingCapacity
    BY <1>3, <1>6 DEF Sensible, ConfigType, halfOpenCapacity, closedCapacity
  <2> HIDE DEF a, b, n
  <2>2. a > c.failureThresholdingCapacity - c.failureThreshold \/ b >= c.failureThreshold
    BY <1>1, <1>2, <2>1
  <2> QED BY <1>6, <2>2 DEF successesExceeded, failuresExceeded, a, b
<1> QED BY <1>4, <1>5, <1>6

\* An empty one is not.
LEMMA EmptyUndecided ==
  ASSUME NEW c \in Configs, NEW n \in Nat \ {0}
  PROVE  LET s == Counting!newCountingStats(n)
         IN /\ RingOK(s, n) /\ executionCount(s) = 0
            /\ ~successesExceeded(c, s) /\ ~failuresExceeded(c, s)
<1> DEFINE s == Counting!newCountingStats(n)
<1>1. RingOK(s, n)
  BY EmptyRing
<1>2. s.occupiedBits = 0 /\ s.successes = 0 /\ s.failures = 0
  BY DEF Counting!newCountingStats
<1> HIDE DEF s
<1>3. executionCount(s) = 0 /\ successCount(s) = 0 /\ failureCount(s) = 0
  BY <1>1, <1>2, RingShows, ZenonT(30)
<1>4. c \in ConfigType /\ Sensible(c)
  BY BreakerAssumption
<1>5. ~successesExceeded(c, s) /\ ~failuresExceeded(c, s)
  BY <1>3, <1>4 DEF successesExceeded, failuresExceeded, ConfigType, Sensible
<1> QED BY <1>1, <1>3, <1>5 DEF s

\* The new half-open state and a half-open state that is reset start empty.
LEMMA EmptyDecides ==
  ASSUME config \in Configs, config' = config,
         stats' = Counting!newCountingStats(halfOpenCapacity(config))
  PROVE  DecideInv'
<1> DEFINE n == halfOpenCapacity(config)
<1>1. n \in Nat \ {0} /\ n' = n
  BY Capacity DEF halfOpenCapacity, closedCapacity
<1>2. /\ RingOK(stats', n) /\ executionCount(stats') = 0
      /\ ~successesExceeded(config, stats') /\ ~failuresExceeded(config, stats')
  BY <1>1, EmptyUndecided
<1>3. ~IsTimed(stats')
  BY <1>1, <1>2, RingShows, ZenonT(30)
<1>4. RingOK(stats, n)' /\ HalfOpenDecides'
  BY <1>1, <1>2, <1>3 DEF HalfOpenDecides
<1> QED BY <1>4, Zenon DEF DecideInv

\* Recording an outcome decides, or leaves the window with room for another.
LEMMA OutcomeDecides ==
  ASSUME DecideInv, config' = config, NEW success \in BOOLEAN, NEW computed, NEW holder,
         recordOutcome(success, computed, holder)
  PROVE  DecideInv'
<1> DEFINE s == recorded(stats, success)
           n == halfOpenCapacity(config)
<1>1. config \in Configs /\ n \in Nat \ {0} /\ n' = n
  BY Capacity DEF DecideInv, halfOpenCapacity, closedCapacity
<1>2. checkThresholdAndReleasePermit(s, computed, holder)
  BY DEF recordOutcome
<1>3. CASE state' # "halfOpen"
  BY <1>1, <1>3 DEF DecideInv
<1>4. CASE state' = "halfOpen"
  <2>1. /\ state = "halfOpen" /\ stats' = s
        /\ ~successesExceeded(config, s) /\ ~failuresExceeded(config, s)
    BY <1>2, <1>4 DEF checkThresholdAndReleasePermit, closedCheck, halfOpenCheck, toOpen, toClosed
  <2>2. RingOK(stats, n) /\ HalfOpenDecides
    BY <2>1 DEF DecideInv
  <2>3. s = Counting!setNext(stats, success)
    BY <1>1, <2>2, RingShows, ZenonT(30) DEF recorded
  <2> HIDE DEF s
  <2>4. RingOK(s, n)
    BY <1>1, <2>2, <2>3, SetNextKeeps
  <2>5. ~IsTimed(s) /\ executionCount(s) \in 0..n
    BY <1>1, <2>4, RingShows, ZenonT(30)
  <2>6. executionCount(s) # n
    BY <1>1, <2>1, <2>4, FullDecides
  <2>7. executionCount(s) < n
    BY <1>1, <2>5, <2>6
  <2>8. RingOK(stats, n)'
    BY <1>1, <2>1, <2>4, Zenon
  <2>9. HalfOpenDecides'
    BY <1>1, <2>1, <2>5, <2>7 DEF HalfOpenDecides
  <2> QED BY <1>1, <2>8, <2>9 DEF DecideInv
<1> QED BY <1>3, <1>4

LEMMA DecideStep == DecideInv /\ [Next]_vars => DecideInv'
<1> SUFFICES ASSUME DecideInv, [Next]_vars PROVE DecideInv'
  OBVIOUS
<1>0. config' = config /\ config \in Configs
  BY Zenon DEF Next, PreExecute, PostExecute, Panic, RecordDirectly, Open, HalfOpen, Close,
         ResetCloses, ResetClears, Tick, vars, DecideInv
<1>1. CASE UNCHANGED <<state, stats>>
  <2>1. CASE state = "halfOpen"
    <3>1. RingOK(stats, halfOpenCapacity(config)) /\ HalfOpenDecides
      BY <2>1 DEF DecideInv
    <3>2. RingOK(stats, halfOpenCapacity(config))' /\ HalfOpenDecides'
      BY <1>0, <1>1, <3>1 DEF HalfOpenDecides
    <3> QED BY <1>0, <3>2 DEF DecideInv
  <2>2. CASE state # "halfOpen"
    BY <1>0, <1>1, <2>2 DEF DecideInv
  <2> QED BY <2>1, <2>2
<1>2. ASSUME NEW permits, newHalfOpenState(permits) PROVE DecideInv'
  <2>1. stats' = Counting!newCountingStats(halfOpenCapacity(config))
    BY <1>2 DEF newHalfOpenState, newStats
  <2> QED BY <1>0, <2>1, EmptyDecides
<1>3. CASE state' # "halfOpen"
  BY <1>0, <1>3 DEF DecideInv
<1>4. ASSUME NEW e \in Exec, PreExecute(e) PROVE DecideInv'
  BY <1>1, <1>2, <1>4 DEF PreExecute, tryAcquirePermit, Reject, breaker
<1>5. ASSUME NEW e \in Exec, NEW success \in BOOLEAN, PostExecute(e, success) PROVE DecideInv'
  BY <1>0, <1>5, OutcomeDecides DEF PostExecute
<1>6. ASSUME NEW e \in Exec, Panic(e) PROVE DecideInv'
  BY <1>1, <1>6 DEF Panic, breaker
<1>7. ASSUME NEW success \in BOOLEAN, RecordDirectly(success) PROVE DecideInv'
  BY <1>0, <1>7, OutcomeDecides, ZenonT(30) DEF RecordDirectly
<1>8. CASE Open \/ Close
  BY <1>3, <1>8, ZenonT(30) DEF Open, toOpen, Close, toClosed
<1>9. CASE HalfOpen
  BY <1>2, <1>9 DEF HalfOpen
<1>10. CASE ResetCloses
  BY <1>1, <1>3, <1>10, Zenon DEF ResetCloses, toClosed, breaker
<1>11. CASE ResetClears
  <2>1. state' = state /\ stats' = resetStats(stats)
    BY <1>11 DEF ResetClears
  <2>2. CASE state = "halfOpen"
    <3>1. RingOK(stats, halfOpenCapacity(config)) /\ halfOpenCapacity(config) \in Nat \ {0}
      BY <1>0, <2>2, Capacity, SMTT(20) DEF DecideInv
    <3>2. ~IsTimed(stats) /\ stats.size = halfOpenCapacity(config)
      BY <3>1, RingShows, ZenonT(30) DEF RingOK, RingTyped
    <3>3. stats' = Counting!newCountingStats(halfOpenCapacity(config))
      BY <2>1, <3>2 DEF resetStats, Counting!reset
    <3> QED BY <1>0, <3>3, EmptyDecides
  <2>3. CASE state # "halfOpen"
    BY <1>3, <2>1, <2>3, SMTT(20)
  <2> QED BY <2>2, <2>3
<1>12. CASE Tick \/ UNCHANGED vars
  BY <1>1, <1>12 DEF Tick, vars, breaker
<1> QED BY <1>4, <1>5, <1>6, <1>7, <1>8, <1>9, <1>10, <1>11, <1>12, SMTT(20) DEF Next

(***************************************************************************)
(* For all sensible configurations, with ratios, thresholds and rounded    *)
(* rates of any size: a half-open breaker decides by the time its window   *)
(* is full, and never stays half-open with a threshold exceeded.           *)
(***************************************************************************)
THEOREM HalfOpenWindows == Spec => []HalfOpenDecides
<1>1. Init => DecideInv
  BY DEF Init, DecideInv
<1>2. DecideInv => HalfOpenDecides
  BY DEF DecideInv, HalfOpenDecides
<1> QED BY <1>1, <1>2, DecideStep, PTL DEF Spec
-----------------------------------------------------------------------------
(***************************************************************************)
(* The statistics of a breaker, of either kind, against the outcomes since *)
(* its state was entered.                                                  *)
(***************************************************************************)
SliceLength(c) == c.failureThresholdingPeriod \div BucketCount

StatsOK(s, c) ==
  \/ RingOK(s, closedCapacity(c)) \/ RingOK(s, halfOpenCapacity(c))
  \/ c.failureThresholdingPeriod # 0 /\ SlicesOK(s, BucketCount, SliceLength(c))

LEMMA SliceLengthIs ==
  ASSUME NEW c \in Configs, c.failureThresholdingPeriod # 0
  PROVE  BucketCount \in Nat \ {0} /\ SliceLength(c) \in Nat \ {0}
<1> DEFINE period == c.failureThresholdingPeriod
           d == period \div BucketCount
<1>1. BucketCount \in Nat \ {0} /\ period \in Nat /\ period >= BucketCount
  BY BreakerAssumption, PeriodAssumption DEF ConfigType
<1> HIDE DEF period
<1>2. d \in Nat /\ period < BucketCount * d + BucketCount
  BY <1>1, DivisionNat, Division
<1> HIDE DEF d
<1>3. d # 0
  BY <1>1, <1>2
<1> QED BY <1>1, <1>2, <1>3 DEF SliceLength, d, period

LEMMA Capacities ==
  ASSUME NEW c \in Configs
  PROVE  /\ closedCapacity(c) \in Nat \ {0} /\ halfOpenCapacity(c) \in Nat \ {0}
         /\ closedCapacity(c) <= MaxTally /\ halfOpenCapacity(c) <= MaxTally
         /\ MaxTally \in Nat /\ MaxTimed \in Nat /\ MaxTimed <= MaxTally
<1>1. /\ c.failureExecutionThreshold \in Nat
      /\ c.failureThresholdingCapacity \in Nat \ {0}
  BY BreakerAssumption DEF Sensible, ConfigType
<1>2. closedCapacity(c) \in Nat \ {0}
  BY <1>1 DEF closedCapacity
<1> QED BY <1>2, Capacity, TallyAssumption, BreakerAssumption, SMTT(20)

\* The counts of well formed statistics are natural numbers.
LEMMA StatsNat ==
  ASSUME NEW c \in Configs, NEW s, StatsOK(s, c)
  PROVE  successCount(s) \in Nat /\ failureCount(s) \in Nat
<1>1. CASE RingOK(s, closedCapacity(c)) \/ RingOK(s, halfOpenCapacity(c))
  <2>1. closedCapacity(c) \in Nat \ {0} /\ halfOpenCapacity(c) \in Nat \ {0}
    BY Capacities, Zenon
  <2> QED BY <1>1, <2>1, RingShows, Zenon
<1>2. CASE SlicesOK(s, BucketCount, SliceLength(c))
  <2>1. /\ s = Summed(BucketCount, SliceLength(c), s.buckets, s.head)
        /\ SlicesTyped(BucketCount, SliceLength(c), s.buckets, s.head)
    BY <1>2, Zenon DEF SlicesOK
  <2> QED BY <2>1, SlicesShow, ZenonT(30)
<1> QED BY <1>1, <1>2, Zenon DEF StatsOK

LEMMA NewStatsOK ==
  ASSUME NEW c \in Configs
  PROVE  /\ StatsOK(newStats(c, TRUE, closedCapacity(c)), c)
         /\ Empty(newStats(c, TRUE, closedCapacity(c)))
<1>1. CASE c.failureThresholdingPeriod # 0
  <2>1. BucketCount \in Nat \ {0} /\ SliceLength(c) \in Nat \ {0}
    BY <1>1, SliceLengthIs, ZenonT(30)
  <2>2. newStats(c, TRUE, closedCapacity(c)) = Summed(BucketCount, SliceLength(c), NoSlices(BucketCount), 0)
    BY <1>1, <2>1, NewSlices, Zenon DEF newStats, SliceLength
  <2> QED BY <1>1, <2>1, <2>2, EmptySlicesCount, Zenon DEF StatsOK
<1>2. CASE ~(c.failureThresholdingPeriod # 0)
  <2>1. newStats(c, TRUE, closedCapacity(c)) = Counting!newCountingStats(closedCapacity(c))
    BY <1>2, Zenon DEF newStats
  <2> QED BY <2>1, Capacities, EmptyRingCounts, Zenon DEF StatsOK
<1> QED BY <1>1, <1>2, Zenon

LEMMA ResetStatsOK ==
  ASSUME NEW c \in Configs, NEW s, StatsOK(s, c)
  PROVE  StatsOK(resetStats(s), c) /\ Empty(resetStats(s))
<1>1. ASSUME NEW n \in {closedCapacity(c), halfOpenCapacity(c)}, RingOK(s, n)
      PROVE  StatsOK(resetStats(s), c) /\ Empty(resetStats(s))
  <2>1. n \in Nat \ {0}
    BY Capacities
  <2>2. ~IsTimed(s) /\ s.size = n
    BY <1>1, <2>1, RingShows DEF RingOK, RingTyped
  <2>3. resetStats(s) = Counting!newCountingStats(n)
    BY <2>2, Zenon DEF resetStats, Counting!reset
  <2> QED BY <2>1, <2>3, EmptyRingCounts, Zenon DEF StatsOK
<1>2. CASE c.failureThresholdingPeriod # 0 /\ SlicesOK(s, BucketCount, SliceLength(c))
  <2> DEFINE n == BucketCount
             w == SliceLength(c)
  <2>1. n \in Nat \ {0} /\ w \in Nat \ {0}
    BY <1>2, SliceLengthIs
  <2>2. s = Summed(n, w, s.buckets, s.head) /\ SlicesTyped(n, w, s.buckets, s.head)
    BY <1>2, Zenon DEF SlicesOK
  <2>3. IsTimed(s)
    BY <2>2, SlicesShow
  <2>4. resetStats(s) = Summed(n, w, NoSlices(n), 0)
    BY <2>2, <2>3, ResetSlices, ZenonT(30) DEF resetStats
  <2> QED BY <1>2, <2>1, <2>4, EmptySlicesCount, Zenon DEF StatsOK
<1> QED BY <1>1, <1>2, ZenonT(30) DEF StatsOK

\* Recording keeps the statistics well formed and the counts below the bound.
LEMMA RecordedOK ==
  ASSUME config \in Configs, now \in Nat, StatsOK(stats, config), NEW success \in BOOLEAN,
         IsTimed(stats) => executionCount(stats) < MaxTimed
  PROVE  LET r == recorded(stats, success)
         IN /\ StatsOK(r, config) /\ AtMostOneMore(stats, r, success)
            /\ successCount(r) <= MaxTally /\ failureCount(r) <= MaxTally
<1> DEFINE r == recorded(stats, success)
<1>0. /\ closedCapacity(config) \in Nat \ {0} /\ halfOpenCapacity(config) \in Nat \ {0}
      /\ closedCapacity(config) <= MaxTally /\ halfOpenCapacity(config) <= MaxTally
      /\ MaxTally \in Nat /\ MaxTimed \in Nat /\ MaxTimed <= MaxTally
  BY Capacities, Zenon
<1>1. ASSUME NEW n \in {closedCapacity(config), halfOpenCapacity(config)}, RingOK(stats, n)
      PROVE  /\ StatsOK(r, config) /\ AtMostOneMore(stats, r, success)
             /\ successCount(r) <= MaxTally /\ failureCount(r) <= MaxTally
  <2>1. n \in Nat \ {0} /\ n <= MaxTally
    BY <1>0
  <2>2. ~IsTimed(stats)
    BY <1>1, <2>1, RingShows, ZenonT(30)
  <2>3. r = Counting!setNext(stats, success)
    BY <2>2, Zenon DEF recorded
  <2> HIDE DEF r
  <2>4. RingOK(r, n) /\ AtMostOneMore(stats, r, success) /\ successCount(r) <= n /\ failureCount(r) <= n
    BY <1>1, <2>1, <2>3, RingRecords, SMTT(20)
  <2>5. successCount(r) <= MaxTally /\ failureCount(r) <= MaxTally
    BY <1>0, <2>1, <2>4 DEF AtMostOneMore
  <2> QED BY <1>1, <2>4, <2>5, Zenon DEF StatsOK
<1>2. ASSUME config.failureThresholdingPeriod # 0, SlicesOK(stats, BucketCount, SliceLength(config))
      PROVE  /\ StatsOK(r, config) /\ AtMostOneMore(stats, r, success)
             /\ successCount(r) <= MaxTally /\ failureCount(r) <= MaxTally
  <2> DEFINE n == BucketCount
             w == SliceLength(config)
  <2>1. /\ IsTimed(stats) /\ successCount(stats) \in Nat /\ failureCount(stats) \in Nat
        /\ executionCount(stats) = successCount(stats) + failureCount(stats)
    <3>1. stats = Summed(n, w, stats.buckets, stats.head) /\ SlicesTyped(n, w, stats.buckets, stats.head)
      BY <1>2, Zenon DEF SlicesOK
    <3> QED BY <3>1, SlicesShow
  <2>2. r = Timed!record(stats, success, now)
    BY <2>1, Zenon DEF recorded
  <2> HIDE DEF r
  <2>3. SlicesOK(r, n, w) /\ AtMostOneMore(stats, r, success)
    BY <1>2, <2>2, SlicesRecord, SMTT(20)
  <2>4. executionCount(stats) < MaxTimed
    BY <2>1
  <2>5. successCount(r) <= MaxTally /\ failureCount(r) <= MaxTally
    BY <1>0, <2>1, <2>3, <2>4, SMTT(20) DEF AtMostOneMore
  <2> QED BY <1>2, <2>3, <2>5, Zenon DEF StatsOK
<1> HIDE DEF r
<1>3. /\ StatsOK(r, config) /\ AtMostOneMore(stats, r, success)
      /\ successCount(r) <= MaxTally /\ failureCount(r) <= MaxTally
  BY <1>1, <1>2, ZenonT(30) DEF StatsOK
<1> QED BY <1>3 DEF r

(***************************************************************************)
(* The inductive invariant behind NoCarryOver: the statistics are what     *)
(* they claim to be, and the history is bounded.                           *)
(***************************************************************************)
HInv ==
  /\ DecideInv
  /\ now \in Nat /\ StatsOK(stats, config)
  /\ tally \in [successes : 0..MaxTally, failures : 0..MaxTally]
  /\ NoCarryOver

\* Statistics that were just made carry nothing over.
LEMMA StartsAfresh ==
  ASSUME StatsOK(stats', config'), Empty(stats'), tally' = None, now' \in Nat, DecideInv', MaxTally \in Nat
  PROVE  HInv'
<1>1. tally' \in [successes : 0..MaxTally, failures : 0..MaxTally] /\ tally'.successes = 0 /\ tally'.failures = 0
  BY DEF None
<1>2. successCount(stats') = 0 /\ failureCount(stats') = 0
  BY DEF Empty
<1>3. Counts(stats') = tally'
  BY <1>2, Zenon DEF Counts, None
<1>4. NoCarryOver'
  BY <1>1, <1>2, <1>3, SMTT(20) DEF NoCarryOver
<1> QED BY <1>1, <1>4, ZenonT(30) DEF HInv

\* The history counts an outcome, up to its bound.
LEMMA BumpedIs ==
  ASSUME tally \in [successes : 0..MaxTally, failures : 0..MaxTally], MaxTally \in Nat, NEW success \in BOOLEAN
  PROVE  /\ Bumped(success) \in [successes : 0..MaxTally, failures : 0..MaxTally]
         /\ Bumped(success).successes = IF success THEN Capped(tally.successes) ELSE tally.successes
         /\ Bumped(success).failures = IF success THEN tally.failures ELSE Capped(tally.failures)
<1>1. Capped(tally.successes) \in 0..MaxTally /\ Capped(tally.failures) \in 0..MaxTally
  BY DEF Capped
<1> QED BY <1>1 DEF Bumped

\* What recording an outcome can do to the statistics.
LEMMA OutcomeStats ==
  ASSUME NEW success, NEW computed, NEW holder, recordOutcome(success, computed, holder)
  PROVE  \/ /\ stats' = recorded(stats, success) /\ (state' = state \/ state' = "open")
         \/ /\ state' = "closed" /\ state = "halfOpen"
            /\ stats' = newStats(config, TRUE, closedCapacity(config))
BY Zenon DEF recordOutcome, checkThresholdAndReleasePermit, closedCheck, halfOpenCheck, toOpen, toClosed

LEMMA OutcomeCarries ==
  ASSUME HInv, DecideInv', config' = config, now' = now, NEW success \in BOOLEAN, NEW computed, NEW holder,
         recordOutcome(success, computed, holder), Track(Bumped(success))
  PROVE  HInv'
<1> DEFINE r == recorded(stats, success)
           B == [successes : 0..MaxTally, failures : 0..MaxTally]
<1>0. /\ DecideInv /\ config \in Configs /\ now \in Nat /\ StatsOK(stats, config)
      /\ tally \in B /\ NoCarryOver
  BY Zenon DEF HInv, DecideInv
<1>1. MaxTally \in Nat /\ halfOpenCapacity(config) \in Nat \ {0} /\ halfOpenCapacity(config) <= MaxTally
  BY <1>0, Capacities
<1>2. CASE stats' = r /\ (state' = state \/ state' = "open")
  <2>1. tally' = Bumped(success)
    BY <1>2, Zenon DEF Track
  <2>2. IsTimed(stats) => executionCount(stats) < MaxTimed
    BY Zenon DEF recordOutcome
  <2>3. /\ StatsOK(r, config) /\ AtMostOneMore(stats, r, success)
        /\ successCount(r) <= MaxTally /\ failureCount(r) <= MaxTally
    BY <1>0, <2>2, RecordedOK, ZenonT(30)
  <2>4. /\ tally' \in B
        /\ tally'.successes = IF success THEN Capped(tally.successes) ELSE tally.successes
        /\ tally'.failures = IF success THEN tally.failures ELSE Capped(tally.failures)
    BY <1>0, <1>1, <2>1, BumpedIs, ZenonT(30)
  <2>5. /\ tally.successes \in 0..MaxTally /\ tally.failures \in 0..MaxTally
        /\ successCount(stats) <= tally.successes /\ failureCount(stats) <= tally.failures
    BY <1>0, ZenonT(30) DEF NoCarryOver
  <2>6. successCount(stats) \in Nat /\ failureCount(stats) \in Nat
    BY <1>0, StatsNat, Zenon
  <2> HIDE DEF r
  <2>7. successCount(r) <= tally'.successes /\ failureCount(r) <= tally'.failures
    BY <1>1, <2>3, <2>4, <2>5, <2>6, SMTT(20) DEF AtMostOneMore, Capped
  <2>8. ASSUME state' = "halfOpen" PROVE Counts(r) = tally'
    <3> DEFINE n == halfOpenCapacity(config)
    <3>1. state = "halfOpen"
      BY <1>2, <2>8
    <3>2. RingOK(stats, n) /\ HalfOpenDecides /\ Counts(stats) = tally
      BY <1>0, <3>1, ZenonT(30) DEF DecideInv, NoCarryOver
    <3>3. /\ ~IsTimed(stats) /\ executionCount(stats) \in 0..n
          /\ successCount(stats) \in Nat /\ failureCount(stats) \in Nat
          /\ successCount(stats) + failureCount(stats) = executionCount(stats)
      BY <1>1, <3>2, RingShows, SMTT(20)
    <3>4. executionCount(stats) < n
      BY <3>1, <3>2 DEF HalfOpenDecides
    <3>5. r = Counting!setNext(stats, success)
      BY <3>3, Zenon DEF recorded, r
    <3>6. OneMore(stats, r, success)
      BY <1>1, <3>2, <3>4, <3>5, RingRecords, SMTT(20)
    <3>7. tally.successes = successCount(stats) /\ tally.failures = failureCount(stats)
      BY <3>2, Zenon DEF Counts
    <3> HIDE DEF n
    <3>8. tally.successes < MaxTally /\ tally.failures < MaxTally
      BY <1>1, <3>3, <3>4, <3>7, SMTT(20) DEF n
    <3>9. successCount(r) = tally'.successes /\ failureCount(r) = tally'.failures
      BY <2>4, <2>5, <3>6, <3>7, <3>8, SMTT(20) DEF OneMore, Capped
    <3>10. tally' = [successes |-> tally'.successes, failures |-> tally'.failures]
      BY <2>4, Zenon
    <3> QED BY <3>9, <3>10, Zenon DEF Counts
  <2>9. NoCarryOver'
    BY <1>2, <2>7, <2>8, SMTT(20) DEF NoCarryOver
  <2>10. StatsOK(stats, config)'
    BY <1>2, <2>3, ZenonT(30)
  <2> QED BY <1>0, <2>4, <2>9, <2>10, Zenon DEF HInv
<1>3. CASE state' = "closed" /\ state = "halfOpen" /\ stats' = newStats(config, TRUE, closedCapacity(config))
  <2>1. tally' = None
    BY <1>3 DEF Track
  <2>2. StatsOK(stats', config') /\ Empty(stats')
    BY <1>0, <1>3, NewStatsOK, Zenon
  <2> QED BY <1>0, <1>1, <2>1, <2>2, StartsAfresh, Zenon
<1> QED BY <1>2, <1>3, OutcomeStats, Zenon

LEMMA HStep == HInv /\ [HNext]_hvars => HInv'
<1> SUFFICES ASSUME HInv, [HNext]_hvars PROVE HInv'
  OBVIOUS
<1>1. [Next]_vars
  BY Zenon DEF HNext, hvars, Outcome, Next
<1>2. DecideInv /\ DecideInv'
  BY <1>1, DecideStep, Zenon DEF HInv
<1>3. config' = config /\ config \in Configs
  BY <1>1, <1>2, Zenon DEF Next, PreExecute, PostExecute, Panic, RecordDirectly, Open, HalfOpen, Close,
         ResetCloses, ResetClears, Tick, vars, DecideInv
<1>4. MaxTally \in Nat /\ halfOpenCapacity(config) \in Nat \ {0}
  BY <1>3, Capacities
<1>5. now \in Nat /\ StatsOK(stats, config)
  BY Zenon DEF HInv
<1>6. ASSUME UNCHANGED <<stats, tally>>, now' \in Nat, state' = state \/ state' = "open" PROVE HInv'
  <2>1. NoCarryOver'
    BY <1>6 DEF HInv, NoCarryOver
  <2>2. StatsOK(stats, config)'
    BY <1>3, <1>5, <1>6
  <2> QED BY <1>2, <1>6, <2>1, <2>2, Zenon DEF HInv
<1>7. ASSUME UNCHANGED <<state, stats>>, now' \in Nat, Track(tally) PROVE HInv'
  <2>1. tally' = tally
    BY <1>7 DEF Track
  <2> QED BY <1>6, <1>7, <2>1, Zenon
<1>8. ASSUME NEW permits, newHalfOpenState(permits), state # "halfOpen", now' = now, Track(tally) PROVE HInv'
  <2> DEFINE s == Counting!newCountingStats(halfOpenCapacity(config))
  <2>1. stats' = s /\ state' = "halfOpen"
    BY <1>8, Zenon DEF newHalfOpenState, newStats
  <2>2. tally' = None
    BY <1>8, <2>1 DEF Track
  <2>3. RingOK(s, halfOpenCapacity(config)) /\ Empty(s)
    BY <1>4, EmptyRingCounts
  <2> HIDE DEF s
  <2>4. StatsOK(stats', config') /\ Empty(stats')
    BY <1>3, <2>1, <2>3, Zenon DEF StatsOK
  <2> QED BY <1>2, <1>4, <1>5, <1>8, <2>2, <2>4, StartsAfresh, Zenon
<1>9. ASSUME toClosed, state # "closed", now' = now, Track(tally) PROVE HInv'
  <2>1. tally' = None
    BY <1>9 DEF Track, toClosed
  <2>2. StatsOK(stats', config') /\ Empty(stats')
    BY <1>3, <1>9, NewStatsOK, Zenon DEF toClosed
  <2> QED BY <1>2, <1>4, <1>5, <1>9, <2>1, <2>2, StartsAfresh, Zenon
<1>10. ASSUME NEW success \in BOOLEAN, Outcome(success), Track(Bumped(success)) PROVE HInv'
  <2>1. now' = now /\ \E computed, holder : recordOutcome(success, computed, holder)
    BY <1>10, Zenon DEF Outcome, PostExecute, RecordDirectly
  <2> QED BY <1>2, <1>3, <1>10, <2>1, OutcomeCarries, Zenon
<1>11. ASSUME ResetClears, Track(None) PROVE HInv'
  <2>1. tally' = None /\ now' = now /\ stats' = resetStats(stats)
    BY <1>11, Zenon DEF ResetClears, Track
  <2>2. StatsOK(stats', config') /\ Empty(stats')
    BY <1>3, <1>5, <2>1, ResetStatsOK
  <2> QED BY <1>2, <1>4, <1>5, <2>1, <2>2, StartsAfresh, Zenon
<1>12. ASSUME NEW e \in Exec, PreExecute(e), Track(tally) PROVE HInv'
  <2>1. now' = now /\ now' \in Nat /\ tryAcquirePermit(e)
    BY <1>5, <1>12, Zenon DEF PreExecute
  <2>2. \/ UNCHANGED <<state, stats>>
        \/ state = "open" /\ newHalfOpenState(halfOpenCapacity(config) - 1)
    BY <2>1, Zenon DEF tryAcquirePermit, Reject, breaker
  <2>3. "open" # "halfOpen"
    OBVIOUS
  <2> QED BY <1>7, <1>8, <1>12, <2>1, <2>2, <2>3, Zenon
<1>13. ASSUME NEW e \in Exec, Panic(e), Track(tally) PROVE HInv'
  BY <1>5, <1>7, <1>13, Zenon DEF Panic, breaker
<1>14. ASSUME Open, Track(tally) PROVE HInv'
  <2>1. stats' = stats /\ state' = "open" /\ now' \in Nat /\ tally' = tally
    BY <1>5, <1>14, Zenon DEF Open, toOpen, Track
  <2> QED BY <1>6, <2>1, Zenon
<1>15. ASSUME HalfOpen, Track(tally) PROVE HInv'
  BY <1>8, <1>15, Zenon DEF HalfOpen
<1>16. ASSUME Close, Track(tally) PROVE HInv'
  BY <1>9, <1>16, Zenon DEF Close
<1>17. ASSUME ResetCloses, Track(tally) PROVE HInv'
  BY <1>5, <1>7, <1>9, <1>17, ZenonT(30) DEF ResetCloses, breaker
<1>18. ASSUME Tick, Track(tally) PROVE HInv'
  <2>1. now' \in Nat
    BY <1>5, <1>18 DEF Tick
  <2> QED BY <1>7, <1>18, <2>1, Zenon DEF Tick, breaker
<1>19. CASE UNCHANGED hvars
  BY <1>5, <1>6, <1>19, Zenon DEF hvars, vars, breaker
<1> QED BY <1>10, <1>11, <1>12, <1>13, <1>14, <1>15, <1>16, <1>17, <1>18, <1>19, Zenon DEF HNext

LEMMA HInvariant == HSpec => []HInv
<1>1. HInit => HInv
  <2> SUFFICES ASSUME HInit PROVE HInv
    OBVIOUS
  <2>1. DecideInv /\ config \in Configs /\ now \in Nat
    BY DEF HInit, Init, DecideInv
  <2>2. StatsOK(stats, config) /\ Empty(stats) /\ state = "closed"
    BY <2>1, NewStatsOK, ZenonT(30) DEF HInit, Init
  <2>3. /\ tally \in [successes : 0..MaxTally, failures : 0..MaxTally]
        /\ tally.successes = 0 /\ tally.failures = 0
    BY <2>1, Capacities DEF HInit, None
  <2>4. NoCarryOver
    BY <2>2, <2>3 DEF NoCarryOver, Empty
  <2> QED BY <2>1, <2>2, <2>3, <2>4, Zenon DEF HInv
<1> QED BY <1>1, HStep, PTL DEF HSpec

(***************************************************************************)
(* For all sensible configurations, count or time based, any number of     *)
(* executions and any bounds: the statistics never count an outcome from   *)
(* before the closed or half-open state was entered or reset, and a        *)
(* half-open state counts every one since.                                 *)
(***************************************************************************)
THEOREM NothingCarriesOver == HSpec => []NoCarryOver
<1>1. HInv => NoCarryOver
  BY DEF HInv
<1> QED BY <1>1, HInvariant, PTL
-----------------------------------------------------------------------------
\* The part of the type that PermitInv and HInv leave out.
StateType == state \in {"closed", "open", "halfOpen"} /\ startTime \in Nat /\ delay \in Nat

RestType == StateType /\ panics \in Nat /\ resetting \in BOOLEAN

LEMMA OutcomeType ==
  ASSUME StateType, config \in Configs, now \in Nat, NEW success, NEW computed \in Nat \cup {-1}, NEW holder,
         recordOutcome(success, computed, holder)
  PROVE  StateType'
<1>1. config.delay \in Nat
  BY BreakerAssumption DEF ConfigType
<1>2. \/ UNCHANGED <<state, startTime, delay>>
      \/ toClosed
      \/ \E s : toOpen(s, computed)
  BY Zenon DEF recordOutcome, checkThresholdAndReleasePermit, closedCheck, halfOpenCheck
<1>3. CASE toClosed
  BY <1>3 DEF toClosed, StateType
<1>4. ASSUME NEW s, toOpen(s, computed) PROVE StateType'
  BY <1>1, <1>4 DEF toOpen, StateType
<1>5. CASE UNCHANGED <<state, startTime, delay>>
  BY <1>5 DEF StateType
<1> QED BY <1>2, <1>3, <1>4, <1>5, Zenon

LEMMA RestStep ==
  ASSUME RestType, config \in Configs, now \in Nat, [Next]_vars
  PROVE  RestType'
<1>1. config.delay \in Nat /\ ComputedDelays \subseteq Nat \cup {-1}
  BY BreakerAssumption DEF ConfigType, ComputedDelays
<1>2. ASSUME toClosed PROVE StateType'
  BY <1>2 DEF toClosed, StateType
<1>3. ASSUME NEW permits, newHalfOpenState(permits) PROVE StateType'
  BY <1>3 DEF newHalfOpenState, StateType
<1>4. ASSUME UNCHANGED <<state, startTime, delay>> PROVE StateType'
  BY <1>4 DEF RestType, StateType
<1>5. ASSUME StateType', UNCHANGED <<panics, resetting>> PROVE RestType'
  BY <1>5 DEF RestType
<1>6. ASSUME NEW e \in Exec, PreExecute(e) PROVE RestType'
  <2>1. UNCHANGED <<state, startTime, delay>> \/ \E permits : newHalfOpenState(permits)
    BY <1>6, Zenon DEF PreExecute, tryAcquirePermit, Reject, breaker
  <2>2. UNCHANGED <<panics, resetting>>
    BY <1>6, Zenon DEF PreExecute
  <2> QED BY <1>3, <1>4, <1>5, <2>1, <2>2, Zenon
<1>7. ASSUME NEW e \in Exec, NEW success \in BOOLEAN, PostExecute(e, success) PROVE RestType'
  <2>1. PICK computed \in Nat \cup {-1} : recordOutcome(success, computed, {e})
    BY <1>1, <1>7, ZenonT(30) DEF PostExecute
  <2>2. UNCHANGED <<panics, resetting>>
    BY <1>7, Zenon DEF PostExecute
  <2> QED BY <1>5, <2>1, <2>2, OutcomeType, Zenon DEF RestType
<1>8. ASSUME NEW success \in BOOLEAN, RecordDirectly(success) PROVE RestType'
  <2>1. recordOutcome(success, -1, {}) /\ UNCHANGED <<panics, resetting>>
    BY <1>8, Zenon DEF RecordDirectly
  <2>2. -1 \in Nat \cup {-1}
    OBVIOUS
  <2> QED BY <1>5, <2>1, <2>2, OutcomeType, Zenon DEF RestType
<1>9. ASSUME NEW e \in Exec, Panic(e) PROVE RestType'
  BY <1>9 DEF Panic, breaker, RestType, StateType
<1>10. CASE Open
  BY <1>1, <1>10, ZenonT(30) DEF Open, toOpen, RestType, StateType
<1>11. CASE HalfOpen \/ Close
  BY <1>2, <1>3, <1>5, <1>11, Zenon DEF HalfOpen, Close
<1>12. CASE ResetCloses
  <2>1. StateType' /\ resetting' = TRUE /\ panics' = panics
    BY <1>2, <1>4, <1>12, Zenon DEF ResetCloses, breaker
  <2> QED BY <2>1 DEF RestType
<1>13. CASE ResetClears \/ Tick \/ UNCHANGED vars
  <2>1. StateType' /\ panics' = panics /\ (resetting' = FALSE \/ resetting' = resetting)
    BY <1>4, <1>13, Zenon DEF ResetClears, Tick, breaker, vars
  <2> QED BY <2>1, Zenon DEF RestType
<1> QED BY <1>6, <1>7, <1>8, <1>9, <1>10, <1>11, <1>12, <1>13, Zenon DEF Next

(***************************************************************************)
(* For all sensible configurations: every variable of the circuit breaker  *)
(* keeps its type.  The half-open state's permits, unsigned in the code,   *)
(* never go below zero, and count based statistics keep their indexes      *)
(* inside their bits.                                                      *)
(***************************************************************************)
THEOREM Types == HSpec => []TypeOK
<1>1. HInit => RestType
  <2>1. HInit => StateType /\ panics \in Nat
    BY DEF HInit, Init, StateType
  <2>2. HInit => resetting \in BOOLEAN
    BY Zenon DEF HInit, Init
  <2> QED BY <2>1, <2>2, ZenonT(30) DEF RestType
<1>2. PermitInv /\ HInv /\ RestType /\ [HNext]_hvars => RestType'
  <2> SUFFICES ASSUME PermitInv, HInv, RestType, [HNext]_hvars PROVE RestType'
    OBVIOUS
  <2>1. [Next]_vars
    BY Zenon DEF HNext, hvars, Outcome, Next
  <2> QED BY <2>1, RestStep, Zenon DEF PermitInv, HInv
<1>3. PermitInv /\ HInv /\ RestType => TypeOK
  <2> SUFFICES ASSUME PermitInv, HInv, RestType PROVE TypeOK
    OBVIOUS
  <2>1. ASSUME NEW n \in Nat \ {0}, RingOK(stats, n) PROVE CountingType(stats)
    BY <2>1 DEF RingOK, RingTyped, CountingType
  <2>2. IsTimed(stats) \/ CountingType(stats)
    <3>1. StatsOK(stats, config) /\ config \in Configs
      BY Zenon DEF HInv, PermitInv
    <3>2. CASE config.failureThresholdingPeriod # 0 /\ SlicesOK(stats, BucketCount, SliceLength(config))
      BY <3>2, SlicesShow, Zenon DEF SlicesOK
    <3> QED BY <2>1, <3>1, <3>2, Capacities, ZenonT(30) DEF StatsOK
  <2> QED BY <2>2, Zenon DEF TypeOK, PermitInv, HInv, RestType, StateType
<1> QED BY <1>1, <1>2, <1>3, PermitInvariant, HInvariant, PTL DEF HSpec
=============================================================================
