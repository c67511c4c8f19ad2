------------------------- MODULE ConcurrencyProofs -------------------------
(***************************************************************************)
(* Proofs about executions that run at the same time.                      *)
(*                                                                         *)
(* For a bulkhead, any number of executions and permits: who has a permit  *)
(* and who waits for one.                                                  *)
(*                                                                         *)
(* For hedges, every number of them, every choice of the results that      *)
(* cancel, and every RetryPolicy inside: the goroutines of one execution.  *)
(***************************************************************************)
EXTENDS Hedge, Bulkhead, FiniteSetTheorems, TLAPS

\* Taking a sender out of a queue keeps the others, in order and each once.
LEMMA Without ==
  ASSUME NEW q \in Seq(Users), NEW e,
         \A i, j \in DOMAIN q : q[i] = q[j] => i = j
  PROVE  /\ without(q, e) \in Seq(Users)
         /\ \A i \in DOMAIN without(q, e) :
              without(q, e)[i] # e /\ \E k \in DOMAIN q : q[k] = without(q, e)[i]
         /\ \A i, j \in DOMAIN without(q, e) :
              without(q, e)[i] = without(q, e)[j] => i = j
         /\ \A k \in DOMAIN q : q[k] # e => \E i \in DOMAIN without(q, e) : without(q, e)[i] = q[k]
         /\ without(q, e) # <<>> => q # <<>>
<1>1. CASE \E i \in DOMAIN q : q[i] = e
  <2> DEFINE place == CHOOSE i \in DOMAIN q : q[i] = e
             w == [i \in 1..(Len(q) - 1) |-> IF i < place THEN q[i] ELSE q[i + 1]]
  <2>1. without(q, e) = w
    BY <1>1 DEF without
  <2>2. place \in 1..Len(q) /\ q[place] = e /\ Len(q) \in Nat /\ DOMAIN q = 1..Len(q)
    BY <1>1
  <2>3. w \in Seq(Users) /\ Len(w) = Len(q) - 1 /\ DOMAIN w = 1..(Len(q) - 1)
    BY <2>2
  <2> HIDE DEF place
  <2>4. \A i \in DOMAIN w : w[i] # e /\ \E k \in DOMAIN q : q[k] = w[i]
    <3> TAKE i \in DOMAIN w
    <3>1. CASE i < place
      BY <3>1, <2>2, <2>3
    <3>2. CASE ~(i < place)
      BY <3>2, <2>2, <2>3
    <3> QED BY <3>1, <3>2
  <2>5. ASSUME NEW i \in DOMAIN w, NEW j \in DOMAIN w, w[i] = w[j] PROVE i = j
    <3> DEFINE from(x) == IF x < place THEN x ELSE x + 1
    <3>1. i \in 1..(Len(q) - 1) /\ j \in 1..(Len(q) - 1)
      BY <2>3
    <3>2. from(i) \in DOMAIN q /\ from(j) \in DOMAIN q
      BY <2>2, <3>1
    <3>3. w[i] = q[from(i)] /\ w[j] = q[from(j)]
      BY <3>1, Zenon
    <3>4. from(i) = from(j)
      BY <2>5, <3>2, <3>3, Zenon
    <3> QED BY <2>2, <3>1, <3>4
  <2>6. \A k \in DOMAIN q : q[k] # e => \E i \in DOMAIN w : w[i] = q[k]
    <3> SUFFICES ASSUME NEW k \in DOMAIN q, q[k] # e
                 PROVE  \E i \in DOMAIN w : w[i] = q[k]
      OBVIOUS
    <3>1. CASE k < place
      <4>1. k \in DOMAIN w /\ w[k] = q[k]
        BY <3>1, <2>2, <2>3
      <4> QED BY <4>1
    <3>2. CASE k > place
      <4>1. k - 1 \in DOMAIN w /\ w[k - 1] = q[k]
        BY <3>2, <2>2, <2>3
      <4> QED BY <4>1
    <3>3. k # place
      BY <2>2
    <3> QED BY <3>1, <3>2, <3>3, <2>2
  <2>7. q # <<>>
    BY <2>2
  <2> HIDE DEF w
  <2> QED BY <2>1, <2>3, <2>4, <2>5, <2>6, <2>7, SMTT(20)
<1>2. CASE ~ \E i \in DOMAIN q : q[i] = e
  <2>1. without(q, e) = q
    BY <1>2 DEF without
  <2> QED BY <1>2, <2>1
<1> QED BY <1>1, <1>2

\* The inductive invariant: no conjunct is inductive alone.
IInv == BulkheadTypeOK /\ PermitsAccounted /\ NoLostWakeUp

\* The executions inside are finitely many.
LEMMA HoldersFinite == IsFiniteSet(holders) /\ Cardinality(holders) \in Nat
<1>1. IsFiniteSet(holders)
  BY FS_Subset, BulkheadAssumption DEF holders
<1> QED BY <1>1, FS_CardinalityType

\* A send that does not block adds one execution and one element.
LEMMA SendKeeps ==
  ASSUME IInv, NEW e \in Users, stage[e] \in {"idle", "second"}, sendNow(e)
  PROVE  IInv'
<1> USE DEF IInv, sendNow, ready
<1>1. BulkheadTypeOK'
  BY BulkheadAssumption DEF BulkheadTypeOK
<1>2. PermitsAccounted'
  <2>1. holders' = holders \cup {e} /\ e \notin holders
    BY DEF holders, BulkheadTypeOK
  <2>2. Cardinality(holders') = Cardinality(holders) + 1
    BY <2>1, HoldersFinite, FS_AddElement
  <2> QED BY <2>2, HoldersFinite DEF PermitsAccounted, BulkheadTypeOK
<1>3. NoLostWakeUp'
  BY BulkheadAssumption DEF NoLostWakeUp, Waiting, BulkheadTypeOK
<1> QED BY <1>1, <1>2, <1>3

\* An execution that gives up leaves the queue and takes nothing along.
LEMMA GiveUpKeeps ==
  ASSUME IInv, NEW e \in Users, stage[e] # "holding", giveUp(e)
  PROVE  IInv'
<1> USE DEF IInv, giveUp
<1>0. /\ queue \in Seq(Users)
      /\ \A i, j \in DOMAIN queue : queue[i] = queue[j] => i = j
  BY DEF BulkheadTypeOK, NoLostWakeUp
<1>1. BulkheadTypeOK'
  BY <1>0, Without DEF BulkheadTypeOK
<1>2. PermitsAccounted'
  <2>1. holders' = holders
    BY DEF holders, BulkheadTypeOK
  <2> QED BY <2>1 DEF PermitsAccounted
<1>3. NoLostWakeUp'
  <2> DEFINE w == without(queue, e)
  <2>1. /\ \A i \in DOMAIN w : w[i] # e /\ \E k \in DOMAIN queue : queue[k] = w[i]
        /\ \A i, j \in DOMAIN w : w[i] = w[j] => i = j
        /\ \A k \in DOMAIN queue : queue[k] # e => \E i \in DOMAIN w : w[i] = queue[k]
        /\ w # <<>> => queue # <<>>
        /\ w \in Seq(Users)
    BY <1>0, Without
  <2>2. queue' = w /\ semaphore' = semaphore /\ stage' = [stage EXCEPT ![e] = "idle"]
    OBVIOUS
  <2> HIDE DEF w
  <2>3. \A i \in DOMAIN w : w[i] \in Users /\ stage'[w[i]] \in {"timed", "blocked"}
    BY <2>1, <2>2 DEF NoLostWakeUp, Waiting, BulkheadTypeOK
  <2>4. \A x \in Users : Waiting(x)' => \E i \in DOMAIN w : w[i] = x
    <3> SUFFICES ASSUME NEW x \in Users, Waiting(x)'
                 PROVE  \E i \in DOMAIN w : w[i] = x
      OBVIOUS
    <3>1. x # e /\ Waiting(x)
      BY <2>2 DEF Waiting, BulkheadTypeOK
    <3>2. PICK k \in DOMAIN queue : queue[k] = x
      BY <3>1 DEF NoLostWakeUp
    <3> QED BY <3>1, <3>2, <2>1
  <2> QED BY <2>1, <2>2, <2>3, <2>4, SMTT(20) DEF NoLostWakeUp, Waiting
<1> QED BY <1>1, <1>2, <1>3

\* An execution that blocks is queued once, at a full bulkhead.
LEMMA BlockKeeps ==
  ASSUME IInv, NEW e \in Users, stage[e] \in {"idle", "second"},
         NEW how \in {"timed", "blocked"}, block(e, how)
  PROVE  IInv'
<1> USE DEF IInv, block, ready
<1>1. BulkheadTypeOK'
  BY DEF BulkheadTypeOK
<1>2. PermitsAccounted'
  <2>1. holders' = holders
    BY DEF holders, BulkheadTypeOK
  <2> QED BY <2>1 DEF PermitsAccounted
<1>3. NoLostWakeUp'
  <2>1. /\ queue' = Append(queue, e) /\ queue \in Seq(Users)
        /\ DOMAIN queue = 1..Len(queue) /\ Len(queue) \in Nat
        /\ DOMAIN queue' = 1..(Len(queue) + 1)
        /\ queue'[Len(queue) + 1] = e
        /\ \A i \in DOMAIN queue : queue'[i] = queue[i] /\ queue[i] \in Users
    BY DEF BulkheadTypeOK
  <2>2. \A i \in DOMAIN queue : queue[i] # e /\ stage'[queue[i]] \in {"timed", "blocked"}
    BY <2>1 DEF NoLostWakeUp, Waiting, BulkheadTypeOK
  <2>3. stage'[e] \in {"timed", "blocked"}
    BY DEF Waiting, BulkheadTypeOK
  <2>4. \A i \in DOMAIN queue' : i \in DOMAIN queue \/ i = Len(queue) + 1
    BY <2>1
  <2>5. \A i \in DOMAIN queue' : stage'[queue'[i]] \in {"timed", "blocked"}
    BY <2>1, <2>2, <2>3, <2>4
  <2>6. \A i, j \in DOMAIN queue' : queue'[i] = queue'[j] => i = j
    BY <2>1, <2>2, <2>4 DEF NoLostWakeUp
  <2>7. \A x \in Users : Waiting(x)' => \E i \in DOMAIN queue' : queue'[i] = x
    <3> SUFFICES ASSUME NEW x \in Users, Waiting(x)', x # e
                 PROVE  \E i \in DOMAIN queue' : queue'[i] = x
      BY <2>1
    <3>1. Waiting(x)
      BY DEF Waiting, BulkheadTypeOK
    <3> QED BY <3>1, <2>1 DEF NoLostWakeUp
  <2>8. semaphore' = MaxConcurrency
    BY BulkheadAssumption DEF BulkheadTypeOK
  <2> QED BY <2>5, <2>6, <2>7, <2>8, SMTT(20) DEF NoLostWakeUp, Waiting
<1> QED BY <1>1, <1>2, <1>3

\* One execution leaves, and the first that waits, if any, comes in for it.
LEMMA ReleaseKeeps ==
  ASSUME IInv, NEW e \in Users, ReleasePermit(e)
  PROVE  IInv'
<1> USE DEF IInv
<1>0. e \in holders /\ Cardinality(holders \ {e}) = Cardinality(holders) - 1
  <2>1. e \in holders
    BY DEF ReleasePermit, holders
  <2> QED BY <2>1, HoldersFinite, FS_RemoveElement, Zenon
<1>1. CASE queue = <<>>
  <2>1. /\ semaphore' = semaphore - 1 /\ stage' = [stage EXCEPT ![e] = "idle"]
        /\ queue' = <<>> /\ lost' = lost /\ ctxDone' = ctxDone \ {e}
    BY <1>1 DEF ReleasePermit
  <2>2. holders' = holders \ {e}
    BY <2>1 DEF holders, BulkheadTypeOK
  <2>3. Cardinality(holders) \in Nat \ {0}
    BY <1>0, HoldersFinite, FS_EmptySet
  <2>4. PermitsAccounted'
    BY <1>0, <2>1, <2>2, <2>3, SMTT(20) DEF PermitsAccounted, BulkheadTypeOK
  <2>5. BulkheadTypeOK'
    BY <1>0, <2>1, <2>3, BulkheadAssumption, SMTT(20) DEF BulkheadTypeOK, PermitsAccounted
  <2>6. NoLostWakeUp'
    BY <1>1, <2>1, SMTT(20) DEF NoLostWakeUp, Waiting, BulkheadTypeOK
  <2> QED BY <2>4, <2>5, <2>6
<1>2. CASE queue # <<>>
  <2> DEFINE h == Head(queue)
  <2>1. /\ stage' = [stage EXCEPT ![e] = "idle", ![h] = "holding"]
        /\ queue' = Tail(queue) /\ semaphore' = semaphore /\ lost' = lost
        /\ ctxDone' = ctxDone \ {e}
    BY <1>2 DEF ReleasePermit
  <2>2. /\ queue \in Seq(Users) /\ Len(queue) \in Nat \ {0} /\ DOMAIN queue = 1..Len(queue)
        /\ h = queue[1] /\ h \in Users
        /\ queue' \in Seq(Users) /\ DOMAIN queue' = 1..(Len(queue) - 1)
        /\ \A i \in DOMAIN queue' : i + 1 \in DOMAIN queue /\ queue'[i] = queue[i + 1]
    BY <1>2, <2>1 DEF BulkheadTypeOK
  <2>3. stage[h] \in {"timed", "blocked"} /\ stage[e] = "holding"
    BY <2>2 DEF NoLostWakeUp, Waiting, ReleasePermit
  <2> HIDE DEF h
  <2>4. holders' = (holders \ {e}) \cup {h} /\ h \notin holders
    BY <2>1, <2>2, <2>3 DEF holders, BulkheadTypeOK
  <2>5. Cardinality(holders') = Cardinality(holders)
    <3>1. IsFiniteSet(holders \ {e})
      BY HoldersFinite, FS_RemoveElement
    <3>2. Cardinality(holders') = Cardinality(holders \ {e}) + 1
      BY <2>4, <3>1, FS_AddElement
    <3> QED BY <3>2, <1>0, HoldersFinite
  <2>6. PermitsAccounted'
    BY <2>1, <2>5 DEF PermitsAccounted
  <2>7. BulkheadTypeOK'
    BY <2>1, <2>2 DEF BulkheadTypeOK
  <2>8. \A i \in DOMAIN queue' : stage'[queue'[i]] \in {"timed", "blocked"}
    <3> TAKE i \in DOMAIN queue'
    <3>1. i \in Nat /\ i >= 1 /\ i + 1 \in DOMAIN queue /\ 1 \in DOMAIN queue
      BY <2>2
    <3>2. queue'[i] = queue[i + 1] /\ queue'[i] \in Users
      BY <2>2, <3>1
    <3>3. stage[queue'[i]] \in {"timed", "blocked"}
      BY <3>1, <3>2 DEF NoLostWakeUp, Waiting
    <3>4. i + 1 # 1
      BY <3>1
    <3>5. queue[i + 1] # queue[1]
      BY <3>1, <3>4 DEF NoLostWakeUp
    <3>6. queue'[i] # h /\ queue'[i] # e
      BY <2>2, <2>3, <3>2, <3>3, <3>5, SMTT(20)
    <3> QED BY <3>2, <3>3, <3>6, <2>1 DEF BulkheadTypeOK
  <2>9. \A i, j \in DOMAIN queue' : queue'[i] = queue'[j] => i = j
    BY <2>2 DEF NoLostWakeUp
  <2>10. \A x \in Users : stage'[x] \in {"timed", "blocked"} => \E i \in DOMAIN queue' : queue'[i] = x
    <3> SUFFICES ASSUME NEW x \in Users, stage'[x] \in {"timed", "blocked"}
                 PROVE  \E i \in DOMAIN queue' : queue'[i] = x
      OBVIOUS
    <3>1. x # h /\ stage[x] \in {"timed", "blocked"}
      BY <2>1, <2>2, <2>3 DEF BulkheadTypeOK
    <3>2. PICK k \in DOMAIN queue : queue[k] = x
      BY <3>1 DEF NoLostWakeUp, Waiting
    <3>3. k - 1 \in DOMAIN queue' /\ queue'[k - 1] = x
      BY <3>1, <3>2, <2>2
    <3> QED BY <3>3
  <2>11. semaphore' = MaxConcurrency
    BY <1>2, <2>1 DEF NoLostWakeUp
  <2>12. NoLostWakeUp'
    BY <2>8, <2>9, <2>10, <2>11 DEF NoLostWakeUp, Waiting
  <2> QED BY <2>6, <2>7, <2>12
<1> QED BY <1>1, <1>2

\* A panic moves a permit from an execution to the lost ones.
LEMMA PanicKeeps ==
  ASSUME IInv, NEW e \in Users, Panic(e)
  PROVE  IInv'
<1> USE DEF IInv, Panic
<1>1. e \in holders /\ holders' = holders \ {e}
  BY DEF holders, BulkheadTypeOK
<1>2. Cardinality(holders') = Cardinality(holders) - 1
  BY <1>1, HoldersFinite, FS_RemoveElement
<1>3. PermitsAccounted'
  BY <1>2, HoldersFinite DEF PermitsAccounted, BulkheadTypeOK
<1>4. BulkheadTypeOK'
  BY DEF BulkheadTypeOK
<1>5. NoLostWakeUp'
  BY DEF NoLostWakeUp, Waiting, BulkheadTypeOK
<1> QED BY <1>3, <1>4, <1>5

\* Every step keeps the invariant.
LEMMA StepKeeps == IInv /\ [BulkheadNext]_bulkheadVars => IInv'
<1> SUFFICES ASSUME IInv, [BulkheadNext]_bulkheadVars PROVE IInv'
  OBVIOUS
<1>1. ASSUME NEW e \in Users, TryAcquirePermit(e) PROVE IInv'
  BY <1>1, SendKeeps, GiveUpKeeps DEF TryAcquirePermit
<1>2. ASSUME NEW e \in Users, AcquirePermit(e) PROVE IInv'
  BY <1>2, SendKeeps, GiveUpKeeps, BlockKeeps DEF AcquirePermit
<1>3. ASSUME NEW e \in Users, NEW maxWaitTime \in {0, 1}, AcquirePermitWithMaxWait(e, maxWaitTime)
      PROVE  IInv'
  <2>1. CASE giveUp(e)
    BY <1>3, <2>1, GiveUpKeeps DEF AcquirePermitWithMaxWait
  <2>2. CASE sendNow(e)
    BY <1>3, <2>2, SendKeeps DEF AcquirePermitWithMaxWait
  <2>3. CASE /\ stage' = [stage EXCEPT ![e] = "second"]
             /\ UNCHANGED <<semaphore, queue, ctxDone, lost>>
    <3>1. holders' = holders
      BY <1>3, <2>3 DEF AcquirePermitWithMaxWait, holders, IInv, BulkheadTypeOK
    <3>2. PermitsAccounted'
      BY <2>3, <3>1 DEF PermitsAccounted, IInv
    <3>3. BulkheadTypeOK'
      BY <2>3 DEF IInv, BulkheadTypeOK
    <3>4. NoLostWakeUp'
      BY <1>3, <2>3 DEF AcquirePermitWithMaxWait, NoLostWakeUp, Waiting, IInv, BulkheadTypeOK
    <3> QED BY <3>2, <3>3, <3>4, SMTT(20) DEF IInv
  <2> QED BY <1>3, <2>1, <2>2, <2>3 DEF AcquirePermitWithMaxWait
<1>4. ASSUME NEW e \in Users, secondAttempt(e) PROVE IInv'
  BY <1>4, SendKeeps, GiveUpKeeps, BlockKeeps, SMTT(20) DEF secondAttempt
<1>5. ASSUME NEW e \in Users, timeElapsed(e) \/ interrupted(e) PROVE IInv'
  BY <1>5, GiveUpKeeps, SMTT(20) DEF timeElapsed, interrupted, Waiting
<1>6. ASSUME NEW e \in Users, ContextDone(e) PROVE IInv'
  <2>1. holders' = holders
    BY <1>6 DEF ContextDone, holders
  <2> QED BY <1>6, <2>1 DEF ContextDone, IInv, BulkheadTypeOK, PermitsAccounted, NoLostWakeUp, Waiting
<1>7. CASE UNCHANGED bulkheadVars
  <2>1. holders' = holders
    BY <1>7 DEF bulkheadVars, holders
  <2> QED BY <1>7, <2>1 DEF bulkheadVars, IInv, BulkheadTypeOK, PermitsAccounted, NoLostWakeUp, Waiting
<1> QED
  BY <1>1, <1>2, <1>3, <1>4, <1>5, <1>6, <1>7, ReleaseKeeps, PanicKeeps, SMTT(20) DEF BulkheadNext

\* The empty bulkhead satisfies it.
LEMMA InitHolds == BulkheadInit => IInv
<1> SUFFICES ASSUME BulkheadInit PROVE IInv
  OBVIOUS
<1>1. holders = {}
  BY DEF BulkheadInit, holders
<1>2. PermitsAccounted
  BY <1>1, FS_EmptySet DEF BulkheadInit, PermitsAccounted
<1>3. BulkheadTypeOK
  BY BulkheadAssumption DEF BulkheadInit, BulkheadTypeOK
<1>4. NoLostWakeUp
  BY DEF BulkheadInit, NoLostWakeUp, Waiting
<1> QED BY <1>2, <1>3, <1>4 DEF IInv

(***************************************************************************)
(* For any number of executions and permits: the channel's elements are    *)
(* the permits that are out, and a caller waits only at a full bulkhead,   *)
(* queued once.                                                            *)
(***************************************************************************)
THEOREM Invariance == BulkheadSpec => [](BulkheadTypeOK /\ PermitsAccounted /\ NoLostWakeUp)
<1>1. IInv => BulkheadTypeOK /\ PermitsAccounted /\ NoLostWakeUp
  BY DEF IInv
<1> QED BY <1>1, InitHolds, StepKeeps, PTL DEF BulkheadSpec

\* For any number of executions and permits: never more executions inside
\* the bulkhead than its maxConcurrency.
THEOREM Isolation == BulkheadSpec => []WithinConcurrency
<1>1. IInv => WithinConcurrency
  BY HoldersFinite, BulkheadAssumption DEF IInv, BulkheadTypeOK, PermitsAccounted, WithinConcurrency
<1> QED BY <1>1, InitHolds, StepKeeps, PTL DEF BulkheadSpec

\* A step of the bulkhead acquires, releases, hands over or loses one permit
\* of the semaphore, or leaves its permits alone.
LEMMA StepRefines == IInv /\ [BulkheadNext]_bulkheadVars => [Permits!SNext]_<<holders, lost>>
<1> SUFFICES ASSUME IInv, [BulkheadNext]_bulkheadVars PROVE Permits!SNext \/ UNCHANGED <<holders, lost>>
  OBVIOUS
<1>1. ASSUME NEW e \in Users, stage[e] # "holding", sendNow(e) PROVE Permits!SAcquire(e)
  <2>1. holders' = holders \cup {e} /\ e \notin holders
    BY <1>1 DEF sendNow, holders, IInv, BulkheadTypeOK
  <2>2. Cardinality(holders) + lost < MaxConcurrency
    BY <1>1 DEF sendNow, ready, IInv, PermitsAccounted
  <2>3. lost' = lost
    BY <1>1 DEF sendNow
  <2>4. Permits!Cardinality(holders) = Cardinality(holders)
    BY DEF Cardinality, Permits!Cardinality
  <2> QED BY <2>1, <2>2, <2>3, <2>4 DEF Permits!SAcquire
<1>2. ASSUME NEW e \in Users, stage[e] # "holding", giveUp(e) PROVE UNCHANGED <<holders, lost>>
  BY <1>2 DEF giveUp, holders, IInv, BulkheadTypeOK
<1>3. ASSUME NEW e \in Users, NEW how \in {"timed", "blocked"}, stage[e] # "holding", block(e, how)
      PROVE UNCHANGED <<holders, lost>>
  BY <1>3 DEF block, holders, IInv, BulkheadTypeOK
<1>4. ASSUME NEW e \in Users, ReleasePermit(e) PROVE Permits!SNext
  <2>1. CASE queue = <<>>
    <3>1. e \in holders /\ holders' = holders \ {e} /\ lost' = lost
      BY <1>4, <2>1 DEF ReleasePermit, holders, IInv, BulkheadTypeOK
    <3> QED BY <3>1 DEF Permits!SNext, Permits!SRelease
  <2>2. CASE queue # <<>>
    <3> DEFINE h == Head(queue)
    <3>1. /\ stage' = [stage EXCEPT ![e] = "idle", ![h] = "holding"]
          /\ lost' = lost /\ stage[e] = "holding"
      BY <1>4, <2>2 DEF ReleasePermit
    <3>2. h \in Users /\ stage[h] # "holding"
      BY <2>2 DEF IInv, BulkheadTypeOK, NoLostWakeUp, Waiting
    <3> HIDE DEF h
    <3>3. e \in holders /\ h \notin holders /\ holders' = (holders \ {e}) \cup {h}
      BY <3>1, <3>2 DEF holders, IInv, BulkheadTypeOK
    <3> QED BY <3>1, <3>2, <3>3 DEF Permits!SNext, Permits!SHandOver
  <2> QED BY <2>1, <2>2
<1>5. ASSUME NEW e \in Users, Panic(e) PROVE Permits!SLose(e)
  BY <1>5 DEF Panic, holders, Permits!SLose, IInv, BulkheadTypeOK
<1>6. ASSUME NEW e \in Users, TryAcquirePermit(e) \/ AcquirePermit(e) \/ secondAttempt(e)
      PROVE  Permits!SNext \/ UNCHANGED <<holders, lost>>
  <2>1. stage[e] # "holding"
    BY <1>6 DEF TryAcquirePermit, AcquirePermit, secondAttempt
  <2>2. sendNow(e) \/ giveUp(e) \/ \E how \in {"timed", "blocked"} : block(e, how)
    BY <1>6 DEF TryAcquirePermit, AcquirePermit, secondAttempt
  <2> QED BY <2>1, <2>2, <1>1, <1>2, <1>3 DEF Permits!SNext
<1>7. ASSUME NEW e \in Users, NEW maxWaitTime \in {0, 1}, AcquirePermitWithMaxWait(e, maxWaitTime)
      PROVE  Permits!SNext \/ UNCHANGED <<holders, lost>>
  <2>1. stage[e] # "holding"
    BY <1>7 DEF AcquirePermitWithMaxWait
  <2>2. CASE stage' = [stage EXCEPT ![e] = "second"] /\ lost' = lost
    BY <2>1, <2>2 DEF holders, IInv, BulkheadTypeOK
  <2> QED BY <1>7, <2>1, <2>2, <1>1, <1>2 DEF AcquirePermitWithMaxWait, Permits!SNext
<1>8. ASSUME NEW e \in Users, timeElapsed(e) \/ interrupted(e) PROVE UNCHANGED <<holders, lost>>
  BY <1>8, <1>2 DEF timeElapsed, interrupted, Waiting
<1>9. ASSUME NEW e \in Users, ContextDone(e) PROVE UNCHANGED <<holders, lost>>
  BY <1>9 DEF ContextDone, holders
<1>10. CASE UNCHANGED bulkheadVars
  BY <1>10 DEF bulkheadVars, holders
<1> QED BY <1>4, <1>5, <1>6, <1>7, <1>8, <1>9, <1>10 DEF BulkheadNext, Permits!SNext

(***************************************************************************)
(* For any number of executions and permits: the channel protocol of the   *)
(* bulkhead implements a counting semaphore.                               *)
(***************************************************************************)
THEOREM Refinement == BulkheadSpec => ImplementsSemaphore
<1>1. BulkheadInit => Permits!SInit
  BY DEF BulkheadInit, Permits!SInit, holders
<1> QED BY <1>1, InitHolds, StepKeeps, StepRefines, PTL DEF BulkheadSpec, ImplementsSemaphore, Permits!SSpec
-----------------------------------------------------------------------------
AllResults == ResultsOf(Errors \cup {"nil"})

LEMMA FailureResultType ==
  ASSUME NEW err \in Errors \cup {"nil"}
  PROVE  FailureResult(err) \in AllResults
BY DEF FailureResult, AllResults, ResultsOf

LEMMA FnResultType ==
  ASSUME NEW err \in FnErrors
  PROVE  FnResult(err) \in AllResults
BY DEF FnResult, AllResults, ResultsOf, Errors, FnErrors

LEMMA WithDoneType ==
  ASSUME NEW r \in AllResults, NEW d \in BOOLEAN, NEW s \in BOOLEAN
  PROVE  WithDone(r, d, s) \in AllResults
BY Zenon DEF WithDone, AllResults, ResultsOf

LEMMA WithFailureType ==
  ASSUME NEW r \in AllResults
  PROVE  WithFailure(r) \in AllResults
BY Zenon DEF WithFailure, AllResults, ResultsOf

LEMMA WithDoneFields ==
  ASSUME NEW r \in AllResults, NEW d \in BOOLEAN, NEW s \in BOOLEAN
  PROVE  WithDone(r, d, s).err = r.err /\ WithDone(r, d, s).exceeded = r.exceeded
BY DEF WithDone, AllResults, ResultsOf

LEMMA WithFailureFields ==
  ASSUME NEW r \in AllResults
  PROVE  WithFailure(r).err = r.err /\ WithFailure(r).exceeded = r.exceeded
BY DEF WithFailure, AllResults, ResultsOf
-----------------------------------------------------------------------------
\* TypeOK in parts.
ApplyType ==
  /\ config \in Policies
  /\ pc \in {"start", "adding", "wait", "check", "cancel", "returned"}
  /\ started \in 0..(config.maxHedges + 1) /\ next \in 0..started
  /\ received \in Attempts \cup {None} /\ resultChan \in Attempts \cup {None}
  /\ output \in AllResults
GoroutineType ==
  /\ at \in [Attempts -> Running \cup Returned \cup {"idle"}]
  /\ result \in [Attempts -> AllResults]
  /\ own \in [Attempts -> Nat]
ContextType ==
  /\ done \in [Attempts -> {"no", "hedge", "parent"}]
  /\ parentDone \in {"no", "Cancel", "context", "timeout"}
  /\ canceledResult \in AllResults
  /\ canceling \in {"no", "marked", "yes"}
CounterType ==
  /\ resultCount \in Nat
  /\ attempts \in Nat /\ retries \in Nat /\ hedges \in Nat /\ executions \in Nat
  /\ failedAttempts \in Nat
FlagType == resultSent \in BOOLEAN /\ retriesExceeded \in BOOLEAN

LEMMA Parts == TypeOK <=> ApplyType /\ GoroutineType /\ ContextType /\ CounterType /\ FlagType
BY Zenon DEF TypeOK, ApplyType, GoroutineType, ContextType, CounterType, FlagType, AllResults

LEMMA MaxHedges ==
  ASSUME ApplyType
  PROVE  config.maxHedges \in Nat /\ Attempts = 0..config.maxHedges /\ None \notin Attempts
BY HedgeAssumption DEF ApplyType, Attempts, None

LEMMA StartedType ==
  ASSUME ApplyType
  PROVE  started \in Nat /\ started <= config.maxHedges + 1
<1>1. config.maxHedges + 1 \in Nat
  BY MaxHedges
<1>2. started \in 0..(config.maxHedges + 1)
  BY DEF ApplyType
<1> QED BY <1>1, <1>2

LEMMA NilType == Nil \in AllResults
BY FailureResultType DEF Nil

LEMMA CancelResultType ==
  ASSUME ContextType
  PROVE  cancelResult \in AllResults
BY FailureResultType DEF ContextType, cancelResult, Errors

(***************************************************************************)
(* A step of attempt i before it has a result for Apply: it stays running  *)
(* or returns, and only touches what attempts share.                       *)
(***************************************************************************)
Internal(i) ==
  \/ \E err \in FnErrors : fnReturns(i, err)
  \/ judge(i) \/ judged(i)
  \/ readFailedAttempts(i) \/ writeFailedAttempts(i) \/ maxRetriesExceeded(i)
  \/ shouldRetry(i) \/ OnFailure(i) \/ RecordResult(i) \/ InitializeRetry(i)

Move(i, s, r) ==
  /\ at[i] \in Running
  /\ s \in Running \cup {"return"} /\ r \in AllResults
  /\ at' = [at EXCEPT ![i] = s] /\ result' = [result EXCEPT ![i] = r]
  /\ UNCHANGED <<config, pc, started, received, next, output, resultCount, resultSent, resultChan,
                 done, parentDone, canceling>>

LEMMA Moves ==
  ASSUME GoroutineType, ContextType, NEW i \in Attempts, Internal(i)
  PROVE  \E s, r : Move(i, s, r)
<1> USE DEF onlyGoroutine, onlyRetryState, apply, sending, contexts, counters, retryState, goTo,
            Running
<1>0. result[i] \in AllResults
  BY DEF GoroutineType
<1>1. CASE \E err \in FnErrors : fnReturns(i, err)
  <2>1. PICK err \in FnErrors : fnReturns(i, err)
    BY <1>1
  <2>2. Move(i, IF config.maxRetries = NoRetryPolicy THEN "return" ELSE "judge", FnResult(err))
    BY <2>1, FnResultType DEF fnReturns, Move
  <2> QED BY <2>2
<1>2. CASE judge(i)
  <2>1. Move(i, "return", cancelResult) \/ Move(i, "judged", result[i])
    BY <1>0, <1>2, CancelResultType DEF judge, Move
  <2> QED BY <2>1
<1>3. CASE judged(i)
  <2>1. WithDone(result[i], TRUE, TRUE) \in AllResults /\ WithFailure(result[i]) \in AllResults
    BY <1>0, WithDoneType, WithFailureType, Zenon
  <2>2. Move(i, "return", result[i]) \/ Move(i, "return", WithDone(result[i], TRUE, TRUE))
        \/ Move(i, "failed", WithFailure(result[i]))
    BY <1>0, <1>3, <2>1, Zenon DEF judged, Move
  <2> QED BY <2>2, Zenon
<1>4. CASE readFailedAttempts(i)
  <2>1. Move(i, "counting", result[i])
    BY <1>0, <1>4 DEF readFailedAttempts, Move
  <2> QED BY <2>1
<1>5. CASE writeFailedAttempts(i)
  <2>1. Move(i, "counted", result[i])
    BY <1>0, <1>5 DEF writeFailedAttempts, Move
  <2> QED BY <2>1
<1>6. CASE maxRetriesExceeded(i)
  <2>1. Move(i, "compared", result[i])
    BY <1>0, <1>6 DEF maxRetriesExceeded, Move
  <2> QED BY <2>1
<1>7. CASE shouldRetry(i)
  <2> DEFINE retry == ~retriesExceeded /\ config.maxRetries # 0
  <2>1. WithDone(result[i], ~retry, FALSE) \in AllResults
    BY <1>0, WithDoneType, Zenon
  <2>2. Move(i, "decided", WithDone(result[i], ~retry, FALSE))
    BY <1>7, <2>1, Zenon DEF shouldRetry, Move
  <2> QED BY <2>2, Zenon
<1>8. CASE OnFailure(i)
  <2>1. [FailureResult(result[i].err) EXCEPT !.exceeded = TRUE] \in AllResults
    BY <1>0, Zenon DEF FailureResult, AllResults, ResultsOf
  <2>2. Move(i, "return", [FailureResult(result[i].err) EXCEPT !.exceeded = TRUE])
        \/ Move(i, "return", result[i]) \/ Move(i, "record", result[i])
    BY <1>0, <1>8, <2>1 DEF OnFailure, Move
  <2> QED BY <2>2
<1>9. CASE RecordResult(i)
  <2>1. Move(i, "return", cancelResult) \/ Move(i, "delay", result[i])
    BY <1>0, <1>9, CancelResultType DEF RecordResult, Move
  <2> QED BY <2>1
<1>10. CASE InitializeRetry(i)
  <2>1. Move(i, "return", cancelResult) \/ Move(i, "run", result[i])
    BY <1>0, <1>10, CancelResultType, Zenon DEF InitializeRetry, Move
  <2> QED BY <2>1
<1> QED BY <1>1, <1>2, <1>3, <1>4, <1>5, <1>6, <1>7, <1>8, <1>9, <1>10 DEF Internal

LEMMA SharedTypes ==
  ASSUME GoroutineType, ContextType, CounterType, FlagType, NEW i \in Attempts, Internal(i)
  PROVE  /\ own' \in [Attempts -> Nat] /\ canceledResult' \in {canceledResult, Nil}
         /\ CounterType' /\ FlagType'
<1> USE DEF onlyGoroutine, onlyRetryState, apply, sending, contexts, counters, retryState
<1>0. own \in [Attempts -> Nat]
  BY DEF GoroutineType
<1>1. CASE \E err \in FnErrors : fnReturns(i, err)
  BY <1>0, <1>1 DEF fnReturns, CounterType, FlagType
<1>2. CASE judge(i) \/ judged(i) \/ shouldRetry(i) \/ OnFailure(i) \/ RecordResult(i)
  BY <1>0, <1>2, Zenon DEF judge, judged, shouldRetry, OnFailure, RecordResult, CounterType, FlagType
<1>3. CASE readFailedAttempts(i)
  BY <1>0, <1>3 DEF readFailedAttempts, CounterType, FlagType
<1>4. CASE writeFailedAttempts(i)
  BY <1>0, <1>4 DEF writeFailedAttempts, CounterType, FlagType
<1>5. CASE maxRetriesExceeded(i)
  <2>1. retriesExceeded' \in BOOLEAN
    BY <1>5 DEF maxRetriesExceeded
  <2> QED BY <1>0, <1>5, <2>1 DEF maxRetriesExceeded, CounterType, FlagType
<1>6. CASE InitializeRetry(i)
  BY <1>0, <1>6 DEF InitializeRetry, CounterType, FlagType
<1> QED BY <1>1, <1>2, <1>3, <1>4, <1>5, <1>6 DEF Internal
-----------------------------------------------------------------------------
\* The step of an attempt that hands its result to Apply.
Handing(i) == countResult(i) \/ claim(i) \/ send(i)

\* The steps that may cancel the execution.
Canceling == CancelMarks \/ CancelPropagates \/ contextDone \/ timerCancels

LEMMA Cases ==
  ASSUME [Next]_vars
  PROVE  \/ addAttempt \/ startAttempt \/ delayElapses \/ receiveResult \/ checkParent \/ cancelOther \/ returnResult
         \/ \E i \in Attempts : Internal(i)
         \/ \E i \in Attempts : Handing(i)
         \/ Canceling
         \/ UNCHANGED vars
BY DEF Next, Apply, Continue, Internal, Handing, Canceling, Terminated

LEMMA ConfigKept ==
  ASSUME [Next]_vars
  PROVE  config' = config /\ Attempts' = Attempts
BY Zenon DEF Next, Apply, addAttempt, startAttempt, delayElapses, receiveResult, checkParent, cancelOther,
   returnResult, Continue, judge, judged, readFailedAttempts, writeFailedAttempts, maxRetriesExceeded, shouldRetry,
   OnFailure, RecordResult, InitializeRetry, countResult, claim, send, fnReturns, onlyGoroutine,
   onlyRetryState, CancelMarks, CancelPropagates, contextDone, timerCancels, Terminated, program, vars,
   Attempts

(***************************************************************************)
(* Where Apply is, and what it has: it only starts an attempt if there is  *)
(* one left and no result yet.                                             *)
(***************************************************************************)
Control ==
  /\ pc \in {"start", "adding", "wait"} => received = None
  /\ pc = "cancel" => received # None
  /\ pc \in {"start", "adding"} \/ (pc = "check" /\ received = None) => started <= config.maxHedges

TypeInv == ApplyType /\ GoroutineType /\ ContextType /\ CounterType /\ FlagType /\ Control

LEMMA TypeInitial == Init => TypeInv
<1> SUFFICES ASSUME Init PROVE TypeInv
  OBVIOUS
<1>1. ApplyType
  BY NilType, HedgeAssumption DEF Init, ApplyType, Attempts, None
<1>2. GoroutineType /\ ContextType
  BY NilType DEF Init, GoroutineType, ContextType, Running, Returned
<1>3. CounterType
  BY DEF Init, CounterType
<1>4. FlagType
  BY Zenon DEF Init, FlagType
<1>5. Control
  BY <1>1, MaxHedges DEF Init, Control
<1> QED BY <1>1, <1>2, <1>3, <1>4, <1>5 DEF TypeInv

LEMMA TypeNext == TypeInv /\ [Next]_vars => TypeInv'
<1> SUFFICES ASSUME TypeInv, [Next]_vars PROVE TypeInv'
  OBVIOUS
<1> USE DEF TypeInv
<1>0. config.maxHedges \in Nat /\ Attempts = 0..config.maxHedges /\ None \notin Attempts
  BY MaxHedges
<1>a. config' = config /\ Attempts' = Attempts
  BY ConfigKept
<1> USE DEF apply, goroutines, sending, contexts, counters, retryState
<1>11. CASE addAttempt
  <2>1. ApplyType' /\ Control'
    BY <1>0, <1>a, <1>11 DEF addAttempt, ApplyType, Control
  <2>2. CounterType' /\ FlagType'
    BY <1>11 DEF addAttempt, CounterType, FlagType
  <2> QED BY <1>a, <1>11, <2>1, <2>2 DEF addAttempt, GoroutineType, ContextType
<1>1. CASE startAttempt
  <2>1. started \in Attempts
    BY <1>0, <1>1 DEF startAttempt, ApplyType, Control
  <2>2. ApplyType' /\ Control'
    BY <1>0, <1>a, <1>1, <2>1 DEF startAttempt, ApplyType, Control
  <2>3. GoroutineType' /\ ContextType'
    BY <1>a, <1>1, <2>1 DEF startAttempt, GoroutineType, ContextType, Running
  <2>4. CounterType' /\ FlagType'
    BY <1>1 DEF startAttempt, CounterType, FlagType
  <2> QED BY <2>2, <2>3, <2>4
<1>2. CASE delayElapses
  <2>1. ApplyType' /\ Control'
    BY <1>0, <1>a, <1>2 DEF delayElapses, ApplyType, Control
  <2> QED BY <1>a, <1>2, <2>1 DEF delayElapses, GoroutineType, ContextType, CounterType, FlagType
<1>3. CASE receiveResult
  <2>1. ApplyType' /\ Control'
    BY <1>0, <1>a, <1>3 DEF receiveResult, ApplyType, Control
  <2> QED BY <1>a, <1>3, <2>1 DEF receiveResult, GoroutineType, ContextType, CounterType, FlagType
<1>4. CASE checkParent
  <2>1. ApplyType' /\ Control'
    BY <1>0, <1>a, <1>4, CancelResultType DEF checkParent, ApplyType, Control
  <2> QED BY <1>a, <1>4, <2>1 DEF checkParent, GoroutineType, ContextType, CounterType, FlagType
<1>5. CASE cancelOther
  <2>1. ApplyType' /\ Control'
    BY <1>0, <1>a, <1>5 DEF cancelOther, ApplyType, Control
  <2>2. ContextType'
    BY <1>a, <1>5, NilType DEF cancelOther, ContextType
  <2> QED BY <1>a, <1>5, <2>1, <2>2 DEF cancelOther, GoroutineType, CounterType, FlagType
<1>6. CASE returnResult
  <2>1. received \in Attempts
    BY <1>6 DEF returnResult, ApplyType, Control
  <2>2. ApplyType' /\ Control'
    BY <1>0, <1>a, <1>6, <2>1, Zenon DEF returnResult, ApplyType, Control, GoroutineType
  <2> QED BY <1>a, <1>6, <2>2 DEF returnResult, GoroutineType, ContextType, CounterType, FlagType
<1>7. CASE \E i \in Attempts : Internal(i)
  <2>1. PICK i \in Attempts : Internal(i)
    BY <1>7
  <2>2. PICK s, r : Move(i, s, r)
    BY <2>1, Moves
  <2>3. /\ own' \in [Attempts -> Nat] /\ canceledResult' \in {canceledResult, Nil}
        /\ CounterType' /\ FlagType'
    BY <2>1, SharedTypes
  <2>4. ApplyType' /\ Control'
    BY <1>a, <2>2, Zenon DEF Move, ApplyType, Control
  <2>5. GoroutineType'
    BY <1>a, <2>2, <2>3, Zenon DEF Move, GoroutineType, Returned
  <2>6. ContextType'
    BY <1>a, <2>2, <2>3, NilType DEF Move, ContextType
  <2> QED BY <2>3, <2>4, <2>5, <2>6
<1>8. CASE \E i \in Attempts : Handing(i)
  <2>1. PICK i \in Attempts : countResult(i) \/ claim(i) \/ send(i)
    BY <1>8 DEF Handing
  <2>2. ApplyType' /\ Control'
    BY <1>a, <2>1, Zenon DEF countResult, claim, send, ApplyType, Control
  <2>3. GoroutineType'
    BY <1>a, <2>1, Zenon DEF countResult, claim, send, goTo, GoroutineType, Returned
  <2>4. ContextType' /\ CounterType'
    BY <1>a, <2>1 DEF countResult, claim, send, ContextType, CounterType
  <2>5. FlagType'
    BY <2>1, Zenon DEF countResult, claim, send, FlagType
  <2> QED BY <2>2, <2>3, <2>4, <2>5
<1>9. CASE Canceling
  <2>1. ContextType'
    BY <1>a, <1>9, FailureResultType, Zenon
    DEF Canceling, CancelMarks, CancelPropagates, contextDone, timerCancels, cancelParent, ContextType, Errors
  <2> QED BY <1>a, <1>9, <2>1, Zenon
    DEF Canceling, CancelMarks, CancelPropagates, contextDone, timerCancels, program, ApplyType, Control,
        GoroutineType, CounterType, FlagType
<1>10. CASE UNCHANGED vars
  BY <1>a, <1>10 DEF vars, ApplyType, Control, GoroutineType, ContextType, CounterType, FlagType
<1> QED BY Cases, <1>1, <1>2, <1>3, <1>4, <1>5, <1>6, <1>7, <1>8, <1>9, <1>10, <1>11, ZenonT(30)

LEMMA Types == Spec => []TypeInv
BY TypeInitial, TypeNext, PTL DEF Spec
-----------------------------------------------------------------------------
(***************************************************************************)
(* Contexts: the parent's cancellation reaches every attempt that has been *)
(* started, the loop of Apply every loser it has passed, and nothing else  *)
(* cancels an attempt.                                                     *)
(***************************************************************************)
LoserInv ==
  /\ \A i \in Attempts : i >= started => at[i] = "idle"
  /\ parentDone # "no" => \A i \in Attempts : i < started => done[i] # "no"
  /\ \A i \in Attempts : done[i] = "parent" => parentDone # "no"
  /\ \A i \in Attempts : done[i] = "hedge" => pc \in {"cancel", "returned"} /\ i # received
  /\ pc \in {"start", "adding", "wait", "check"} => next = 0
  /\ pc = "cancel" => \A i \in Attempts : i < next /\ i # received => done[i] # "no"
  /\ pc = "returned" => \A i \in Attempts : i < started /\ i # received => done[i] # "no"

\* The attempt that Apply starts next is an idle one.
LEMMA Fresh ==
  ASSUME TypeInv, LoserInv, startAttempt
  PROVE  started \in Attempts /\ at[started] = "idle"
<1>1. started <= config.maxHedges
  BY DEF TypeInv, Control, startAttempt
<1>2. started \in Nat /\ Attempts = 0..config.maxHedges /\ config.maxHedges \in Nat
  BY StartedType, MaxHedges DEF TypeInv
<1>3. started \in Attempts
  BY <1>1, <1>2
<1>4. started >= started
  BY <1>2
<1> QED BY <1>3, <1>4 DEF LoserInv

LEMMA LoserInitial == Init => LoserInv
BY DEF Init, LoserInv

LEMMA LoserNext == TypeInv /\ LoserInv /\ [Next]_vars => LoserInv'
<1> SUFFICES ASSUME TypeInv, LoserInv, [Next]_vars PROVE LoserInv'
  OBVIOUS
<1>0. config.maxHedges \in Nat /\ Attempts = 0..config.maxHedges /\ None \notin Attempts
  BY MaxHedges DEF TypeInv
<1>a. config' = config /\ Attempts' = Attempts
  BY ConfigKept
<1>b. /\ started \in Nat /\ next \in 0..started
      /\ at \in [Attempts -> Running \cup Returned \cup {"idle"}]
      /\ done \in [Attempts -> {"no", "hedge", "parent"}]
  BY <1>0 DEF TypeInv, ApplyType, GoroutineType, ContextType
<1> USE DEF goroutines, sending, contexts, counters, retryState, apply
<1>1. CASE startAttempt
  <2>1. started \in Attempts
    BY <1>0, <1>1 DEF startAttempt, TypeInv, ApplyType, Control
  <2> QED BY <1>0, <1>a, <1>b, <1>1, <2>1 DEF startAttempt, LoserInv
<1>2. CASE addAttempt \/ delayElapses
  BY <1>a, <1>2, Zenon DEF addAttempt, delayElapses, LoserInv
<1>3. CASE receiveResult
  BY <1>a, <1>3, Zenon DEF receiveResult, LoserInv
<1>4. CASE checkParent
  BY <1>0, <1>a, <1>4 DEF checkParent, LoserInv
<1>5. CASE cancelOther
  BY <1>0, <1>a, <1>b, <1>5 DEF cancelOther, LoserInv
<1>6. CASE returnResult
  BY <1>0, <1>a, <1>b, <1>6, Zenon DEF returnResult, LoserInv
<1>7. CASE \E i \in Attempts : Internal(i)
  <2>1. PICK i \in Attempts : Internal(i)
    BY <1>7
  <2>2. PICK s, r : Move(i, s, r)
    BY <2>1, Moves DEF TypeInv
  <2>3. i < started
    BY <1>0, <1>b, <2>2 DEF Move, LoserInv, Running
  <2> QED BY <1>0, <1>a, <1>b, <2>2, <2>3 DEF Move, LoserInv
<1>8. CASE \E i \in Attempts : Handing(i)
  <2>1. PICK i \in Attempts : Handing(i)
    BY <1>8
  <2>2. /\ at[i] # "idle" /\ \E s : at' = [at EXCEPT ![i] = s]
        /\ UNCHANGED <<pc, started, received, next, done, parentDone>>
    BY <2>1, Zenon DEF Handing, countResult, claim, send, goTo
  <2>3. i < started
    BY <1>0, <1>b, <2>2 DEF LoserInv
  <2> QED BY <1>0, <1>a, <1>b, <2>2, <2>3, Zenon DEF LoserInv
<1>9. CASE Canceling
  <2>1. UNCHANGED <<pc, started, received, next, at>>
    BY <1>9, Zenon DEF Canceling, CancelMarks, CancelPropagates, contextDone, timerCancels, program
  <2>2. UNCHANGED <<done, parentDone>> \/ \E who \in {"Cancel", "context", "timeout"} : cancelParent(who)
    BY <1>9, Zenon DEF Canceling, CancelMarks, CancelPropagates, contextDone, timerCancels
  <2> QED BY <1>0, <1>a, <1>b, <2>1, <2>2, SMTT(20) DEF cancelParent, LoserInv
<1>10. CASE UNCHANGED vars
  BY <1>a, <1>10, Zenon DEF vars, LoserInv
<1> QED BY Cases, <1>1, <1>2, <1>3, <1>4, <1>5, <1>6, <1>7, <1>8, <1>9, <1>10

LEMMA Losers == Spec => [](TypeInv /\ LoserInv)
BY Types, LoserInitial, LoserNext, PTL DEF Spec

(***************************************************************************)
(* Apply leaves no attempt behind: when it has returned, every other       *)
(* attempt has returned or its context is done, and the winner's context   *)
(* was not canceled by the hedge policy.                                   *)
(***************************************************************************)
THEOREM NoAttemptLeft == Spec => []LosersCanceled
<1>1. TypeInv /\ LoserInv => LosersCanceled
  <2> SUFFICES ASSUME TypeInv, LoserInv, pc = "returned", NEW i \in Attempts
               PROVE  /\ i # received => at[i] \in Returned \cup {"idle"} \/ done[i] # "no"
                      /\ i = received => done[i] # "hedge"
    BY Zenon DEF LosersCanceled
  <2>1. i \in Int /\ started \in Int
    BY MaxHedges DEF TypeInv, ApplyType
  <2> QED BY <2>1 DEF LoserInv
<1> QED BY <1>1, Losers, PTL
-----------------------------------------------------------------------------
\* How many attempts are at one of the places C.
Number(C) == Cardinality({i \in Attempts : at[i] \in C})

LEMMA Numbered ==
  ASSUME ApplyType, NEW C
  PROVE  /\ IsFiniteSet(Attempts) /\ IsFiniteSet({i \in Attempts : at[i] \in C})
         /\ Number(C) \in Nat
<1>1. IsFiniteSet(Attempts)
  BY MaxHedges, FS_Interval
<1>2. IsFiniteSet({i \in Attempts : at[i] \in C})
  BY <1>1, FS_Subset
<1> QED BY <1>1, <1>2, FS_CardinalityType DEF Number

LEMMA Numbering ==
  ASSUME ApplyType, GoroutineType, NEW i \in Attempts, NEW s, at' = [at EXCEPT ![i] = s],
         Attempts' = Attempts, NEW C
  PROVE  Number(C)' = IF s \in C THEN IF at[i] \in C THEN Number(C) ELSE Number(C) + 1
                      ELSE IF at[i] \in C THEN Number(C) - 1 ELSE Number(C)
<1> DEFINE S == {j \in Attempts : at[j] \in C}
<1> DEFINE T == {j \in Attempts : at'[j] \in C}
<1>1. Number(C) = Cardinality(S) /\ Number(C)' = Cardinality(T)
  BY DEF Number
<1>2. IsFiniteSet(S)
  BY Numbered
<1>3. \A j \in Attempts : at'[j] = IF j = i THEN s ELSE at[j]
  BY DEF GoroutineType
<1>4. CASE s \in C
  <2>1. T = S \cup {i}
    BY <1>3, <1>4
  <2>2. i \in S <=> at[i] \in C
    OBVIOUS
  <2> HIDE DEF S, T
  <2> QED BY <1>1, <1>2, <1>4, <2>1, <2>2, FS_AddElement, Zenon
<1>5. CASE s \notin C
  <2>1. T = S \ {i}
    BY <1>3, <1>5
  <2>2. i \in S <=> at[i] \in C
    OBVIOUS
  <2> HIDE DEF S, T
  <2> QED BY <1>1, <1>2, <1>5, <2>1, <2>2, FS_RemoveElement, Zenon
<1> QED BY <1>4, <1>5

LEMMA NumberKept ==
  ASSUME at' = at, Attempts' = Attempts, NEW C
  PROVE  Number(C)' = Number(C)
BY DEF Number

\* When all attempts are counted, all have returned.
LEMMA AllCounted ==
  ASSUME ApplyType, NEW f, NEW C, Cardinality({i \in Attempts : f[i] \in C}) = config.maxHedges + 1
  PROVE  \A i \in Attempts : f[i] \in C
<1> DEFINE S == {j \in Attempts : f[j] \in C}
<1>1. config.maxHedges \in Nat /\ Attempts = 0..config.maxHedges
  BY MaxHedges
<1>2. Cardinality(Attempts) = config.maxHedges + 1 /\ IsFiniteSet(Attempts)
  BY <1>1, FS_Interval
<1>3. S \in SUBSET Attempts /\ Cardinality(S) = Cardinality(Attempts)
  BY <1>2
<1>4. S = Attempts
  <2> HIDE DEF S
  <2> QED BY <1>2, <1>3, FS_Subset
<1> QED BY <1>4
-----------------------------------------------------------------------------
(***************************************************************************)
(* One result: the flag lets one attempt through, from the send to the     *)
(* channel to Apply; and who is let through has a result that cancels, or  *)
(* was the last of all attempts to be counted.                             *)
(***************************************************************************)
Counted == {"offer", "send", "ended"}
OnItsWay(i) == at[i] = "send" \/ i = resultChan \/ i = received

SendInv ==
  /\ resultCount = Number(Counted)
  /\ \A i \in Attempts : OnItsWay(i) => resultSent
  /\ \A i, j \in Attempts : OnItsWay(i) /\ OnItsWay(j) => i = j
  /\ \A i \in Attempts : i = resultChan \/ i = received => at[i] = "ended"
  /\ received # None => resultChan = None
  /\ \A i \in Attempts : at[i] = "offer" \/ OnItsWay(i) =>
       IsAbortable(result[i]) \/ \A j \in Attempts : at[j] \in Returned

LEMMA SendInitial == Init => SendInv
<1> SUFFICES ASSUME Init PROVE SendInv
  OBVIOUS
<1>1. {i \in Attempts : at[i] \in Counted} = {}
  BY DEF Init, Counted
<1>2. Number(Counted) = 0
  BY <1>1, FS_EmptySet DEF Number
<1>3. \A i \in Attempts : ~OnItsWay(i) /\ at[i] # "offer"
  BY DEF Init, OnItsWay, None, Attempts
<1> QED BY <1>2, <1>3, Zenon DEF Init, SendInv, OnItsWay

LEMMA SendNext == TypeInv /\ LoserInv /\ SendInv /\ [Next]_vars => SendInv'
<1> SUFFICES ASSUME TypeInv, LoserInv, SendInv, [Next]_vars PROVE SendInv'
  OBVIOUS
<1>0. config.maxHedges \in Nat /\ Attempts = 0..config.maxHedges /\ None \notin Attempts
  BY MaxHedges DEF TypeInv
<1>a. config' = config /\ Attempts' = Attempts
  BY ConfigKept
<1>b. /\ at \in [Attempts -> Running \cup Returned \cup {"idle"}]
      /\ result \in [Attempts -> AllResults]
      /\ ApplyType /\ GoroutineType
  BY DEF TypeInv, GoroutineType
<1>c. \A i \in Attempts : IsAbortable(result[i])' <=> result'[i].err \in config.cancelOn
  BY <1>a DEF IsAbortable
<1> USE DEF goroutines, sending, contexts, counters, retryState, apply
<1>1. CASE startAttempt
  <2>1. started \in Attempts /\ at[started] = "idle"
    BY <1>1, Fresh
  <2>2. Number(Counted)' = Number(Counted)
    <3>1. at[started] \notin Counted /\ "run" \notin Counted
      BY <2>1 DEF Counted
    <3> QED BY <1>a, <1>b, <1>1, <2>1, <3>1, Numbering, Zenon DEF startAttempt
  <2> QED BY <1>a, <1>b, <1>1, <2>1, <2>2, ZenonT(30) DEF startAttempt, SendInv, OnItsWay, Returned, IsAbortable
<1>2. CASE addAttempt \/ delayElapses \/ checkParent \/ cancelOther \/ returnResult \/ Canceling \/ UNCHANGED vars
  <2>1. UNCHANGED <<received, at, result, resultCount, resultSent, resultChan>>
    BY <1>2 DEF addAttempt, delayElapses, checkParent, cancelOther, returnResult, Canceling, CancelMarks,
       CancelPropagates, contextDone, timerCancels, program, vars
  <2>2. Number(Counted)' = Number(Counted)
    BY <1>a, <2>1, NumberKept, SMTT(20)
  <2> QED BY <1>a, <2>1, <2>2, Zenon DEF SendInv, OnItsWay, IsAbortable
<1>3. CASE receiveResult
  <2>1. Number(Counted)' = Number(Counted)
    BY <1>a, <1>3, NumberKept DEF receiveResult
  <2> QED BY <1>0, <1>a, <1>3, <2>1, ZenonT(30) DEF receiveResult, SendInv, OnItsWay, IsAbortable
<1>4. CASE \E i \in Attempts : Internal(i)
  <2>1. PICK i \in Attempts : Internal(i)
    BY <1>4
  <2>2. PICK s, r : Move(i, s, r)
    BY <2>1, Moves DEF TypeInv
  <2>3. Number(Counted)' = Number(Counted)
    <3>1. s \notin Counted /\ at[i] \notin Counted
      BY <2>2 DEF Move, Counted, Running
    <3> QED BY <1>a, <1>b, <2>2, <3>1, Numbering, Zenon DEF Move
  <2>4. at[i] \notin Returned /\ at[i] \notin {"offer", "send", "ended"} /\ s \notin {"offer", "send", "ended"}
    BY <2>2 DEF Move, Running, Returned
  <2>5. \A j \in Attempts : j # i => at'[j] = at[j] /\ result'[j] = result[j]
    BY <1>b, <2>2, Zenon DEF Move
  <2>6. at'[i] = s /\ UNCHANGED <<received, resultCount, resultSent, resultChan>>
    BY <1>b, <2>2 DEF Move
  <2> QED BY <1>a, <2>3, <2>4, <2>5, <2>6, ZenonT(30) DEF SendInv, OnItsWay, IsAbortable
<1>5. CASE \E i \in Attempts : countResult(i)
  <2>1. PICK i \in Attempts : countResult(i)
    BY <1>5
  <2> DEFINE final == resultCount + 1 = config.maxHedges + 1
  <2>2. /\ at[i] = "return" /\ result' = result
        /\ at' = [at EXCEPT ![i] = IF final \/ IsAbortable(result[i]) THEN "offer" ELSE "ended"]
        /\ resultCount' = resultCount + 1 /\ UNCHANGED <<received, resultSent, resultChan>>
    BY <1>b, <2>1, Zenon DEF countResult, goTo
  <2>3. Number(Counted)' = Number(Counted) + 1
    <3>1. at[i] \notin Counted /\ "offer" \in Counted /\ "ended" \in Counted
      BY <2>2, Zenon DEF Counted
    <3> QED BY <1>a, <1>b, <2>2, <3>1, Numbering, Zenon
  <2>4. resultCount' = Number(Counted)'
    BY <2>2, <2>3 DEF SendInv
  <2>5. Number(Counted)' = Cardinality({j \in Attempts : at'[j] \in Counted})
    BY <1>a DEF Number
  <2>6. ASSUME final PROVE \A j \in Attempts : at'[j] \in Counted
    <3>1. Cardinality({j \in Attempts : at'[j] \in Counted}) = config.maxHedges + 1
      BY <2>2, <2>4, <2>5, <2>6, Zenon
    <3> QED BY <1>b, <3>1, AllCounted, Zenon
  <2>7. \A j \in Attempts : at[j] \in Returned => at'[j] \in Returned
    BY <1>b, <2>2 DEF Returned
  <2>8. at'[i] = "offer" => IsAbortable(result[i])' \/ \A j \in Attempts : at'[j] \in Returned
    BY <1>a, <1>b, <2>2, <2>6, Zenon DEF Counted, Returned, IsAbortable
  <2>9. \A j \in Attempts : j # i => at'[j] = at[j]
    BY <1>b, <2>2
  <2>10. at'[i] \in {"offer", "ended"}
    BY <1>b, <2>2
  <2> HIDE DEF final
  <2> QED BY <1>a, <2>2, <2>4, <2>7, <2>8, <2>9, <2>10 DEF SendInv, OnItsWay, IsAbortable
<1>6. CASE \E i \in Attempts : claim(i)
  <2>1. PICK i \in Attempts : claim(i)
    BY <1>6
  <2>2. /\ at[i] = "offer" /\ result' = result /\ resultSent' = TRUE
        /\ at' = [at EXCEPT ![i] = IF resultSent THEN "ended" ELSE "send"]
        /\ UNCHANGED <<received, resultCount, resultChan>>
    BY <1>b, <2>1, Zenon DEF claim, goTo
  <2>3. Number(Counted)' = Number(Counted)
    <3>1. at[i] \in Counted /\ "send" \in Counted /\ "ended" \in Counted
      BY <2>2 DEF Counted
    <3> QED BY <1>a, <1>b, <2>2, <3>1, Numbering, Zenon
  <2>4. \A j \in Attempts : j # i => at'[j] = at[j]
    BY <1>b, <2>2
  <2>5. (resultSent /\ at'[i] = "ended") \/ (~resultSent /\ at'[i] = "send")
    BY <1>b, <2>2
  <2>6. \A j \in Attempts : at[j] \in Returned => at'[j] \in Returned
    BY <1>b, <2>2 DEF Returned
  <2> QED BY <1>a, <2>2, <2>3, <2>4, <2>5, <2>6 DEF SendInv, OnItsWay, IsAbortable
<1>7. CASE \E i \in Attempts : send(i)
  <2>1. PICK i \in Attempts : send(i)
    BY <1>7
  <2>2. /\ at[i] = "send" /\ result' = result /\ resultChan = None /\ resultChan' = i
        /\ at' = [at EXCEPT ![i] = "ended"]
        /\ UNCHANGED <<received, resultCount, resultSent>>
    BY <1>b, <2>1, Zenon DEF send, goTo
  <2>3. Number(Counted)' = Number(Counted)
    <3>1. at[i] \in Counted /\ "send" \in Counted /\ "ended" \in Counted
      BY <2>2 DEF Counted
    <3> QED BY <1>a, <1>b, <2>2, <3>1, Numbering, ZenonT(30)
  <2>4. \A j \in Attempts : at'[j] = IF j = i THEN "ended" ELSE at[j]
    BY <1>b, <2>2
  <2>5. \A j \in Attempts : at[j] \in Returned => at'[j] \in Returned
    BY <1>b, <2>2 DEF Returned
  <2>6. received = None
    BY <2>2, Zenon DEF SendInv, OnItsWay, TypeInv, ApplyType
  <2>7. OnItsWay(i) /\ \A j \in Attempts : OnItsWay(j)' => OnItsWay(j)
    BY <1>0, <2>2, <2>4, <2>6 DEF OnItsWay
  <2>8. \A j \in Attempts : IsAbortable(result[j])' = IsAbortable(result[j])
    BY <1>a, <2>2 DEF IsAbortable
  <2>9. \A j \in Attempts : at'[j] = "offer" => at[j] = "offer"
    BY <2>4
  <2>10. \A j \in Attempts : j = resultChan' \/ j = received' => at'[j] = "ended"
    BY <1>0, <2>2, <2>4, <2>6
  <2>11. received' # None => resultChan' = None
    BY <2>2, <2>6
  <2>12. resultCount' = Number(Counted)' /\ resultSent' = resultSent
    BY <2>2, <2>3, Zenon DEF SendInv
  <2> HIDE DEF OnItsWay, IsAbortable
  <2> QED BY <1>a, <2>5, <2>7, <2>8, <2>9, <2>10, <2>11, <2>12, Zenon DEF SendInv
<1> QED BY Cases, <1>1, <1>2, <1>3, <1>4, <1>5, <1>6, <1>7 DEF Handing

LEMMA Sends == Spec => [](TypeInv /\ LoserInv /\ SendInv)
BY Losers, SendInitial, SendNext, PTL DEF Spec

(***************************************************************************)
(* Apply receives one result: from an attempt that has ended, that cancels *)
(* the others or is the last of them, and no other is on its way.          *)
(***************************************************************************)
THEOREM OneResultReceived == Spec => []OneResult
<1>1. TypeInv /\ SendInv => OneResult
  <2> SUFFICES ASSUME TypeInv, SendInv PROVE OneResult
    OBVIOUS
  <2> DEFINE B == {i \in Attempts : at[i] = "send" \/ i \in {resultChan, received}}
  <2>1. received # None =>
          /\ at[received] = "ended" /\ resultChan = None
          /\ IsAbortable(result[received]) \/ \A i \in Attempts : at[i] \in Returned
    BY Zenon DEF SendInv, OnItsWay, TypeInv, ApplyType
  <2>2. \A i, j \in B : i = j
    BY Zenon DEF SendInv, OnItsWay
  <2>3. B = {} \/ \E i : B = {i}
    BY <2>2
  <2>4. Cardinality(B) <= 1
    <3> HIDE DEF B
    <3>1. CASE B = {}
      BY <3>1, FS_EmptySet
    <3>2. CASE \E i : B = {i}
      <4>1. Cardinality(B) = 1
        BY <3>2, FS_Singleton
      <4> QED BY <4>1
    <3> QED BY <2>3, <3>1, <3>2
  <2> QED BY <2>1, <2>4, Zenon DEF OneResult
<1> QED BY <1>1, Sends, PTL
-----------------------------------------------------------------------------
(***************************************************************************)
(* Errors of a cancellation have their cause.  An attempt that the loop of *)
(* Apply canceled may have a context error, but is not the winner.         *)
(***************************************************************************)
Caused(err) ==
  /\ err = "timeout" => parentDone = "timeout"
  /\ err = "canceled" => canceling # "no"

CauseInv ==
  /\ canceledResult.err # "context" /\ Caused(canceledResult.err)
  /\ \A i \in Attempts :
       Caused(result[i].err) /\ (result[i].err = "context" => parentDone # "no" \/ done[i] = "hedge")
  /\ Caused(output.err) /\ (output.err = "context" => parentDone # "no")

LEMMA FailureError ==
  ASSUME NEW err
  PROVE  FailureResult(err).err = err /\ FnResult(err).err = err
BY DEF FailureResult, FnResult

LEMMA NilError == Nil.err = "nil"
BY FailureError DEF Nil

\* What an attempt returns when it finds its context done.
LEMMA CancelCause ==
  ASSUME CauseInv
  PROVE  /\ Caused(cancelResult.err)
         /\ cancelResult.err = "context" => canceledResult = Nil
BY FailureError, Zenon DEF CauseInv, cancelResult, Caused

LEMMA CauseInitial == Init => CauseInv
BY NilError, Zenon DEF Init, CauseInv, Caused

LEMMA CauseInternal ==
  ASSUME TypeInv, LoserInv, CauseInv, NEW i \in Attempts, Internal(i)
  PROVE  /\ Caused(result'[i].err)
         /\ result'[i].err = "context" => parentDone # "no" \/ done[i] = "hedge"
<1>0. /\ result[i] \in AllResults /\ result \in [Attempts -> AllResults] /\ done[i] \in {"no", "hedge", "parent"}
      /\ Caused(result[i].err)
      /\ result[i].err = "context" => parentDone # "no" \/ done[i] = "hedge"
  BY Zenon DEF TypeInv, GoroutineType, ContextType, CauseInv
<1>1. CASE \E err \in FnErrors : fnReturns(i, err)
  BY <1>0, <1>1, FailureError, Zenon DEF fnReturns, goTo, FnErrors, Caused
<1>2. CASE done[i] # "no" /\ result' = [result EXCEPT ![i] = cancelResult]
  <2>1. done[i] = "hedge" \/ parentDone # "no"
    BY <1>0, <1>2, Zenon DEF LoserInv
  <2> QED BY <1>0, <1>2, <2>1, CancelCause
<1>3. CASE \E r : r.err = result[i].err /\ result' = [result EXCEPT ![i] = r]
  BY <1>0, <1>3
<1>4. CASE judge(i) \/ RecordResult(i) \/ InitializeRetry(i)
  BY <1>2, <1>3, <1>4, Zenon DEF judge, RecordResult, InitializeRetry, goTo
<1>5. CASE judged(i)
  <2>1. WithDone(result[i], TRUE, TRUE).err = result[i].err /\ WithFailure(result[i]).err = result[i].err
    BY <1>0, WithDoneFields, WithFailureFields, Zenon
  <2> QED BY <1>3, <1>5, <2>1, Zenon DEF judged, goTo
<1>6. CASE readFailedAttempts(i) \/ writeFailedAttempts(i) \/ maxRetriesExceeded(i)
  BY <1>3, <1>6, Zenon DEF readFailedAttempts, writeFailedAttempts, maxRetriesExceeded, goTo
<1>7. CASE shouldRetry(i)
  <2> DEFINE retry == ~retriesExceeded /\ config.maxRetries # 0
  <2>1. WithDone(result[i], ~retry, FALSE).err = result[i].err
    BY <1>0, WithDoneFields, Zenon
  <2> QED BY <1>3, <1>7, <2>1, Zenon DEF shouldRetry, goTo
<1>8. CASE OnFailure(i)
  <2>1. [FailureResult(result[i].err) EXCEPT !.exceeded = TRUE].err = result[i].err
    BY DEF FailureResult
  <2> QED BY <1>3, <1>8, <2>1, Zenon DEF OnFailure, goTo
<1> QED BY <1>1, <1>4, <1>5, <1>6, <1>7, <1>8, Zenon DEF Internal

LEMMA CauseNext == TypeInv /\ LoserInv /\ CauseInv /\ [Next]_vars => CauseInv'
<1> SUFFICES ASSUME TypeInv, LoserInv, CauseInv, [Next]_vars PROVE CauseInv'
  OBVIOUS
<1>a. config' = config /\ Attempts' = Attempts
  BY ConfigKept
<1>b. /\ result \in [Attempts -> AllResults]
      /\ done \in [Attempts -> {"no", "hedge", "parent"}]
  BY DEF TypeInv, GoroutineType, ContextType
<1> USE DEF goroutines, sending, contexts, counters, retryState, apply
<1>1. CASE startAttempt
  <2>1. UNCHANGED <<result, output, canceledResult, parentDone, canceling>>
    BY <1>1, Zenon DEF startAttempt
  <2>2. started \in Attempts /\ pc \in {"start", "adding"}
    BY <1>1, MaxHedges DEF startAttempt, TypeInv, ApplyType, Control
  <2>3. \A i \in Attempts : done[i] # "hedge"
    BY <2>2, Zenon DEF LoserInv
  <2> QED BY <1>a, <2>1, <2>3, Zenon DEF CauseInv, Caused
<1>2. CASE addAttempt \/ delayElapses \/ receiveResult \/ UNCHANGED vars
  BY <1>a, <1>2, Zenon DEF addAttempt, delayElapses, receiveResult, vars, CauseInv, Caused
<1>3. CASE checkParent
  BY <1>a, <1>3, CancelCause, Zenon DEF checkParent, CauseInv, Caused
<1>4. CASE cancelOther
  <2>1. canceledResult' \in {canceledResult, Nil} /\ UNCHANGED <<result, output, parentDone, canceling>>
    BY <1>4 DEF cancelOther
  <2>2. \A i \in Attempts : done[i] = "hedge" => done'[i] = "hedge"
    BY <1>b, <1>4 DEF cancelOther
  <2> QED BY <1>a, <2>1, <2>2, NilError, Zenon DEF CauseInv, Caused
<1>5. CASE returnResult
  <2>1. received \in Attempts /\ done[received] # "hedge"
    BY <1>5, Zenon DEF returnResult, TypeInv, ApplyType, Control, LoserInv
  <2>2. output' = result[received] /\ UNCHANGED <<result, canceledResult, done, parentDone, canceling>>
    BY <1>5, Zenon DEF returnResult
  <2> QED BY <1>a, <2>1, <2>2, Zenon DEF CauseInv, Caused
<1>6. CASE \E i \in Attempts : Internal(i)
  <2>1. PICK i \in Attempts : Internal(i)
    BY <1>6
  <2>2. /\ Caused(result'[i].err)
        /\ result'[i].err = "context" => parentDone # "no" \/ done[i] = "hedge"
    BY <2>1, CauseInternal, Zenon
  <2>3. canceledResult' \in {canceledResult, Nil}
    BY <2>1, SharedTypes DEF TypeInv
  <2>4. PICK s, r : Move(i, s, r)
    BY <2>1, Moves DEF TypeInv
  <2>5. UNCHANGED <<output, done, parentDone, canceling>> /\ \A j \in Attempts : j # i => result'[j] = result[j]
    BY <1>b, <2>4 DEF Move
  <2> QED BY <1>a, <2>2, <2>3, <2>5, NilError, Zenon DEF CauseInv, Caused
<1>7. CASE \E i \in Attempts : Handing(i)
  <2>1. UNCHANGED <<result, output, canceledResult, done, parentDone, canceling>>
    BY <1>b, <1>7, Zenon DEF Handing, countResult, claim, send, goTo
  <2> QED BY <1>a, <2>1, Zenon DEF CauseInv, Caused
<1>8. CASE Canceling
  <2>1. UNCHANGED <<result, output>> /\ (canceling # "no" => canceling' # "no")
    BY <1>8, Zenon DEF Canceling, CancelMarks, CancelPropagates, contextDone, timerCancels, program
  <2>2. parentDone # "no" => parentDone' = parentDone
    BY <1>8, Zenon DEF Canceling, CancelMarks, CancelPropagates, contextDone, timerCancels, cancelParent
  <2>3. \A i \in Attempts : done[i] = "hedge" => done'[i] = "hedge"
    BY <1>8, Zenon DEF Canceling, CancelMarks, CancelPropagates, contextDone, timerCancels, cancelParent
  <2>4. \/ canceledResult' = canceledResult
        \/ canceledResult' = FailureResult("canceled") /\ canceling' # "no"
        \/ canceledResult' = FailureResult("timeout") /\ parentDone' = "timeout"
    BY <1>8, Zenon DEF Canceling, CancelMarks, CancelPropagates, contextDone, timerCancels, cancelParent
  <2> QED BY <1>a, <2>1, <2>2, <2>3, <2>4, FailureError, ZenonT(30) DEF CauseInv, Caused
<1> QED BY Cases, <1>1, <1>2, <1>3, <1>4, <1>5, <1>6, <1>7, <1>8

(***************************************************************************)
(* What happens inside stays inside: Apply returns a context error, a      *)
(* timeout or ErrExecutionCanceled only for a cancellation of the          *)
(* execution itself, never because it canceled the losers.                 *)
(***************************************************************************)
THEOREM CausesFromOutside == Spec => []OutputHasCause
<1>1. CauseInv => OutputHasCause
  BY Zenon DEF CauseInv, Caused, OutputHasCause
<1> QED BY <1>1, Losers, CauseInitial, CauseNext, PTL DEF Spec
-----------------------------------------------------------------------------
(***************************************************************************)
(* The race on failedAttempts: an update can be lost, but the counter, and *)
(* what an attempt has read of it, never runs ahead of the executions that *)
(* have ended and are counted.                                             *)
(***************************************************************************)
Uncounted == {"judge", "judged", "failed", "counting"}
UsedUp == config.maxRetries \in Nat /\ executions > config.maxRetries

RaceInv ==
  /\ \A i \in Attempts : at[i] \in Running \ {"run"} => config.maxRetries # NoRetryPolicy
  /\ failedAttempts + Number(Uncounted) <= executions
  /\ \A i \in Attempts : at[i] = "counting" => own[i] + Number(Uncounted) <= executions
  /\ \A i \in Attempts : at[i] = "counted" => own[i] + Number(Uncounted) <= executions
  /\ retriesExceeded => UsedUp
  /\ ~canceledResult.exceeded
  /\ \A i \in Attempts : result[i].exceeded => UsedUp

LEMMA NotExceeded ==
  ASSUME NEW err
  PROVE  ~FailureResult(err).exceeded /\ ~FnResult(err).exceeded
BY Zenon DEF FailureResult, FnResult

LEMMA RaceInitial == Init => RaceInv
<1> SUFFICES ASSUME Init PROVE RaceInv
  OBVIOUS
<1>1. {i \in Attempts : at[i] \in Uncounted} = {}
  BY DEF Init, Uncounted
<1>2. Number(Uncounted) = 0
  BY <1>1, FS_EmptySet DEF Number
<1>3. ~Nil.exceeded
  BY NotExceeded DEF Nil
<1>4. \A i \in Attempts : at[i] = "idle" /\ result[i] = Nil
  BY DEF Init
<1>5. failedAttempts = 0 /\ executions = 0 /\ canceledResult = Nil
  BY DEF Init
<1>6. ~retriesExceeded
  BY DEF Init
<1>7. "idle" \notin Running /\ "idle" # "counting" /\ "idle" # "counted"
  BY DEF Running
<1>8. failedAttempts + Number(Uncounted) <= executions
  BY <1>2, <1>5
<1> QED BY <1>3, <1>4, <1>5, <1>6, <1>7, <1>8, Zenon DEF RaceInv

\* Only OnFailure makes an ExceededError, when retriesExceeded is set.
LEMMA ExceededInternal ==
  ASSUME TypeInv, RaceInv, NEW i \in Attempts, Internal(i)
  PROVE  result'[i].exceeded => UsedUp
<1>0. /\ result[i] \in AllResults /\ result \in [Attempts -> AllResults]
      /\ result[i].exceeded => UsedUp
  BY Zenon DEF TypeInv, GoroutineType, RaceInv
<1>1. CASE \E err \in FnErrors : fnReturns(i, err)
  BY <1>0, <1>1, NotExceeded DEF fnReturns, goTo
<1>2. CASE result' = [result EXCEPT ![i] = cancelResult]
  <2>1. ~cancelResult.exceeded
    BY NotExceeded, Zenon DEF cancelResult, RaceInv
  <2> QED BY <1>0, <1>2, <2>1
<1>3. CASE \E r : (r.exceeded => result[i].exceeded) /\ result' = [result EXCEPT ![i] = r]
  BY <1>0, <1>3
<1>4. CASE judge(i) \/ RecordResult(i) \/ InitializeRetry(i)
  BY <1>2, <1>3, <1>4, Zenon DEF judge, RecordResult, InitializeRetry, goTo
<1>5. CASE judged(i)
  <2>1. /\ WithDone(result[i], TRUE, TRUE).exceeded = result[i].exceeded
        /\ WithFailure(result[i]).exceeded = result[i].exceeded
    BY <1>0, WithDoneFields, WithFailureFields, Zenon
  <2> QED BY <1>3, <1>5, <2>1, Zenon DEF judged, goTo
<1>6. CASE readFailedAttempts(i) \/ writeFailedAttempts(i) \/ maxRetriesExceeded(i)
  BY <1>3, <1>6, Zenon DEF readFailedAttempts, writeFailedAttempts, maxRetriesExceeded, goTo
<1>7. CASE shouldRetry(i)
  <2> DEFINE retry == ~retriesExceeded /\ config.maxRetries # 0
  <2>1. WithDone(result[i], ~retry, FALSE).exceeded = result[i].exceeded
    BY <1>0, WithDoneFields, Zenon
  <2> QED BY <1>3, <1>7, <2>1, Zenon DEF shouldRetry, goTo
<1>8. CASE OnFailure(i)
  <2>1. CASE retriesExceeded
    BY <2>1, Zenon DEF RaceInv
  <2>2. CASE ~retriesExceeded
    BY <1>3, <1>8, <2>2 DEF OnFailure, goTo
  <2> QED BY <2>1, <2>2
<1> QED BY <1>1, <1>4, <1>5, <1>6, <1>7, <1>8, ZenonT(30) DEF Internal

LEMMA RaceInternal ==
  ASSUME TypeInv, RaceInv, [Next]_vars, NEW i \in Attempts, Internal(i)
  PROVE  RaceInv'
<1>a. config' = config /\ Attempts' = Attempts
  BY ConfigKept
<1>b. /\ at \in [Attempts -> Running \cup Returned \cup {"idle"}] /\ result \in [Attempts -> AllResults]
      /\ own \in [Attempts -> Nat]
      /\ executions \in Nat /\ failedAttempts \in Nat /\ ApplyType /\ GoroutineType
  BY DEF TypeInv, GoroutineType, CounterType
<1>c. Number(Uncounted) \in Nat
  BY <1>b, Numbered, Zenon
<1>d. PICK s, r : Move(i, s, r)
  BY Moves DEF TypeInv
<1>e. /\ at'[i] = s /\ \A j \in Attempts : j # i => at'[j] = at[j]
      /\ \A j \in Attempts : j # i => result'[j] = result[j]
  BY <1>b, <1>d, Zenon DEF Move
<1>f. Number(Uncounted)' = IF s \in Uncounted
                           THEN IF at[i] \in Uncounted THEN Number(Uncounted) ELSE Number(Uncounted) + 1
                           ELSE IF at[i] \in Uncounted THEN Number(Uncounted) - 1 ELSE Number(Uncounted)
  BY <1>a, <1>b, <1>d, Numbering, Zenon DEF Move
<1>g. /\ executions' \in Nat /\ executions' >= executions
      /\ UsedUp => UsedUp'
  <2>1. executions' \in {executions, executions + 1}
    BY ZenonT(30) DEF Internal, fnReturns, judge, judged, readFailedAttempts, writeFailedAttempts, maxRetriesExceeded,
       shouldRetry, OnFailure, RecordResult, InitializeRetry, onlyGoroutine, onlyRetryState, counters
  <2>2. executions' \in Nat /\ executions' >= executions
    BY <1>b, <2>1
  <2>3. config.maxRetries \in Nat /\ executions > config.maxRetries => executions' > config.maxRetries
    BY <1>b, <2>2
  <2> QED BY <1>a, <2>2, <2>3 DEF UsedUp
<1>h. ~canceledResult'.exceeded
  <2>1. canceledResult' \in {canceledResult, Nil}
    BY SharedTypes DEF TypeInv
  <2> QED BY <2>1, NotExceeded, Zenon DEF RaceInv, Nil
<1>i. \A j \in Attempts : result'[j].exceeded => UsedUp'
  BY <1>e, <1>g, ExceededInternal, Zenon DEF RaceInv
<1> DEFINE N == Number(Uncounted)
<1> DEFINE Counts ==
      /\ \A j \in Attempts : at'[j] \in Running \ {"run"} => config.maxRetries # NoRetryPolicy
      /\ failedAttempts' + N' <= executions'
      /\ \A j \in Attempts : at'[j] \in {"counting", "counted"} => own'[j] + N' <= executions'
      /\ retriesExceeded' => UsedUp'
<1>j. /\ \A j \in Attempts : at[j] \in Running \ {"run"} => config.maxRetries # NoRetryPolicy
      /\ failedAttempts + N <= executions
      /\ \A j \in Attempts : at[j] \in {"counting", "counted"} => own[j] + N <= executions
      /\ retriesExceeded => UsedUp
  BY Zenon DEF RaceInv
<1>k. ASSUME Counts PROVE RaceInv'
  BY <1>a, <1>h, <1>i, <1>k, Zenon DEF RaceInv
<1>l. executions \in Nat /\ failedAttempts \in Nat /\ N \in Nat /\ failedAttempts + N <= executions
  BY <1>b, <1>c, <1>j, Zenon
<1> HIDE DEF N
<1>1. CASE \E err \in FnErrors : fnReturns(i, err)
  <2>1. /\ at[i] = "run" /\ s \in {"return", "judge"} /\ (s = "judge" => config.maxRetries # NoRetryPolicy)
        /\ executions' = executions + 1 /\ UNCHANGED <<own, failedAttempts, retriesExceeded>>
    BY <1>1, <1>b, <1>e, Zenon DEF fnReturns, goTo, retryState
  <2>2. N' = N \/ N' = N + 1
    BY <1>f, <2>1, Zenon DEF Uncounted, N
  <2>3. N \in Nat
    BY <1>c DEF N
  <2>4. \A j \in Attempts : at'[j] \in Running \ {"run"} => config.maxRetries # NoRetryPolicy
    BY <1>e, <1>j, <2>1, ZenonT(30) DEF Running
  <2>5. failedAttempts' + N' <= executions'
    <3>1. executions' = executions + 1 /\ failedAttempts' = failedAttempts
      BY <2>1
    <3> QED BY <1>l, <2>2, <3>1
  <2>6. \A j \in Attempts : at'[j] \in {"counting", "counted"} => own'[j] + N' <= executions'
    <3> TAKE j \in Attempts
    <3>1. CASE j = i
      BY <1>e, <2>1, <3>1, Zenon
    <3>2. CASE j # i
      <4>1. own'[j] = own[j] /\ own[j] \in Nat /\ at'[j] = at[j]
        BY <1>b, <1>e, <2>1, <3>2, Zenon
      <4> QED BY <1>b, <1>j, <2>1, <2>2, <2>3, <4>1
    <3> QED BY <3>1, <3>2, Zenon
  <2> QED BY <1>g, <1>j, <1>k, <2>1, <2>4, <2>5, <2>6, ZenonT(30)
<1>2. CASE judge(i) \/ judged(i) \/ shouldRetry(i) \/ OnFailure(i) \/ RecordResult(i) \/ InitializeRetry(i)
  <2>1. /\ UNCHANGED <<own, executions, failedAttempts, retriesExceeded>>
        /\ at[i] \in Running \ {"run"} /\ s \notin {"counting", "counted", "judge"}
        /\ s \in {"judged", "failed"} => at[i] \in Uncounted
    BY <1>2, <1>b, <1>e, Zenon DEF judge, judged, shouldRetry, OnFailure, RecordResult, InitializeRetry, goTo,
       onlyGoroutine, counters, retryState, Running, Uncounted
  <2>2. N' = N \/ N' = N - 1
    BY <1>f, <2>1, Zenon DEF Uncounted, N
  <2>3. N \in Nat
    BY <1>c DEF N
  <2>4. \A j \in Attempts : at'[j] \in Running \ {"run"} => config.maxRetries # NoRetryPolicy
    BY <1>e, <1>j, <2>1, Zenon
  <2>5. failedAttempts' + N' <= executions'
    <3>1. executions' = executions /\ failedAttempts' = failedAttempts
      BY <2>1
    <3> QED BY <1>l, <2>2, <3>1
  <2>6. \A j \in Attempts : at'[j] \in {"counting", "counted"} => own'[j] + N' <= executions'
    <3> TAKE j \in Attempts
    <3>1. CASE j = i
      BY <1>e, <2>1, <3>1, Zenon
    <3>2. CASE j # i
      <4>1. own'[j] = own[j] /\ own[j] \in Nat /\ at'[j] = at[j]
        BY <1>b, <1>e, <2>1, <3>2, Zenon
      <4> QED BY <1>b, <1>j, <2>1, <2>2, <2>3, <4>1
    <3> QED BY <3>1, <3>2
  <2> QED BY <1>g, <1>j, <1>k, <2>1, <2>4, <2>5, <2>6, ZenonT(30)
<1>3. CASE readFailedAttempts(i)
  <2>1. /\ UNCHANGED <<executions, failedAttempts, retriesExceeded>>
        /\ at[i] = "failed" /\ s = "counting" /\ own' = [own EXCEPT ![i] = failedAttempts]
    BY <1>3, <1>b, <1>e, Zenon DEF readFailedAttempts, goTo, onlyRetryState, counters, retryState
  <2>2. N' = N
    BY <1>f, <2>1, SMTT(20) DEF Uncounted, N
  <2> QED BY <1>b, <1>c, <1>e, <1>g, <1>j, <1>k, <2>1, <2>2, ZenonT(30) DEF N, Running
<1>4. CASE writeFailedAttempts(i)
  <2>1. /\ UNCHANGED <<executions, retriesExceeded>> /\ failedAttempts' = own[i] + 1
        /\ at[i] = "counting" /\ s = "counted" /\ own' = [own EXCEPT ![i] = own[i] + 1]
    BY <1>4, <1>b, <1>e, Zenon DEF writeFailedAttempts, goTo, onlyRetryState, counters
  <2>2. N' = N - 1 /\ N \in Nat
    BY <1>c, <1>f, <2>1, Zenon DEF Uncounted, N
  <2>3. own[i] \in Nat /\ own[i] + N <= executions
    BY <1>b, <1>j, <2>1, Zenon
  <2>4. \A j \in Attempts : at'[j] \in Running \ {"run"} => config.maxRetries # NoRetryPolicy
    BY <1>e, <1>j, <2>1, Zenon DEF Running
  <2>5. failedAttempts' + N' <= executions'
    BY <1>b, <2>1, <2>2, <2>3
  <2>6. \A j \in Attempts : at'[j] \in {"counting", "counted"} => own'[j] + N' <= executions'
    <3> TAKE j \in Attempts
    <3>1. CASE j = i
      BY <1>b, <2>1, <2>2, <2>3, <3>1
    <3>2. CASE j # i
      <4>1. own'[j] = own[j] /\ own[j] \in Nat /\ at'[j] = at[j]
        BY <1>b, <1>e, <2>1, <3>2, Zenon
      <4> QED BY <1>b, <1>j, <2>1, <2>2, <4>1
    <3> QED BY <3>1, <3>2
  <2> QED BY <1>g, <1>j, <1>k, <2>1, <2>4, <2>5, <2>6, ZenonT(30)
<1>5. CASE maxRetriesExceeded(i)
  <2>1. /\ UNCHANGED <<executions, failedAttempts>> /\ own' = [own EXCEPT ![i] = 0]
        /\ at[i] = "counted" /\ s = "compared"
    BY <1>5, <1>b, <1>e, Zenon DEF maxRetriesExceeded, goTo, onlyRetryState, counters
  <2>2. N' = N
    BY <1>f, <2>1, Zenon DEF Uncounted, N
  <2>3. config.maxRetries \in Nat \cup {Unlimited}
    BY <1>b, <1>j, <2>1, HedgeAssumption, Zenon DEF ApplyType, Running
  <2>4. own[i] <= executions /\ failedAttempts <= executions
    BY <1>b, <1>c, <1>j, <2>1 DEF N
  <2>5. retriesExceeded' => UsedUp'
    <3> SUFFICES ASSUME retriesExceeded' PROVE UsedUp'
      OBVIOUS
    <3>1. PICK failed \in {own[i], failedAttempts} : config.maxRetries # Unlimited /\ failed > config.maxRetries
      BY <1>5, Zenon DEF maxRetriesExceeded
    <3> QED BY <1>a, <1>b, <2>1, <2>3, <2>4, <3>1 DEF UsedUp
  <2> QED BY <1>b, <1>c, <1>e, <1>g, <1>j, <1>k, <2>1, <2>2, <2>5, ZenonT(30) DEF N, Running
<1> QED BY <1>1, <1>2, <1>3, <1>4, <1>5 DEF Internal

LEMMA RaceNext == TypeInv /\ LoserInv /\ RaceInv /\ [Next]_vars => RaceInv'
<1> SUFFICES ASSUME TypeInv, LoserInv, RaceInv, [Next]_vars PROVE RaceInv'
  OBVIOUS
<1>a. config' = config /\ Attempts' = Attempts
  BY ConfigKept
<1>b. /\ at \in [Attempts -> Running \cup Returned \cup {"idle"}]
      /\ result \in [Attempts -> AllResults]
      /\ ApplyType /\ GoroutineType
  BY DEF TypeInv, GoroutineType
<1> USE DEF goroutines, sending, contexts, counters, retryState, apply
<1>1. CASE startAttempt
  <2>1. started \in Attempts /\ at[started] = "idle"
    BY <1>1, Fresh
  <2>2. Number(Uncounted)' = Number(Uncounted)
    <3>1. at[started] \notin Uncounted /\ "run" \notin Uncounted
      BY <2>1 DEF Uncounted
    <3> QED BY <1>a, <1>b, <1>1, <2>1, <3>1, Numbering, Zenon DEF startAttempt
  <2>3. /\ UNCHANGED <<executions, failedAttempts, retriesExceeded, own, result, canceledResult>>
        /\ \A i \in Attempts : at'[i] = IF i = started THEN "run" ELSE at[i]
    BY <1>b, <1>1, Zenon DEF startAttempt
  <2> QED BY <1>a, <2>2, <2>3, Zenon DEF RaceInv, UsedUp
<1>2. CASE addAttempt \/ delayElapses \/ receiveResult \/ checkParent \/ cancelOther \/ returnResult \/ Canceling \/ UNCHANGED vars
  <2>1. UNCHANGED <<at, result, own, executions, failedAttempts, retriesExceeded>>
    BY <1>2, ZenonT(30) DEF addAttempt, delayElapses, receiveResult, checkParent, cancelOther, returnResult, Canceling,
       CancelMarks, CancelPropagates, contextDone, timerCancels, program, vars
  <2>2. canceledResult' = canceledResult \/ \E err : canceledResult' = FailureResult(err)
    BY <1>2, ZenonT(30) DEF addAttempt, delayElapses, receiveResult, checkParent, cancelOther, returnResult, Canceling,
       CancelMarks, CancelPropagates, contextDone, timerCancels, vars, Nil
  <2>3. ~canceledResult'.exceeded
    BY <2>2, NotExceeded, Zenon DEF RaceInv
  <2>4. Number(Uncounted)' = Number(Uncounted)
    BY <1>a, <2>1, NumberKept
  <2> QED BY <1>a, <2>1, <2>3, <2>4, ZenonT(30) DEF RaceInv, UsedUp
<1>3. CASE \E i \in Attempts : Internal(i)
  BY <1>3, RaceInternal, SMTT(20)
<1>4. CASE \E i \in Attempts : Handing(i)
  <2>1. PICK i \in Attempts : Handing(i)
    BY <1>4
  <2>2. PICK s \in Returned : at' = [at EXCEPT ![i] = s] /\ at[i] \in Returned
    BY <2>1, Zenon DEF Handing, countResult, claim, send, goTo, Returned
  <2>3. UNCHANGED <<executions, failedAttempts, retriesExceeded, own, result, canceledResult>>
    BY <1>b, <2>1, Zenon DEF Handing, countResult, claim, send, goTo
  <2>4. Number(Uncounted)' = Number(Uncounted)
    <3>1. at[i] \notin Uncounted /\ s \notin Uncounted
      BY <2>2 DEF Uncounted, Returned
    <3> QED BY <1>a, <1>b, <2>2, <3>1, Numbering, Zenon
  <2>5. /\ \A j \in Attempts : j # i => at'[j] = at[j]
        /\ at'[i] \notin Running /\ at'[i] \notin {"counting", "counted"}
    BY <1>b, <2>2 DEF Returned, Running
  <2> QED BY <1>a, <2>3, <2>4, <2>5, ZenonT(30) DEF RaceInv, UsedUp
<1> QED BY Cases, <1>1, <1>2, <1>3, <1>4

(***************************************************************************)
(* However the attempts race on the fields of the retry executor, an       *)
(* ExceededError means that the function has run more than maxRetries      *)
(* times.                                                                  *)
(***************************************************************************)
THEOREM NeverEarly == Spec => []ExceededNeverEarly
<1>1. RaceInv => ExceededNeverEarly
  BY Zenon DEF RaceInv, UsedUp, ExceededNeverEarly
<1> QED BY <1>1, Losers, RaceInitial, RaceNext, PTL DEF Spec
=============================================================================
