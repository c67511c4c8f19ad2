------------------------------ MODULE Bulkhead ------------------------------
(***************************************************************************)
(* A bulkhead and the executions that go through it (bulkhead/bulkhead.go, *)
(* bulkheadexecutor.go).  The semaphore is a Go channel with a buffer of   *)
(* MaxConcurrency: acquiring sends to it, releasing receives from it.  The *)
(* channel queues the senders it blocks and serves them in order.  A       *)
(* select with several ready cases takes any of them.                      *)
(***************************************************************************)
EXTENDS Integers, Sequences, FiniteSets

CONSTANTS Users,           \* concurrent users of the bulkhead
          MaxConcurrency,
          MaxPanics        \* bound: executions that panic in one behaviour

ASSUME BulkheadAssumption ==
  /\ IsFiniteSet(Users)
  /\ MaxConcurrency \in Nat
  /\ MaxPanics \in Nat

VARIABLES semaphore,  \* number of elements in the channel's buffer
          queue,      \* the channel's blocked senders
          stage,      \* idle, second (between the two selects), timed or
                      \* blocked (in queue), holding
          ctxDone,    \* executions whose context is done
          lost        \* permits of executions that panicked

bulkheadVars == <<semaphore, queue, stage, ctxDone, lost>>

BulkheadInit ==
  /\ semaphore = 0 /\ queue = <<>>
  /\ stage = [e \in Users |-> "idle"]
  /\ ctxDone = {} /\ lost = 0

ready == semaphore < MaxConcurrency

\* A send to the channel that does not block.
sendNow(e) ==
  /\ ready
  /\ semaphore' = semaphore + 1
  /\ stage' = [stage EXCEPT ![e] = "holding"]
  /\ UNCHANGED <<queue, ctxDone, lost>>

\* A queue without one of its senders.
without(q, e) ==
  LET place == CHOOSE i \in DOMAIN q : q[i] = e
  IN IF \E i \in DOMAIN q : q[i] = e
     THEN [i \in 1..(Len(q) - 1) |-> IF i < place THEN q[i] ELSE q[i + 1]]
     ELSE q

\* The caller gets ErrFull, false or the context's error and is gone.
giveUp(e) ==
  /\ stage' = [stage EXCEPT ![e] = "idle"]
  /\ ctxDone' = ctxDone \ {e}
  /\ queue' = without(queue, e)
  /\ UNCHANGED <<semaphore, lost>>

block(e, how) ==
  /\ ~ready
  /\ stage' = [stage EXCEPT ![e] = how]
  /\ queue' = Append(queue, e)
  /\ UNCHANGED <<semaphore, ctxDone, lost>>

\* TryAcquirePermit takes no context.
TryAcquirePermit(e) ==
  /\ stage[e] = "idle" /\ e \notin ctxDone
  /\ sendNow(e) \/ (~ready /\ giveUp(e))

AcquirePermit(e) ==
  /\ stage[e] = "idle"
  /\ \/ e \in ctxDone /\ giveUp(e)
     \/ sendNow(e)
     \/ e \notin ctxDone /\ block(e, "blocked")

\* The first select of AcquirePermitWithMaxWait; it is also PreExecute of the
\* executor, whose onFull listener follows an ErrFull.
AcquirePermitWithMaxWait(e, maxWaitTime) ==
  /\ stage[e] = "idle"
  /\ \/ e \in ctxDone /\ giveUp(e)
     \/ sendNow(e)
     \/ /\ e \notin ctxDone /\ ~ready
        /\ \/ maxWaitTime = 0 /\ giveUp(e)
           \/ /\ maxWaitTime # 0
              /\ stage' = [stage EXCEPT ![e] = "second"]
              /\ UNCHANGED <<semaphore, queue, ctxDone, lost>>

\* Its second select, with the timer.
secondAttempt(e) ==
  /\ stage[e] = "second"
  /\ \/ e \in ctxDone /\ giveUp(e)
     \/ sendNow(e)
     \/ e \notin ctxDone /\ block(e, "timed")

Waiting(e) == stage[e] \in {"timed", "blocked"}

\* The timer elapses for an execution in the second select.
timeElapsed(e) == stage[e] \in {"second", "timed"} /\ giveUp(e)

\* ctx.Done is ready for an execution that the channel blocks.
interrupted(e) == Waiting(e) /\ e \in ctxDone /\ giveUp(e)

ContextDone(e) ==
  /\ e \notin ctxDone
  /\ ctxDone' = ctxDone \cup {e}
  /\ UNCHANGED <<semaphore, queue, stage, lost>>

\* Mutated ReleasePermit: a waiting sender is let in and the buffer shrinks too.
ReleasePermitTwice(e) ==
  /\ stage[e] = "holding"
  /\ ctxDone' = ctxDone \ {e}
  /\ \/ /\ queue = <<>>
        /\ semaphore' = semaphore - 1
        /\ stage' = [stage EXCEPT ![e] = "idle"]
        /\ UNCHANGED queue
     \/ /\ queue # <<>>
        /\ semaphore' = semaphore - 1
        /\ stage' = [stage EXCEPT ![e] = "idle", ![Head(queue)] = "holding"]
        /\ queue' = Tail(queue)
  /\ UNCHANGED lost

\* Mutated ReleasePermit: no blocked sender is served.
ReleasePermitWakesNobody(e) ==
  /\ stage[e] = "holding"
  /\ ctxDone' = ctxDone \ {e}
  /\ semaphore' = semaphore - 1
  /\ stage' = [stage EXCEPT ![e] = "idle"]
  /\ UNCHANGED <<queue, lost>>

(***************************************************************************)
(* ReleasePermit, called by the executor's PostExecute or by the caller    *)
(* that acquired: receiving from the full channel lets the first blocked   *)
(* sender in.                                                              *)
(***************************************************************************)
ReleasePermit(e) ==
  /\ stage[e] = "holding"
  /\ ctxDone' = ctxDone \ {e}
  /\ \/ /\ queue = <<>>
        /\ semaphore' = semaphore - 1
        /\ stage' = [stage EXCEPT ![e] = "idle"]
        /\ UNCHANGED queue
     \/ /\ queue # <<>>
        /\ stage' = [stage EXCEPT ![e] = "idle", ![Head(queue)] = "holding"]
        /\ queue' = Tail(queue)
        /\ UNCHANGED semaphore
  /\ UNCHANGED lost

\* A panic unwinds past PostExecute: the permit is never released.
Panic(e) ==
  /\ stage[e] = "holding" /\ lost < MaxPanics
  /\ lost' = lost + 1
  /\ stage' = [stage EXCEPT ![e] = "idle"]
  /\ ctxDone' = ctxDone \ {e}
  /\ UNCHANGED <<semaphore, queue>>

BulkheadNext ==
  \E e \in Users :
    \/ TryAcquirePermit(e) \/ AcquirePermit(e) \/ ReleasePermit(e) \/ Panic(e)
    \/ \E maxWaitTime \in {0, 1} : AcquirePermitWithMaxWait(e, maxWaitTime)
    \/ secondAttempt(e) \/ timeElapsed(e) \/ interrupted(e) \/ ContextDone(e)

BulkheadSpec == BulkheadInit /\ [][BulkheadNext]_bulkheadVars

\* Executions end and timers elapse; nobody has to come or to be canceled.
BulkheadFairSpec ==
  /\ BulkheadSpec
  /\ \A e \in Users :
       /\ WF_bulkheadVars(ReleasePermit(e))
       /\ WF_bulkheadVars(secondAttempt(e)) /\ WF_bulkheadVars(timeElapsed(e))
-----------------------------------------------------------------------------
holders == {e \in Users : stage[e] = "holding"}

BulkheadTypeOK ==
  /\ semaphore \in 0..MaxConcurrency
  /\ queue \in Seq(Users)
  /\ stage \in [Users -> {"idle", "second", "timed", "blocked", "holding"}]
  /\ ctxDone \subseteq Users
  /\ lost \in Nat

(***************************************************************************)
(* No more than MaxConcurrency executions are inside the bulkhead, through *)
(* any mix of TryAcquirePermit, AcquirePermit and AcquirePermitWithMaxWait *)
(* and whatever timers and contexts end.                                   *)
(***************************************************************************)
WithinConcurrency == Cardinality(holders) <= MaxConcurrency

(***************************************************************************)
(* Every element of the channel is the permit of one execution inside the  *)
(* bulkhead, or of one that panicked: a caller that gives up, by timer or  *)
(* context, takes no permit along, and none is released twice.             *)
(***************************************************************************)
PermitsAccounted == semaphore = Cardinality(holders) + lost

(***************************************************************************)
(* No wake-up is lost: the executions that wait are exactly those queued   *)
(* at the channel, each once, and they wait only while the bulkhead is     *)
(* full, however timers and contexts take waiting executions out.          *)
(***************************************************************************)
NoLostWakeUp ==
  /\ \A i \in DOMAIN queue : Waiting(queue[i])
  /\ \A i, j \in DOMAIN queue : queue[i] = queue[j] => i = j
  /\ \A e \in Users : Waiting(e) => \E i \in DOMAIN queue : queue[i] = e
  /\ queue # <<>> => semaphore = MaxConcurrency

Permits == INSTANCE Semaphore

(***************************************************************************)
(* The bulkhead implements a counting semaphore: each step of the channel  *)
(* protocol acquires, releases, hands over or loses one permit, or none.   *)
(***************************************************************************)
ImplementsSemaphore == Permits!SSpec

(***************************************************************************)
(* No starvation: an execution that waits is admitted or gives up, if the  *)
(* executions inside the bulkhead end and panics have not taken every      *)
(* permit.                                                                 *)
(***************************************************************************)
WaitEnds == \A e \in Users : Waiting(e) ~> (~Waiting(e) \/ lost = MaxConcurrency)
=============================================================================
