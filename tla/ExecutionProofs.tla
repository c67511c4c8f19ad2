-------------------------- MODULE ExecutionProofs --------------------------
(***************************************************************************)
(* Proofs about Execution, for every set of compositions: cancellation     *)
(* goes down the tree of contexts and nowhere else, and ends the retries   *)
(* of the whole execution; an execution's error has a cause; one side wins  *)
(* a Timeout.                                                              *)
(***************************************************************************)
EXTENDS Execution, TLAPS

\* Where the goroutine may be: the loops and handlers are inside a policy.
Control ==
  /\ policies \in Stacks
  /\ level \in 0..(Len(policies) + 1)
  /\ phase \in {"record", "delay", "retry", "fallback"} => level \in DOMAIN policies

CtxType == [under : SUBSET Nat, done : {"no", "Cancel", "context", "timeout"},
            timer : {"none", "armed", "stopped", "won", "fired"}]

\* The contexts and the executions that have them.
ContextType ==
  /\ ctxs \in Seq(CtxType) /\ 1 \in DOMAIN ctxs
  /\ exec \in [1..(Len(policies) + 1) -> DOMAIN ctxs]

(***************************************************************************)
(* Every context is derived from that of the whole execution, which has no *)
(* timer, and is done when that one is.                                    *)
(***************************************************************************)
Tree ==
  /\ ctxs[1].timer = "none" /\ ctxs[1].under = {1}
  /\ \A c \in DOMAIN ctxs : 1 \in ctxs[c].under /\ ctxs[c].under \subseteq DOMAIN ctxs
  /\ canceled(1) => \A c \in DOMAIN ctxs : canceled(c)

IInv == Control /\ ContextType /\ Tree /\ CanceledFromAbove

LEMMA Policies ==
  ASSUME Control
  PROVE  policies \in Seq(PolicyType) /\ DOMAIN policies = 1..Len(policies) /\ Len(policies) \in Nat
<1>1. policies \in Seq(PolicyType)
  BY ExecutionAssumption DEF Control
<1> QED BY <1>1

LEMMA Initial == Init => IInv
<1> SUFFICES ASSUME Init PROVE IInv
  OBVIOUS
<1>1. policies \in Seq(PolicyType) /\ Len(policies) \in Nat
  BY ExecutionAssumption DEF Init
<1>2. Control
  BY <1>1 DEF Init, Control
<1> DEFINE root == [under |-> {1}, done |-> "no", timer |-> "none"]
<1>3. root \in CtxType
  BY DEF CtxType
<1>4. ctxs = <<root>> /\ DOMAIN ctxs = {1} /\ ctxs[1] = root /\ ctxs \in Seq(CtxType)
  BY <1>3 DEF Init
<1>5. ContextType
  BY <1>1, <1>4 DEF Init, ContextType
<1>6. Tree /\ CanceledFromAbove
  BY <1>4 DEF Tree, CanceledFromAbove, canceled
<1> QED BY <1>2, <1>5, <1>6 DEF IInv

(***************************************************************************)
(* A step that leaves the contexts alone keeps what is said of them.       *)
(***************************************************************************)
LEMMA SameContexts ==
  ASSUME IInv, UNCHANGED <<policies, ctxs>>, Control',
         exec' \in [1..(Len(policies) + 1) -> DOMAIN ctxs]
  PROVE  IInv'
<1>1. ContextType'
  BY DEF IInv, ContextType
<1>2. Tree' /\ CanceledFromAbove'
  BY DEF IInv, Tree, CanceledFromAbove, canceled
<1> QED BY <1>1, <1>2 DEF IInv

\* What callInner, return and goOn do to the position of the goroutine.
LEMMA CallsInner ==
  ASSUME IInv, NEW c \in DOMAIN ctxs, level \in DOMAIN policies, phase = "call", callInner(c),
         policies' = policies
  PROVE  Control' /\ exec' \in [1..(Len(policies) + 1) -> DOMAIN ctxs]
<1>1. DOMAIN policies = 1..Len(policies) /\ Len(policies) \in Nat
  BY Policies DEF IInv
<1>2. Control'
  BY <1>1 DEF IInv, Control, callInner
<1>3. exec' \in [1..(Len(policies) + 1) -> DOMAIN ctxs]
  BY <1>1 DEF IInv, ContextType, callInner
<1> QED BY <1>2, <1>3

LEMMA Returns ==
  ASSUME IInv, NEW r, level \in 1..(Len(policies) + 1), return(r), policies' = policies
  PROVE  Control' /\ exec' = exec
<1>1. Len(policies) \in Nat
  BY Policies DEF IInv
<1> QED BY <1>1 DEF IInv, Control, return

LEMMA GoesOn ==
  ASSUME IInv, NEW next, NEW r, goOn(next, r), policies' = policies,
         next \in {"record", "delay", "retry", "fallback"} => level \in DOMAIN policies
  PROVE  Control' /\ exec' = exec
BY DEF IInv, Control, goOn

(***************************************************************************)
(* The steps of the goroutine that leave the contexts alone.               *)
(***************************************************************************)
LEMMA GoroutineSteps ==
  ASSUME IInv,
         \/ \E err \in FnErrors : fnReturns(err)
         \/ fnPanics \/ record \/ callThrough \/ callBreaker \/ breakerReturns
         \/ callCache \/ cacheReturns \/ retryReturns \/ RecordResult \/ InitializeRetry \/ beginRetry
         \/ fallbackReturns \/ \E err \in {"none", "fail"} : fallbackFnReturns(err)
  PROVE  IInv'
<1>1. /\ DOMAIN policies = 1..Len(policies) /\ Len(policies) \in Nat
      /\ exec \in [1..(Len(policies) + 1) -> DOMAIN ctxs]
      /\ level \in DOMAIN policies => level \in 1..(Len(policies) + 1) /\ exec[level] \in DOMAIN ctxs
      /\ phase \in {"record", "delay", "retry", "fallback"} => level \in DOMAIN policies
  BY Policies DEF IInv, Control, ContextType
<1>2. Control' /\ exec' = exec /\ UNCHANGED <<policies, ctxs>> => IInv'
  BY <1>1, SameContexts
<1>3. Control' /\ exec' \in [1..(Len(policies) + 1) -> DOMAIN ctxs] /\ UNCHANGED <<policies, ctxs>> => IInv'
  BY SameContexts
<1>4. ASSUME NEW r, return(r), level \in 1..(Len(policies) + 1), UNCHANGED <<policies, ctxs>>
      PROVE  IInv'
  BY <1>2, <1>4, Returns
<1>5. ASSUME NEW next, NEW r, goOn(next, r), UNCHANGED <<policies, ctxs>>,
             next \in {"record", "delay", "retry", "fallback"} => level \in DOMAIN policies
      PROVE  IInv'
  BY <1>2, <1>5, GoesOn
<1>6. ASSUME callInner(exec[level]), phase = "call", level \in DOMAIN policies, UNCHANGED <<policies, ctxs>>
      PROVE  IInv'
  BY <1>1, <1>3, <1>6, CallsInner
<1>7. ASSUME NEW err \in FnErrors, fnReturns(err) PROVE IInv'
  BY <1>1, <1>4, <1>7 DEF fnReturns
<1>8. CASE fnPanics
  BY <1>5, <1>8 DEF fnPanics, shared
<1>9. CASE record
  BY <1>5, <1>9 DEF record, shared
<1>10. CASE callThrough
  BY <1>6, <1>10 DEF callThrough, At, shared
<1>11. CASE callBreaker
  BY <1>1, <1>4, <1>6, <1>11 DEF callBreaker, At, shared
<1>12. CASE breakerReturns
  BY <1>1, <1>4, <1>12 DEF breakerReturns, At, shared
<1>13. CASE callCache
  BY <1>1, <1>4, <1>6, <1>13, Zenon DEF callCache, At, shared
<1>14. CASE cacheReturns
  BY <1>1, <1>4, <1>14, Zenon DEF cacheReturns, At, shared
<1>15. CASE retryReturns
  <2>1. level \in DOMAIN policies /\ UNCHANGED <<policies, ctxs>>
    BY <1>15 DEF retryReturns, At, shared
  <2>2. \/ \E r : return(r)
        \/ \E r : goOn("record", r)
    BY <1>15, Zenon DEF retryReturns, OnFailure
  <2> QED BY <1>1, <1>4, <1>5, <2>1, <2>2
<1>16. CASE RecordResult
  BY <1>1, <1>4, <1>5, <1>16 DEF RecordResult, shared
<1>17. CASE InitializeRetry
  BY <1>1, <1>4, <1>5, <1>17 DEF InitializeRetry, shared
<1>20. CASE beginRetry
  <2>1. /\ level \in DOMAIN policies /\ level' = level + 1 /\ phase' = "call"
        /\ UNCHANGED <<policies, exec, ctxs>>
    BY <1>1, <1>20 DEF beginRetry
  <2>2. Control'
    BY <1>1, <2>1 DEF IInv, Control
  <2> QED BY <1>2, <2>1, <2>2
<1>18. CASE fallbackReturns
  BY <1>1, <1>4, <1>5, <1>18 DEF fallbackReturns, At, shared
<1>19. ASSUME NEW err \in {"none", "fail"}, fallbackFnReturns(err) PROVE IInv'
  BY <1>1, <1>4, <1>19 DEF fallbackFnReturns, shared
<1> QED BY <1>7, <1>8, <1>9, <1>10, <1>11, <1>12, <1>13, <1>14, <1>15, <1>16, <1>17, <1>18, <1>19,
           <1>20

(***************************************************************************)
(* A Timeout derives a context from that of its own execution, with which  *)
(* it is done.                                                             *)
(***************************************************************************)
LEMMA NewContextFacts ==
  ASSUME IInv, callTimeout
  PROVE  /\ phase = "call" /\ level \in DOMAIN policies /\ policies' = policies
         /\ callInner(Len(ctxs) + 1)
         /\ Len(ctxs) \in Nat /\ DOMAIN ctxs = 1..Len(ctxs) /\ 1 \in 1..Len(ctxs)
         /\ exec[level] \in 1..Len(ctxs)
         /\ 1 \in ctxs[exec[level]].under /\ ctxs[exec[level]].under \subseteq 1..Len(ctxs)
         /\ ctxs' \in Seq(CtxType) /\ DOMAIN ctxs' = 1..(Len(ctxs) + 1)
         /\ ctxs'[Len(ctxs) + 1] = [under |-> ctxs[exec[level]].under \cup {Len(ctxs) + 1},
                                    done |-> ctxs[exec[level]].done, timer |-> "armed"]
         /\ \A c \in 1..Len(ctxs) : ctxs'[c] = ctxs[c]
<1> DEFINE n == Len(ctxs)
           parent == ctxs[exec[level]]
           child == [under |-> parent.under \cup {n + 1}, done |-> parent.done, timer |-> "armed"]
<1>1. /\ phase = "call" /\ level \in DOMAIN policies /\ policies' = policies
      /\ ctxs' = Append(ctxs, child) /\ callInner(n + 1)
  BY DEF callTimeout, At
<1>2. DOMAIN policies = 1..Len(policies) /\ Len(policies) \in Nat
  BY Policies DEF IInv
<1>3. ctxs \in Seq(CtxType) /\ n \in Nat /\ DOMAIN ctxs = 1..n /\ 1 \in 1..n /\ exec[level] \in 1..n
  BY <1>1, <1>2 DEF IInv, ContextType
<1>4. parent \in CtxType /\ 1 \in parent.under /\ parent.under \subseteq 1..n
  BY <1>3 DEF IInv, Tree
<1>5. child \in CtxType
  BY <1>3, <1>4 DEF CtxType
<1> HIDE DEF child
<1>6. /\ ctxs' \in Seq(CtxType) /\ DOMAIN ctxs' = 1..(n + 1)
      /\ ctxs'[n + 1] = child /\ \A c \in 1..n : ctxs'[c] = ctxs[c]
  BY <1>1, <1>3, <1>5
<1> QED BY <1>1, <1>3, <1>4, <1>6 DEF child

LEMMA NewContext == ASSUME IInv, callTimeout PROVE IInv'
<1> DEFINE n == Len(ctxs)
           parent == ctxs[exec[level]]
           child == [under |-> parent.under \cup {n + 1}, done |-> parent.done, timer |-> "armed"]
<1>1. phase = "call" /\ level \in DOMAIN policies /\ policies' = policies /\ callInner(n + 1)
  BY NewContextFacts
<1>2. DOMAIN policies = 1..Len(policies) /\ Len(policies) \in Nat
  BY Policies DEF IInv
<1>3. n \in Nat /\ DOMAIN ctxs = 1..n /\ 1 \in 1..n /\ exec[level] \in 1..n
  BY NewContextFacts
<1>4. 1 \in parent.under /\ parent.under \subseteq 1..n
  BY NewContextFacts
<1>6. /\ ctxs' \in Seq(CtxType) /\ DOMAIN ctxs' = 1..(n + 1)
      /\ ctxs'[n + 1] = child /\ \A c \in 1..n : ctxs'[c] = ctxs[c]
  BY NewContextFacts
<1>7. Control'
  BY <1>1, <1>2 DEF IInv, Control, callInner
<1>8. ContextType'
  <2>1. exec' = [exec EXCEPT ![level + 1] = n + 1] /\ exec \in [1..(Len(policies) + 1) -> 1..n]
    BY <1>1, <1>3 DEF IInv, ContextType, callInner
  <2>2. n + 1 \in 1..(n + 1) /\ 1..n \subseteq 1..(n + 1)
    BY <1>3
  <2> HIDE DEF n
  <2>3. exec' \in [1..(Len(policies) + 1) -> 1..(n + 1)]
    BY <2>1, <2>2, Zenon
  <2>4. 1 \in 1..(n + 1)
    BY <1>3, <2>2
  <2> QED BY <1>1, <1>6, <2>3, <2>4 DEF ContextType
<1>9. Tree'
  <2>1. ctxs'[1].timer = "none" /\ ctxs'[1].under = {1}
    BY <1>3, <1>6 DEF IInv, Tree
  <2>2. \A c \in 1..(n + 1) : 1 \in ctxs'[c].under /\ ctxs'[c].under \subseteq 1..(n + 1)
    <3> TAKE c \in 1..(n + 1)
    <3>1. CASE c = n + 1
      BY <1>3, <1>4, <1>6, <3>1
    <3>2. CASE c # n + 1
      <4>1. c \in 1..n /\ ctxs'[c] = ctxs[c]
        BY <1>3, <1>6, <3>2
      <4>2. 1 \in ctxs[c].under /\ ctxs[c].under \subseteq 1..n
        BY <1>3, <4>1 DEF IInv, Tree
      <4> QED BY <1>3, <4>1, <4>2
    <3> QED BY <3>1, <3>2
  <2>3. canceled(1)' => \A c \in 1..(n + 1) : canceled(c)'
    <3> SUFFICES ASSUME canceled(1)', NEW c \in 1..(n + 1) PROVE canceled(c)'
      OBVIOUS
    <3>1. \A d \in 1..n : ctxs[d].done # "no"
      BY <1>3, <1>6 DEF IInv, Tree, canceled
    <3>2. CASE c = n + 1
      BY <1>3, <1>6, <3>1, <3>2 DEF canceled
    <3>3. CASE c # n + 1
      <4>1. c \in 1..n
        BY <1>3, <3>3
      <4> QED BY <1>6, <3>1, <4>1 DEF canceled
    <3> QED BY <3>2, <3>3
  <2> QED BY <1>6, <2>1, <2>2, <2>3 DEF Tree
<1>10. CanceledFromAbove'
  <2> SUFFICES ASSUME NEW c \in 1..(n + 1), ctxs'[c].done = "timeout"
               PROVE  \E d \in ctxs'[c].under : ctxs'[d].timer = "fired"
    BY <1>6 DEF CanceledFromAbove
  <2>1. ASSUME NEW e \in 1..n, ctxs[e].done = "timeout"
        PROVE  \E d \in ctxs[e].under : ctxs'[d].timer = "fired"
    <3>1. PICK d \in ctxs[e].under : ctxs[d].timer = "fired"
      BY <1>3, <2>1 DEF IInv, CanceledFromAbove
    <3>2. d \in 1..n
      BY <1>3, <2>1 DEF IInv, Tree
    <3> QED BY <1>6, <3>1, <3>2
  <2>2. CASE c = n + 1
    BY <1>3, <1>6, <2>1, <2>2
  <2>3. CASE c # n + 1
    <3>1. c \in 1..n
      BY <1>3, <2>3
    <3> QED BY <1>6, <2>1, <3>1
  <2> QED BY <2>2, <2>3
<1> QED BY <1>7, <1>8, <1>9, <1>10 DEF IInv

(***************************************************************************)
(* The cell of a Timeout is decided, by the timer or by the function.      *)
(***************************************************************************)
LEMMA TimerFacts ==
  ASSUME IInv, NEW c \in DOMAIN ctxs, NEW how \in {"stopped", "won"},
         ctxs' = [ctxs EXCEPT ![c].timer = how]
  PROVE  /\ ctxs' \in Seq(CtxType) /\ DOMAIN ctxs' = DOMAIN ctxs
         /\ \A d \in DOMAIN ctxs : /\ ctxs'[d].under = ctxs[d].under /\ ctxs'[d].done = ctxs[d].done
                                   /\ ctxs'[d].timer = IF d = c THEN how ELSE ctxs[d].timer
<1>1. ctxs \in Seq(CtxType) /\ \A d \in DOMAIN ctxs : ctxs[d] \in CtxType
  BY DEF IInv, ContextType
<1> DEFINE e == [ctxs[c] EXCEPT !.timer = how]
<1>2. /\ ctxs' \in Seq(CtxType) /\ DOMAIN ctxs' = DOMAIN ctxs
      /\ \A d \in DOMAIN ctxs : ctxs'[d] = IF d = c THEN e ELSE ctxs[d]
  <2>1. e \in CtxType
    BY <1>1, Zenon DEF CtxType
  <2>2. ctxs' = [ctxs EXCEPT ![c] = e]
    OBVIOUS
  <2> HIDE DEF e
  <2> QED BY <1>1, <2>1, <2>2
<1>3. \A d \in DOMAIN ctxs : /\ ctxs'[d].under = ctxs[d].under /\ ctxs'[d].done = ctxs[d].done
                             /\ ctxs'[d].timer = IF d = c THEN how ELSE ctxs[d].timer
  BY <1>1, <1>2 DEF CtxType
<1> QED BY <1>2, <1>3

LEMMA TimerMoves ==
  ASSUME IInv, NEW c \in DOMAIN ctxs, NEW how \in {"stopped", "won"}, ctxs[c].timer = "armed",
         ctxs' = [ctxs EXCEPT ![c].timer = how], Control', UNCHANGED <<policies, exec>>
  PROVE  IInv'
<1>2. ctxs' \in Seq(CtxType) /\ DOMAIN ctxs' = DOMAIN ctxs
  BY TimerFacts, Zenon
<1>3. \A d \in DOMAIN ctxs : /\ ctxs'[d].under = ctxs[d].under /\ ctxs'[d].done = ctxs[d].done
                             /\ d # c => ctxs'[d].timer = ctxs[d].timer
  BY TimerFacts
<1>4. ContextType'
  BY <1>2 DEF IInv, ContextType
<1>5. Tree'
  BY <1>2, <1>3 DEF IInv, Tree, ContextType, canceled
<1>6. CanceledFromAbove'
  <2> SUFFICES ASSUME NEW e \in DOMAIN ctxs, ctxs[e].done = "timeout"
               PROVE  \E d \in ctxs[e].under : ctxs'[d].timer = "fired"
    BY <1>2, <1>3 DEF CanceledFromAbove
  <2>1. PICK d \in ctxs[e].under : ctxs[d].timer = "fired"
    BY DEF IInv, CanceledFromAbove
  <2>2. d \in DOMAIN ctxs
    BY DEF IInv, Tree
  <2> QED BY <1>3, <2>1, <2>2
<1> QED BY <1>4, <1>5, <1>6 DEF IInv

(***************************************************************************)
(* Canceling a context, by its timer or from outside: it and all the       *)
(* contexts below it are done, if they were not.                           *)
(***************************************************************************)
Cancelation(c, cause) ==
  \/ cause \in {"Cancel", "context"} /\ c = 1 /\ ctxs' = Canceled(c, cause)
  \/ /\ cause = "timeout" /\ ctxs[c].timer = "won"
     /\ ctxs' = [Canceled(c, cause) EXCEPT ![c].timer = "fired"]

LEMMA CancelFacts ==
  ASSUME IInv, NEW c \in DOMAIN ctxs, NEW cause \in {"Cancel", "context", "timeout"}, Cancelation(c, cause)
  PROVE  /\ Len(ctxs) \in Nat /\ DOMAIN ctxs = 1..Len(ctxs)
         /\ ctxs' \in Seq(CtxType) /\ DOMAIN ctxs' = 1..Len(ctxs)
         /\ \A d \in 1..Len(ctxs) :
              /\ ctxs'[d].under = ctxs[d].under
              /\ ctxs'[d].done = IF c \in ctxs[d].under /\ ctxs[d].done = "no" THEN cause ELSE ctxs[d].done
              /\ ctxs'[d].timer = IF cause = "timeout" /\ d = c THEN "fired" ELSE ctxs[d].timer
         /\ cause = "timeout" => c # 1
<1>1. ctxs \in Seq(CtxType) /\ \A d \in DOMAIN ctxs : ctxs[d] \in CtxType
  BY DEF IInv, ContextType
<1> DEFINE n == Len(ctxs)
           K == Canceled(c, cause)
<1>2. n \in Nat /\ DOMAIN ctxs = 1..n
  BY <1>1
<1>3. K \in [1..n -> CtxType]
  BY <1>1, <1>2 DEF Canceled, CtxType
<1>4. \A d \in 1..n : /\ K[d].under = ctxs[d].under /\ K[d].timer = ctxs[d].timer
                      /\ K[d].done = IF c \in ctxs[d].under /\ ctxs[d].done = "no"
                                     THEN cause ELSE ctxs[d].done
  BY <1>1, <1>2 DEF Canceled, CtxType, canceled
<1> HIDE DEF K
<1> DEFINE e == [K[c] EXCEPT !.timer = "fired"]
<1>5. IF cause = "timeout" THEN ctxs' = [K EXCEPT ![c] = e] ELSE ctxs' = K
  BY DEF K, Cancelation
<1>6. e \in CtxType /\ e.under = K[c].under /\ e.done = K[c].done /\ e.timer = "fired"
  <2>1. K[c] \in CtxType
    BY <1>2, <1>3
  <2> QED BY <2>1 DEF CtxType
<1> HIDE DEF n, e
<1>7. ctxs' \in [1..n -> CtxType]
  BY <1>3, <1>5, <1>6
<1>8. \A d \in 1..n : ctxs'[d] = IF cause = "timeout" /\ d = c THEN e ELSE K[d]
  BY <1>3, <1>5, Zenon
<1>9. \A d \in 1..n : ctxs'[d].under = K[d].under /\ ctxs'[d].done = K[d].done
  BY <1>6, <1>8
<1>10. \A d \in 1..n : ctxs'[d].timer = IF cause = "timeout" /\ d = c THEN "fired" ELSE K[d].timer
  BY <1>6, <1>8
<1> USE DEF n
<1>11. DOMAIN ctxs' = 1..n /\ ctxs' \in Seq(CtxType)
  BY <1>2, <1>7
<1>12. cause = "timeout" => c # 1
  BY DEF IInv, Tree, Cancelation
<1> QED BY <1>2, <1>4, <1>9, <1>10, <1>11, <1>12

\* The same over the contexts that there are.
LEMMA CancelEffect ==
  ASSUME IInv, NEW c \in DOMAIN ctxs, NEW cause \in {"Cancel", "context", "timeout"}, Cancelation(c, cause)
  PROVE  /\ DOMAIN ctxs' = DOMAIN ctxs
         /\ \A d \in DOMAIN ctxs :
              /\ ctxs'[d].under = ctxs[d].under
              /\ ctxs'[d].done = IF c \in ctxs[d].under /\ ctxs[d].done = "no" THEN cause ELSE ctxs[d].done
              /\ ctxs'[d].timer = IF cause = "timeout" /\ d = c THEN "fired" ELSE ctxs[d].timer
<1>1. DOMAIN ctxs = 1..Len(ctxs) /\ DOMAIN ctxs' = 1..Len(ctxs)
  BY CancelFacts, Zenon
<1>2. \A d \in 1..Len(ctxs) :
        /\ ctxs'[d].under = ctxs[d].under
        /\ ctxs'[d].done = IF c \in ctxs[d].under /\ ctxs[d].done = "no" THEN cause ELSE ctxs[d].done
        /\ ctxs'[d].timer = IF cause = "timeout" /\ d = c THEN "fired" ELSE ctxs[d].timer
  BY CancelFacts
<1> QED BY <1>1, <1>2

LEMMA Cancels ==
  ASSUME IInv, NEW c \in DOMAIN ctxs, NEW cause \in {"Cancel", "context", "timeout"},
         Cancelation(c, cause), Control', UNCHANGED <<policies, exec>>
  PROVE  IInv'
<1> DEFINE n == Len(ctxs)
<1>2. n \in Nat /\ DOMAIN ctxs = 1..n
  BY CancelFacts
<1>4. \A d \in 1..n :
        /\ ctxs'[d].under = ctxs[d].under
        /\ ctxs'[d].done = IF c \in ctxs[d].under /\ ctxs[d].done = "no" THEN cause ELSE ctxs[d].done
        /\ ctxs'[d].timer = IF cause = "timeout" /\ d = c THEN "fired" ELSE ctxs[d].timer
  BY CancelFacts
<1>8. DOMAIN ctxs' = 1..n /\ ctxs' \in Seq(CtxType)
  BY CancelFacts
<1>9. ContextType'
  BY <1>2, <1>8 DEF IInv, ContextType
<1>10. /\ 1 \in 1..n /\ ctxs[1].timer = "none" /\ ctxs[1].under = {1}
       /\ \A d \in 1..n : 1 \in ctxs[d].under /\ ctxs[d].under \subseteq 1..n
       /\ ctxs[1].done # "no" => \A d \in 1..n : ctxs[d].done # "no"
  BY <1>2 DEF IInv, Tree, ContextType, canceled
<1>11. cause = "timeout" => c # 1
  BY CancelFacts
<1>12. Tree'
  <2>1. ctxs'[1].timer = "none" /\ ctxs'[1].under = {1}
    BY <1>4, <1>10, <1>11
  <2>2. \A d \in 1..n : 1 \in ctxs'[d].under /\ ctxs'[d].under \subseteq 1..n
    BY <1>4, <1>10
  <2>3. ctxs'[1].done # "no" => \A d \in 1..n : ctxs'[d].done # "no"
    <3>1. CASE ctxs[1].done # "no"
      BY <1>4, <1>10, <3>1
    <3>2. CASE ctxs[1].done = "no" /\ c = 1
      BY <1>4, <1>10, <3>2
    <3>3. CASE ctxs[1].done = "no" /\ c # 1
      BY <1>4, <1>10, <3>3
    <3> QED BY <3>1, <3>2, <3>3
  <2> QED BY <1>8, <2>1, <2>2, <2>3 DEF Tree, canceled
<1>13. CanceledFromAbove'
  <2> SUFFICES ASSUME NEW e \in 1..n, ctxs'[e].done = "timeout"
               PROVE  \E d \in ctxs'[e].under : ctxs'[d].timer = "fired"
    BY <1>8 DEF CanceledFromAbove
  <2>1. CASE ctxs[e].done = "timeout"
    <3>1. PICK d \in ctxs[e].under : ctxs[d].timer = "fired"
      BY <1>2, <2>1 DEF IInv, CanceledFromAbove
    <3>2. d \in 1..n
      BY <1>10
    <3> QED BY <1>4, <3>1, <3>2
  <2>2. CASE ctxs[e].done # "timeout"
    <3>1. cause = "timeout" /\ c \in ctxs[e].under
      BY <1>4, <2>2
    <3> QED BY <1>2, <1>4, <3>1
  <2> QED BY <2>1, <2>2
<1> QED BY <1>9, <1>12, <1>13 DEF IInv

\* Cancellations and timers, which run next to the goroutine, and the return of a Timeout.
LEMMA OutsideSteps ==
  ASSUME IInv,
         \/ timeoutReturns
         \/ \E c \in DOMAIN ctxs : timerFires(c) \/ timerCancels(c)
         \/ \E l \in DOMAIN policies, err \in FnErrors : otherStores(l, err)
         \/ CancelMarks \/ CancelPropagates \/ contextDone \/ UNCHANGED vars
  PROVE  IInv'
<1>1. UNCHANGED <<policies, level, phase>> => Control'
  BY DEF IInv, Control
<1>2. UNCHANGED <<policies, level, phase, exec, ctxs>> => IInv'
  BY <1>1, SameContexts DEF IInv, ContextType
<1>3. 1 \in DOMAIN ctxs
  BY DEF IInv, ContextType
<1>4. CASE timeoutReturns
  <2> DEFINE c == exec[level + 1]
  <2>1. DOMAIN policies = 1..Len(policies) /\ Len(policies) \in Nat
    BY Policies DEF IInv
  <2>2. level \in DOMAIN policies /\ policies' = policies /\ \E r : return(r)
    BY <1>4 DEF timeoutReturns, At
  <2>3. level \in 1..(Len(policies) + 1) /\ c \in DOMAIN ctxs
    BY <2>1, <2>2 DEF IInv, ContextType
  <2>4. Control' /\ exec' = exec
    BY <2>2, <2>3, Returns
  <2>5. CASE ctxs[c].timer = "armed" /\ ctxs' = [ctxs EXCEPT ![c].timer = "stopped"]
    BY <2>2, <2>3, <2>4, <2>5, TimerMoves, Zenon
  <2>6. CASE ctxs' = ctxs
    BY <2>2, <2>4, <2>6, SameContexts DEF IInv, ContextType
  <2> QED BY <1>4, <2>5, <2>6 DEF timeoutReturns
<1>5. ASSUME NEW c \in DOMAIN ctxs, timerFires(c) PROVE IInv'
  BY <1>1, <1>5, TimerMoves, Zenon DEF timerFires
<1>6. ASSUME NEW c \in DOMAIN ctxs, timerCancels(c) PROVE IInv'
  BY <1>1, <1>6, Cancels DEF timerCancels, Cancelation
<1>7. ASSUME NEW l \in DOMAIN policies, NEW err \in FnErrors, otherStores(l, err) PROVE IInv'
  BY <1>2, <1>7, Zenon DEF otherStores, shared
<1>8. CASE CancelMarks
  BY <1>2, <1>8 DEF CancelMarks, goroutine
<1>9. CASE CancelPropagates
  BY <1>1, <1>3, <1>9, Cancels DEF CancelPropagates, goroutine, Cancelation
<1>10. CASE contextDone
  BY <1>1, <1>3, <1>10, Cancels DEF contextDone, goroutine, Cancelation
<1>11. CASE UNCHANGED vars
  BY <1>2, <1>11 DEF vars, shared
<1> QED BY <1>4, <1>5, <1>6, <1>7, <1>8, <1>9, <1>10, <1>11

LEMMA Inductive == IInv /\ [Next]_vars => IInv'
<1> SUFFICES ASSUME IInv, [Next]_vars PROVE IInv'
  OBVIOUS
<1>1. CASE callTimeout
  BY <1>1, NewContext
<1>2. CASE Step /\ ~callTimeout /\ ~timeoutReturns
  BY <1>2, GoroutineSteps DEF Step
<1>3. CASE timeoutReturns \/ (Next /\ ~Step) \/ UNCHANGED vars
  BY <1>3, OutsideSteps DEF Next, Terminated
<1> QED BY <1>1, <1>2, <1>3

LEMMA Invariant == Spec => []IInv
<1> QED BY Initial, Inductive, PTL DEF Spec

(***************************************************************************)
(* In every composition, a Timeout cancels only what runs under it: the    *)
(* callback of timeoutexecutor.go that lost its race never cancels, and    *)
(* one that is late does not reach another attempt.                        *)
(***************************************************************************)
THEOREM CancelsFromAbove == Spec => []CanceledFromAbove
<1>1. IInv => CanceledFromAbove
  BY DEF IInv
<1> QED BY <1>1, Invariant, PTL

\* Only beginRetry counts an attempt, after InitializeRetry found its own context not done.
LEMMA AttemptsStep ==
  ASSUME IInv, [Next]_vars, canceled(1), phase # "retry"
  PROVE  attempts' = attempts /\ phase' # "retry"
<1>1. CASE InitializeRetry
  <2>1. level \in DOMAIN policies
    BY <1>1 DEF IInv, Control, InitializeRetry
  <2>2. exec[level] \in DOMAIN ctxs
    BY <2>1, Policies DEF IInv, ContextType
  <2>3. canceled(exec[level])
    BY <2>2 DEF IInv, Tree
  <2> QED BY <1>1, <2>3 DEF InitializeRetry, shared, counters, return
<1>2. CASE Step /\ ~InitializeRetry
  <2>1. attempts' = attempts
    BY <1>2, Zenon DEF Step, fnReturns, fnPanics, record, callThrough, callBreaker, breakerReturns, callCache,
         cacheReturns, callTimeout, timeoutReturns, retryReturns, RecordResult, beginRetry, fallbackReturns,
         fallbackFnReturns, shared, counters
  <2>2. \/ \E r : return(r)
        \/ \E c : callInner(c)
        \/ \E next \in {"record", "delay", "fallback", "done", "panicked"} : \E r : goOn(next, r)
    BY <1>2, ZenonT(30) DEF Step, fnReturns, fnPanics, record, callThrough, callBreaker, breakerReturns,
         callCache, cacheReturns, callTimeout, timeoutReturns, retryReturns, OnFailure, RecordResult,
         beginRetry, fallbackReturns, fallbackFnReturns
  <2>3. phase' # "retry"
    BY <2>2 DEF return, callInner, goOn
  <2> QED BY <2>1, <2>3
<1>3. CASE (Next /\ ~Step) \/ UNCHANGED vars
  BY <1>3, Zenon DEF Next, timerFires, timerCancels, otherStores, CancelMarks, CancelPropagates, contextDone,
       Terminated, goroutine, shared, counters, vars
<1> QED BY <1>1, <1>2, <1>3

(***************************************************************************)
(* In every composition, and wherever the goroutine is when the context of *)
(* the whole execution is done, no attempt is begun after that: the check  *)
(* of InitializeRetry (execution.go) sees it in the contexts of all the    *)
(* executions below.  Only an attempt that had passed the check, and holds *)
(* the mutex, is still begun.                                              *)
(***************************************************************************)
THEOREM CanceledNotRetried == Spec => NoRetryOnceCanceled
<1>1. IInv /\ [Next]_vars
        => [canceled(1) /\ phase # "retry" => attempts' = attempts /\ phase' # "retry"]_vars
  BY AttemptsStep
<1> QED BY <1>1, Invariant, PTL DEF Spec, NoRetryOnceCanceled
-----------------------------------------------------------------------------
(***************************************************************************)
(* What the operations on results make of them.                            *)
(***************************************************************************)
LEMMA NewResults ==
  ASSUME NEW err \in FnErrors \cup {"nil", "timeout", "canceled", "context", "open"}
  PROVE  /\ FailureResult(err) \in ResultType /\ FailureResult(err).err = err
         /\ FnResult(err) \in ResultType /\ FnResult(err).err = err
         /\ [FailureResult(err) EXCEPT !.exceeded = TRUE] \in ResultType
         /\ [FailureResult(err) EXCEPT !.exceeded = TRUE].err = err
BY Zenon DEF FailureResult, FnResult, ResultType, ResultsOf

LEMMA SameError ==
  ASSUME NEW r \in ResultType
  PROVE  /\ r.err \in FnErrors \cup {"nil", "timeout", "canceled", "context", "open"}
         /\ WithFailure(r) \in ResultType /\ WithFailure(r).err = r.err
         /\ \A done, success \in BOOLEAN :
              WithDone(r, done, success) \in ResultType /\ WithDone(r, done, success).err = r.err
         /\ \A p : PostExecute(p, r) \in ResultType /\ PostExecute(p, r).err = r.err
<1>1. /\ r.err \in FnErrors \cup {"nil", "timeout", "canceled", "context", "open"}
      /\ WithFailure(r) \in ResultType /\ WithFailure(r).err = r.err
  BY Zenon DEF WithFailure, ResultType, ResultsOf
<1>2. ASSUME NEW done \in BOOLEAN, NEW success \in BOOLEAN
      PROVE  WithDone(r, done, success) \in ResultType /\ WithDone(r, done, success).err = r.err
  BY Zenon DEF WithDone, ResultType, ResultsOf
<1>3. ASSUME NEW p PROVE PostExecute(p, r) \in ResultType /\ PostExecute(p, r).err = r.err
  BY <1>1, <1>2, Zenon DEF PostExecute
<1> QED BY <1>1, <1>2, <1>3

-----------------------------------------------------------------------------
\* The executions that are under way: those of the levels 1..Depth.
Depth == IF phase \in {"return", "record", "delay", "retry", "fallback"} THEN level + 1 ELSE level

Limits(l) == l \in DOMAIN policies /\ policies[l].kind = "timeout"

(***************************************************************************)
(* Contexts form a tree, and cancellation goes down.                       *)
(***************************************************************************)
Downwards ==
  /\ \A c \in DOMAIN ctxs : c \in ctxs[c].under
  /\ \A c, d \in DOMAIN ctxs : d \in ctxs[c].under => ctxs[d].under \subseteq ctxs[c].under
  /\ \A c, d \in DOMAIN ctxs : d \in ctxs[c].under /\ canceled(d) => canceled(c)
  /\ \A c \in DOMAIN ctxs : ctxs[c].timer = "fired" => canceled(c)
  /\ \A c \in DOMAIN ctxs : ctxs[c].done \in {"Cancel", "context"} => canceled(1)

(***************************************************************************)
(* A level under way runs under the contexts of exactly the Timeouts above *)
(* it, which are different ones and whose races are not lost yet.          *)
(***************************************************************************)
Nested ==
  /\ Depth \in 0..(Len(policies) + 1)
  /\ \A m \in 1..Depth : \A d \in ctxs[exec[m]].under :
       d = 1 \/ \E l \in 1..(m - 1) : Limits(l) /\ d = exec[l + 1]
  /\ \A m \in 1..Depth : \A l \in 1..(m - 1) : Limits(l) => exec[l + 1] \in ctxs[exec[m]].under
  /\ \A l, k \in 1..(Depth - 1) : Limits(l) /\ Limits(k) /\ l # k => exec[l + 1] # exec[k + 1]
  /\ \A l \in 1..(Depth - 1) : Limits(l) => ctxs[exec[l + 1]].timer \in {"armed", "won", "fired"}

\* The cause of an error of a Timeout or of Cancel.
Caused(err) ==
  /\ err = "timeout" => \E c \in DOMAIN ctxs : TimedOut(c)
  /\ err = "canceled" => canceling # "no"

(***************************************************************************)
(* A context error on its way belongs to the whole execution or to a       *)
(* Timeout it has yet to pass, which turns it into its own.                *)
(***************************************************************************)
Causes ==
  /\ result \in ResultType /\ canceledResult \in ResultType
  /\ Caused(result.err) /\ Caused(canceledResult.err)
  /\ canceledResult.err # "context"
  /\ result.err = "context" =>
       \/ phase \in {"return", "done"} /\ canceled(1)
       \/ phase = "return" /\ \E l \in 1..(Depth - 1) : Limits(l) /\ ctxs[exec[l + 1]].timer = "fired"

EInv == IInv /\ Downwards /\ Nested /\ Causes

LEMMA InitialCauses == Init => EInv
<1> SUFFICES ASSUME Init PROVE EInv
  OBVIOUS
<1>1. IInv
  BY Initial
<1>2. DOMAIN ctxs = {1} /\ ctxs[1] = [under |-> {1}, done |-> "no", timer |-> "none"] /\ Depth = 1
  BY DEF Init, Depth
<1>3. Downwards
  BY <1>2 DEF Downwards, canceled
<1>4. exec[1] = 1 /\ Len(policies) \in Nat
  BY Policies, <1>1 DEF Init, IInv
<1>5. Nested
  BY <1>2, <1>4 DEF Nested
<1>6. Causes
  BY DEF Init, Causes, Caused, Nil, FailureResult, ResultType, ResultsOf
<1> QED BY <1>1, <1>3, <1>5, <1>6 DEF EInv

-----------------------------------------------------------------------------
\* The three changes of the contexts keep the tree.
LEMMA DownwardsNew == ASSUME IInv, Downwards, callTimeout PROVE Downwards'
<1> DEFINE n == Len(ctxs)
           p == exec[level]
<1>1. n \in Nat /\ DOMAIN ctxs = 1..n /\ 1 \in 1..n /\ p \in 1..n /\ DOMAIN ctxs' = 1..(n + 1)
  BY NewContextFacts
<1>2. /\ ctxs'[n + 1].under = ctxs[p].under \cup {n + 1} /\ ctxs'[n + 1].done = ctxs[p].done
      /\ ctxs'[n + 1].timer = "armed"
      /\ \A c \in 1..n : ctxs'[c] = ctxs[c]
  BY NewContextFacts
<1>3. \A c \in 1..n : ctxs[c].under \subseteq 1..n
  BY <1>1 DEF IInv, Tree
<1>4. \A c \in 1..(n + 1) : c \in 1..n \/ c = n + 1
  BY <1>1
<1>5. n + 1 \notin 1..n
  BY <1>1
<1>6. /\ \A c \in 1..n : c \in ctxs[c].under
      /\ \A c, d \in 1..n : d \in ctxs[c].under => ctxs[d].under \subseteq ctxs[c].under
      /\ \A c, d \in 1..n : d \in ctxs[c].under /\ ctxs[d].done # "no" => ctxs[c].done # "no"
      /\ \A c \in 1..n : ctxs[c].timer = "fired" => ctxs[c].done # "no"
      /\ \A c \in 1..n : ctxs[c].done \in {"Cancel", "context"} => ctxs[1].done # "no"
  BY <1>1 DEF Downwards, canceled
<1> HIDE DEF n, p
<1>7. \A c \in 1..(n + 1) : c \in ctxs'[c].under
  BY <1>2, <1>4, <1>6
<1>8. ASSUME NEW c \in 1..(n + 1), NEW d \in 1..(n + 1), d \in ctxs'[c].under
      PROVE  ctxs'[d].under \subseteq ctxs'[c].under /\ (ctxs'[d].done # "no" => ctxs'[c].done # "no")
  <2>1. CASE c \in 1..n
    <3>1. d \in ctxs[c].under /\ d \in 1..n
      BY <1>2, <1>3, <1>8, <2>1
    <3> QED BY <1>2, <1>6, <2>1, <3>1
  <2>2. CASE c = n + 1 /\ d = n + 1
    BY <2>2
  <2>3. CASE c = n + 1 /\ d # n + 1
    <3>1. d \in ctxs[p].under /\ d \in 1..n
      BY <1>2, <1>4, <1>8, <2>3
    <3>2. ctxs[d].under \subseteq ctxs[p].under /\ (ctxs[d].done # "no" => ctxs[p].done # "no")
      BY <1>1, <1>6, <3>1
    <3> QED BY <1>2, <2>3, <3>1, <3>2
  <2> QED BY <1>4, <2>1, <2>2, <2>3
<1>9. \A c \in 1..(n + 1) : ctxs'[c].timer = "fired" => ctxs'[c].done # "no"
  BY <1>2, <1>4, <1>6
<1>10. \A c \in 1..(n + 1) : ctxs'[c].done \in {"Cancel", "context"} => ctxs'[1].done # "no"
  BY <1>1, <1>2, <1>4, <1>6
<1> QED BY <1>1, <1>7, <1>8, <1>9, <1>10 DEF Downwards, canceled

LEMMA DownwardsTimer ==
  ASSUME IInv, Downwards, NEW c \in DOMAIN ctxs, NEW how \in {"stopped", "won"},
         ctxs' = [ctxs EXCEPT ![c].timer = how]
  PROVE  Downwards'
<1>1. /\ DOMAIN ctxs' = DOMAIN ctxs
      /\ \A d \in DOMAIN ctxs : ctxs'[d].under = ctxs[d].under /\ ctxs'[d].done = ctxs[d].done
      /\ \A d \in DOMAIN ctxs : ctxs'[d].timer = "fired" => ctxs[d].timer = "fired"
  BY TimerFacts
<1>2. 1 \in DOMAIN ctxs
  BY DEF IInv, ContextType
<1> QED BY <1>1, <1>2 DEF Downwards, canceled

LEMMA DownwardsCancel ==
  ASSUME IInv, Downwards, NEW c \in DOMAIN ctxs, NEW cause \in {"Cancel", "context", "timeout"},
         Cancelation(c, cause)
  PROVE  Downwards'
<1> DEFINE D == DOMAIN ctxs
<1>1. /\ DOMAIN ctxs' = D
      /\ \A d \in D :
           /\ ctxs'[d].under = ctxs[d].under
           /\ ctxs'[d].done = IF c \in ctxs[d].under /\ ctxs[d].done = "no" THEN cause ELSE ctxs[d].done
           /\ ctxs'[d].timer = IF cause = "timeout" /\ d = c THEN "fired" ELSE ctxs[d].timer
  BY CancelEffect, Zenon
<1>2. /\ \A e \in D : e \in ctxs[e].under
      /\ \A e, d \in D : d \in ctxs[e].under => ctxs[d].under \subseteq ctxs[e].under
      /\ \A e, d \in D : d \in ctxs[e].under /\ ctxs[d].done # "no" => ctxs[e].done # "no"
      /\ \A e \in D : ctxs[e].timer = "fired" => ctxs[e].done # "no"
      /\ \A e \in D : ctxs[e].done \in {"Cancel", "context"} => ctxs[1].done # "no"
  BY DEF Downwards, canceled
<1>3. 1 \in D /\ (cause # "timeout" => c = 1)
  BY DEF IInv, ContextType, Cancelation
<1> HIDE DEF D
<1>4. \A e, d \in D : d \in ctxs[e].under /\ ctxs'[d].done # "no" => ctxs'[e].done # "no"
  BY <1>1, <1>2
<1>5. \A e \in D : ctxs'[e].timer = "fired" => ctxs'[e].done # "no"
  BY <1>1, <1>2
<1>6. \A e \in D : ctxs'[e].done \in {"Cancel", "context"} => ctxs'[1].done # "no"
  BY <1>1, <1>2, <1>3
<1> QED BY <1>1, <1>2, <1>4, <1>5, <1>6 DEF Downwards, canceled

-----------------------------------------------------------------------------
LEMMA Below == \A n, m \in Int : n <= m => \A l \in 1..(n - 1) : l \in 1..(m - 1)
OBVIOUS

\* A step that adds no level and decides no race below.
LEMMA NestedKept ==
  ASSUME IInv, Nested, UNCHANGED <<policies, exec>>, Depth' \in 0..Depth, DOMAIN ctxs \subseteq DOMAIN ctxs',
         \A d \in DOMAIN ctxs : ctxs'[d].under = ctxs[d].under,
         \A l \in 1..(Depth' - 1) : Limits(l) => ctxs'[exec[l + 1]].timer \in {"armed", "won", "fired"}
  PROVE  Nested'
<1>1. Len(policies) \in Nat /\ Depth \in 0..(Len(policies) + 1)
      /\ exec \in [1..(Len(policies) + 1) -> DOMAIN ctxs]
  BY Policies DEF IInv, Nested, ContextType
<1>2. \A m \in 1..Depth' : m \in 1..Depth /\ exec[m] \in DOMAIN ctxs
  BY <1>1
<1>3. \A l \in 1..(Depth' - 1) : l \in 1..(Depth - 1)
  <2>1. Depth \in Int /\ Depth' \in Int /\ Depth' <= Depth
    BY <1>1
  <2> QED BY <2>1, Below, Zenon
<1>4. Depth' \in 0..(Len(policies) + 1)
  BY <1>1
<1>5. \A m \in 1..Depth' : ctxs'[exec[m]].under = ctxs[exec[m]].under
  BY <1>2
<1>6. \A l : Limits(l)' <=> Limits(l)
  BY DEF Limits
<1>7. \A m \in 1..Depth' : \A d \in ctxs'[exec[m]].under :
        d = 1 \/ \E l \in 1..(m - 1) : Limits(l) /\ d = exec[l + 1]
  BY <1>2, <1>5 DEF Nested
<1>8. \A m \in 1..Depth' : \A l \in 1..(m - 1) : Limits(l) => exec[l + 1] \in ctxs'[exec[m]].under
  BY <1>2, <1>5 DEF Nested
<1>9. \A l, k \in 1..(Depth' - 1) : Limits(l) /\ Limits(k) /\ l # k => exec[l + 1] # exec[k + 1]
  BY <1>3, Zenon DEF Nested
<1> QED BY <1>4, <1>6, <1>7, <1>8, <1>9, Zenon DEF Nested

\* The races of the Timeouts under way are not lost, with the contexts as they are.
LEMMA NestedSame ==
  ASSUME IInv, Nested, UNCHANGED <<policies, exec, ctxs>>, Depth' \in 0..Depth
  PROVE  Nested'
<1>1. \A l \in 1..(Depth' - 1) : l \in 1..(Depth - 1)
  BY Policies DEF IInv, Nested
<1>2. \A l \in 1..(Depth' - 1) : Limits(l) => ctxs'[exec[l + 1]].timer \in {"armed", "won", "fired"}
  BY <1>1, Zenon DEF Nested
<1> QED BY <1>2, NestedKept, Zenon

(***************************************************************************)
(* The next level is called, with a context c that is that of this level   *)
(* or, for a Timeout, a new one below it.                                  *)
(***************************************************************************)
LEMMA NestedCall ==
  ASSUME IInv, Nested, level \in DOMAIN policies, phase = "call", policies' = policies,
         NEW c, callInner(c),
         \A d \in DOMAIN ctxs : ctxs'[d] = ctxs[d],
         \/ ~Limits(level) /\ c = exec[level]
         \/ /\ Limits(level) /\ c \notin DOMAIN ctxs /\ ctxs'[c].under = ctxs[exec[level]].under \cup {c}
            /\ ctxs'[c].timer = "armed"
  PROVE  Nested'
<1>1. /\ DOMAIN policies = 1..Len(policies) /\ Len(policies) \in Nat
      /\ exec \in [1..(Len(policies) + 1) -> DOMAIN ctxs]
  BY Policies DEF IInv, ContextType
<1>2. Depth = level /\ Depth' = level + 1 /\ exec' = [exec EXCEPT ![level + 1] = c]
  BY DEF Depth, callInner
<1>3. level \in Nat /\ level >= 1 /\ level + 1 \in 1..(Len(policies) + 1) /\ level \in 1..(Len(policies) + 1)
  BY <1>1
<1>4. exec'[level + 1] = c /\ \A m \in 1..level : exec'[m] = exec[m] /\ exec[m] \in DOMAIN ctxs
  BY <1>1, <1>2, <1>3
<1>5. \A l : Limits(l)' <=> Limits(l)
  BY DEF Limits
<1> DEFINE Above(m, d) == d = 1 \/ \E l \in 1..(m - 1) : Limits(l) /\ d = exec'[l + 1]
<1>6. \A m \in 1..level : ctxs'[exec'[m]].under = ctxs[exec[m]].under
  BY <1>4
<1>7. \A l \in 1..(level - 1) : exec'[l + 1] = exec[l + 1] /\ exec[l + 1] \in DOMAIN ctxs
  <2> TAKE l \in 1..(level - 1)
  <2>1. l + 1 \in 1..level
    BY <1>3
  <2> QED BY <1>4, <2>1
<1>8. \A m \in 1..level : \A d \in ctxs[exec[m]].under : Above(m, d)
  <2> TAKE m \in 1..level
  <2> TAKE d \in ctxs[exec[m]].under
  <2>1. \A l \in 1..(m - 1) : l \in 1..(level - 1)
    BY <1>3
  <2>2. d = 1 \/ \E l \in 1..(m - 1) : Limits(l) /\ d = exec[l + 1]
    BY <1>2 DEF Nested
  <2> QED BY <1>7, <2>1, <2>2
<1>9. \A m \in 1..(level + 1) : \A d \in ctxs'[exec'[m]].under : Above(m, d)
  <2> TAKE m \in 1..(level + 1)
  <2> TAKE d \in ctxs'[exec'[m]].under
  <2>1. CASE m \in 1..level
    BY <1>6, <1>8, <2>1
  <2>2. CASE m = level + 1
    <3>1. level \in 1..level /\ level \in 1..(m - 1) /\ \A l \in 1..(level - 1) : l \in 1..(m - 1)
      BY <1>3, <2>2
    <3>2. CASE d \in ctxs[exec[level]].under
      BY <1>8, <3>1, <3>2
    <3>3. CASE d \notin ctxs[exec[level]].under
      <4>1. Limits(level) /\ d = c
        BY <1>4, <2>2, <3>1, <3>3
      <4> QED BY <1>4, <3>1, <4>1
    <3> QED BY <3>2, <3>3
  <2>3. m \in 1..level \/ m = level + 1
    BY <1>3
  <2> QED BY <2>1, <2>2, <2>3
<1>10. \A m \in 1..(level + 1) : \A l \in 1..(m - 1) : Limits(l) => exec'[l + 1] \in ctxs'[exec'[m]].under
  <2> SUFFICES ASSUME NEW m \in 1..(level + 1), NEW l \in 1..(m - 1), Limits(l)
               PROVE  exec'[l + 1] \in ctxs'[exec'[m]].under
    OBVIOUS
  <2>1. CASE m \in 1..level
    <3>1. l \in 1..(level - 1)
      BY <1>3, <2>1
    <3>2. exec[l + 1] \in ctxs[exec[m]].under
      BY <1>2, <2>1 DEF Nested
    <3> QED BY <1>6, <1>7, <2>1, <3>1, <3>2
  <2>2. CASE m = level + 1 /\ l = level
    BY <1>4, <2>2
  <2>3. CASE m = level + 1 /\ l # level
    <3>1. l \in 1..(level - 1) /\ level \in 1..level
      BY <1>3, <2>3
    <3>2. exec[l + 1] \in ctxs[exec[level]].under
      BY <1>2, <3>1 DEF Nested
    <3>3. ctxs[exec[level]].under \subseteq ctxs'[c].under
      BY <1>4, <3>1
    <3> QED BY <1>4, <1>7, <2>3, <3>1, <3>2, <3>3
  <2>4. m \in 1..level \/ m = level + 1
    BY <1>3
  <2> QED BY <2>1, <2>2, <2>3, <2>4
<1>11. \A l, k \in 1..level : Limits(l) /\ Limits(k) /\ l # k => exec'[l + 1] # exec'[k + 1]
  <2>1. \A l \in 1..level : l \in 1..(level - 1) \/ l = level
    BY <1>3
  <2>2. \A l, k \in 1..(level - 1) : Limits(l) /\ Limits(k) /\ l # k => exec'[l + 1] # exec'[k + 1]
    BY <1>2, <1>7 DEF Nested
  <2>3. \A l \in 1..(level - 1) : Limits(level) => exec'[l + 1] # exec'[level + 1]
    BY <1>4, <1>7
  <2> QED BY <2>1, <2>2, <2>3
<1>12. \A l \in 1..level : Limits(l) => ctxs'[exec'[l + 1]].timer \in {"armed", "won", "fired"}
  <2>1. \A l \in 1..level : l \in 1..(level - 1) \/ l = level
    BY <1>3
  <2>2. \A l \in 1..(level - 1) : Limits(l) => ctxs'[exec'[l + 1]].timer \in {"armed", "won", "fired"}
    <3>1. \A l \in 1..(level - 1) : Limits(l) => ctxs[exec[l + 1]].timer \in {"armed", "won", "fired"}
      BY <1>2 DEF Nested
    <3> QED BY <1>7, <3>1
  <2>3. Limits(level) => ctxs'[exec'[level + 1]].timer = "armed"
    BY <1>4
  <2> QED BY <2>1, <2>2, <2>3
<1>13. Depth' \in 0..(Len(policies) + 1) /\ Depth' - 1 = level
  BY <1>2, <1>3
<1> HIDE DEF Above
<1>14. \A m \in 1..Depth' : \A d \in ctxs'[exec'[m]].under :
         d = 1 \/ \E l \in 1..(m - 1) : Limits(l)' /\ d = exec'[l + 1]
  BY <1>2, <1>5, <1>9 DEF Above
<1>15. \A m \in 1..Depth' : \A l \in 1..(m - 1) : Limits(l)' => exec'[l + 1] \in ctxs'[exec'[m]].under
  BY <1>2, <1>5, <1>10
<1>16. \A l, k \in 1..(Depth' - 1) : Limits(l)' /\ Limits(k)' /\ l # k => exec'[l + 1] # exec'[k + 1]
  BY <1>5, <1>11, <1>13, Zenon
<1>17. \A l \in 1..(Depth' - 1) : Limits(l)' => ctxs'[exec'[l + 1]].timer \in {"armed", "won", "fired"}
  BY <1>5, <1>12, <1>13
<1> QED BY <1>13, <1>14, <1>15, <1>16, <1>17, Zenon DEF Nested

-----------------------------------------------------------------------------
\* A context error of level m has its cause in the whole execution or in a Timeout above.
Explained(err, m) ==
  err = "context" =>
    canceled(1) \/ \E l \in 1..(m - 1) : Limits(l) /\ ctxs[exec[l + 1]].timer = "fired"

\* The result of an execution whose context is done.
LEMMA CanceledCause ==
  ASSUME EInv, level \in 1..Depth, canceled(exec[level])
  PROVE  /\ cancelResult \in ResultType /\ Caused(cancelResult.err)
         /\ Explained(cancelResult.err, level)
<1>1. CASE canceledResult # Nil
  BY <1>1 DEF EInv, Causes, cancelResult, Explained
<1>2. CASE canceledResult = Nil
  <2>1. cancelResult = FailureResult("context")
    BY <1>2 DEF cancelResult
  <2>2. cancelResult \in ResultType /\ cancelResult.err = "context"
    BY <2>1, NewResults, Zenon
  <2>3. exec[level] \in DOMAIN ctxs /\ ctxs[exec[level]] \in CtxType
    BY Policies DEF EInv, IInv, Nested, ContextType
  <2>4. CASE ctxs[exec[level]].done \in {"Cancel", "context"}
    BY <2>2, <2>3, <2>4 DEF EInv, Downwards, Explained, Caused
  <2>5. CASE ctxs[exec[level]].done = "timeout"
    <3>1. PICK d \in ctxs[exec[level]].under : ctxs[d].timer = "fired"
      BY <2>3, <2>5 DEF EInv, IInv, CanceledFromAbove
    <3>2. d # 1
      BY <3>1 DEF EInv, IInv, Tree
    <3>3. \E l \in 1..(level - 1) : Limits(l) /\ d = exec[l + 1]
      BY <3>2 DEF EInv, Nested
    <3> QED BY <2>2, <3>1, <3>3 DEF Explained, Caused
  <2> QED BY <2>3, <2>4, <2>5 DEF CtxType, canceled
<1> QED BY <1>1, <1>2

\* A context error never comes to a policy whose own context is not done, unless it is
\* the Timeout that caused it.
LEMMA NoContextError ==
  ASSUME EInv, phase = "return", level \in DOMAIN policies, ~Limits(level), ~canceled(exec[level])
  PROVE  result.err # "context"
<1> SUFFICES ASSUME result.err = "context" PROVE FALSE
  OBVIOUS
<1>1. /\ DOMAIN policies = 1..Len(policies) /\ Len(policies) \in Nat
      /\ exec \in [1..(Len(policies) + 1) -> DOMAIN ctxs]
  BY Policies DEF EInv, IInv, ContextType
<1>2. Depth = level + 1 /\ exec[level] \in DOMAIN ctxs /\ level \in Nat
  BY <1>1 DEF Depth
<1>3. ~canceled(1)
  BY <1>2 DEF EInv, IInv, Tree
<1>4. PICK l \in 1..level : Limits(l) /\ ctxs[exec[l + 1]].timer = "fired"
  BY <1>2, <1>3 DEF EInv, Causes
<1>5. l \in 1..(level - 1) /\ level \in 1..Depth
  BY <1>1, <1>2, <1>4
<1>6. exec[l + 1] \in DOMAIN ctxs /\ exec[l + 1] \in ctxs[exec[level]].under
  <2>1. l + 1 \in 1..(Len(policies) + 1)
    BY <1>1, <1>2, <1>5
  <2>2. exec[l + 1] \in ctxs[exec[level]].under
    BY <1>4, <1>5 DEF EInv, Nested
  <2> QED BY <1>1, <2>1, <2>2
<1>7. canceled(exec[l + 1])
  BY <1>4, <1>6 DEF EInv, Downwards
<1> QED BY <1>2, <1>6, <1>7 DEF EInv, Downwards

\* Another policy than a Timeout hands a context error on with its cause.
LEMMA HandsOn ==
  ASSUME EInv, phase = "return", level \in DOMAIN policies, ~Limits(level)
  PROVE  Explained(result.err, level)
<1> SUFFICES ASSUME result.err = "context", ~canceled(1)
             PROVE  \E l \in 1..(level - 1) : Limits(l) /\ ctxs[exec[l + 1]].timer = "fired"
  BY DEF Explained
<1>1. DOMAIN policies = 1..Len(policies) /\ Len(policies) \in Nat
  BY Policies DEF EInv, IInv
<1>2. Depth = level + 1 /\ level \in Nat
  BY <1>1 DEF Depth
<1>3. PICK l \in 1..level : Limits(l) /\ ctxs[exec[l + 1]].timer = "fired"
  BY <1>2 DEF EInv, Causes
<1>4. l \in 1..(level - 1)
  BY <1>2, <1>3
<1> QED BY <1>3, <1>4

-----------------------------------------------------------------------------
\* The steps that leave the contexts alone: a return,
LEMMA ReturnStep ==
  ASSUME EInv, level \in 1..(Len(policies) + 1), phase \notin {"done", "panicked"},
         NEW r \in ResultType, return(r), Caused(r.err), Explained(r.err, level),
         UNCHANGED <<policies, ctxs, canceledResult, canceling>>
  PROVE  EInv'
<1>1. Len(policies) \in Nat /\ level \in Nat /\ level >= 1
  BY Policies DEF EInv, IInv
<1>2. Control' /\ exec' = exec
  BY Returns DEF EInv
<1>3. IInv'
  BY <1>2, SameContexts DEF EInv, IInv, ContextType
<1>4. Downwards'
  BY DEF EInv, Downwards, canceled
<1>5. Depth' = level /\ Depth \in {level, level + 1}
  BY <1>1 DEF Depth, return
<1>6. Depth' \in 0..Depth
  BY <1>1, <1>5
<1>7. Nested'
  BY <1>2, <1>6, NestedSame, Zenon DEF EInv
<1>8. result' = r /\ phase' = "return"
  BY DEF return
<1>9. Causes'
  <2>1. Caused(r.err)' /\ Caused(canceledResult.err)'
    BY DEF EInv, Causes, Caused, TimedOut, return
  <2>2. r.err = "context" =>
          canceled(1)' \/ \E l \in 1..(Depth' - 1) : Limits(l)' /\ ctxs'[exec'[l + 1]].timer = "fired"
    BY <1>2, <1>5 DEF Explained, Limits, canceled
  <2> QED BY <1>8, <2>1, <2>2, Zenon DEF EInv, Causes
<1> QED BY <1>3, <1>4, <1>7, <1>9 DEF EInv

\* a step that stays at the same depth,
LEMMA StayStep ==
  ASSUME EInv, Control', UNCHANGED <<policies, ctxs, exec, canceling>>, Depth' \in 0..Depth,
         result' \in ResultType, Caused(result'.err), result'.err # "context",
         canceledResult' \in {canceledResult, Nil}
  PROVE  EInv'
<1>1. IInv'
  <2>1. IInv /\ exec' \in [1..(Len(policies) + 1) -> DOMAIN ctxs]
    BY DEF EInv, IInv, ContextType
  <2> QED BY <2>1, SameContexts, Zenon
<1>2. Downwards'
  BY DEF EInv, Downwards, canceled
<1>3. Nested'
  BY NestedSame, Zenon DEF EInv
<1>4. Nil \in ResultType /\ Nil.err = "nil"
  BY DEF Nil, ResultType, ResultsOf, FailureResult
<1>5. /\ canceledResult' \in ResultType /\ Caused(canceledResult'.err)
      /\ canceledResult'.err # "context"
  BY <1>4 DEF EInv, Causes, Caused
<1>6. \A err : Caused(err) => Caused(err)'
  BY DEF Caused, TimedOut
<1>7. Causes'
  BY <1>5, <1>6, Zenon DEF Causes
<1> QED BY <1>1, <1>2, <1>3, <1>7 DEF EInv

\* and a call.
LEMMA CallStep ==
  ASSUME EInv, level \in DOMAIN policies, phase = "call", ~Limits(level), callInner(exec[level]),
         UNCHANGED <<policies, ctxs, canceledResult, canceling>>
  PROVE  EInv'
<1>1. DOMAIN policies = 1..Len(policies) /\ Len(policies) \in Nat /\ exec[level] \in DOMAIN ctxs
  BY Policies DEF EInv, IInv, ContextType
<1>2. Control' /\ exec' \in [1..(Len(policies) + 1) -> DOMAIN ctxs]
  BY <1>1, CallsInner DEF EInv
<1>3. IInv'
  BY <1>2, SameContexts DEF EInv
<1>4. Downwards'
  BY DEF EInv, Downwards, canceled
<1>5. Nested'
  BY NestedCall DEF EInv
<1>6. result' = result /\ result.err # "context"
  BY DEF callInner, EInv, Causes
<1>7. \A err : Caused(err) => Caused(err)'
  BY DEF Caused, TimedOut
<1>8. Causes'
  BY <1>6, <1>7 DEF EInv, Causes
<1> QED BY <1>3, <1>4, <1>5, <1>8 DEF EInv

-----------------------------------------------------------------------------
\* A policy's execution is under way when its inner function has returned.
LEMMA UnderWay ==
  ASSUME EInv, level \in DOMAIN policies
  PROVE  level \in 1..(Len(policies) + 1) /\ level \in 1..Depth
<1>1. DOMAIN policies = 1..Len(policies) /\ Len(policies) \in Nat
  BY Policies DEF EInv, IInv
<1> QED BY <1>1 DEF Depth

\* A canceled execution is left with its result.
LEMMA CanceledReturn ==
  ASSUME EInv, level \in DOMAIN policies, phase \notin {"done", "panicked"}, canceled(exec[level]),
         return(cancelResult), UNCHANGED <<policies, ctxs, canceledResult, canceling>>
  PROVE  EInv'
BY UnderWay, CanceledCause, ReturnStep

\* An error of a function needs no cause.
LEMMA PlainReturn ==
  ASSUME EInv, level \in 1..(Len(policies) + 1), phase \notin {"done", "panicked"},
         NEW r \in ResultType, return(r), r.err \in {"none", "fail", "abort", "open"},
         UNCHANGED <<policies, ctxs, canceledResult, canceling>>
  PROVE  EInv'
BY ReturnStep DEF Caused, Explained

LEMMA FunctionSteps ==
  ASSUME EInv, (\E err \in FnErrors : fnReturns(err)) \/ fnPanics \/ record
  PROVE  EInv'
<1>1. ASSUME NEW err \in FnErrors, fnReturns(err) PROVE EInv'
  <2>1. level \in 1..(Len(policies) + 1)
    BY <1>1, Policies DEF fnReturns, EInv, IInv
  <2>2. FnResult(err) \in ResultType /\ FnResult(err).err \in {"none", "fail", "abort", "open"}
    BY NewResults DEF FnErrors
  <2> QED BY <1>1, <2>1, <2>2, PlainReturn DEF fnReturns
<1>2. CASE fnPanics
  <2>1. Control' /\ exec' = exec
    BY <1>2, GoesOn DEF EInv, fnPanics
  <2>2. Depth' = Depth
    BY <1>2 DEF fnPanics, goOn, Depth
  <2>3. Depth' \in 0..Depth
    BY <2>2 DEF EInv, Nested
  <2>4. result' = result /\ result.err # "context" /\ phase = "call"
    BY <1>2 DEF fnPanics, goOn, EInv, Causes
  <2> QED BY <1>2, <2>1, <2>3, <2>4, StayStep, Zenon DEF fnPanics, shared, EInv, Causes
<1>3. CASE record
  <2>1. Control' /\ exec' = exec /\ phase' = "done" /\ result' = result /\ Depth' = 0 /\ Depth = 1
    BY <1>3, GoesOn DEF EInv, record, goOn, Depth
  <2>2. UNCHANGED <<policies, ctxs, canceledResult, canceling>>
    BY <1>3 DEF record, shared
  <2>3. IInv'
    BY <2>1, <2>2, SameContexts DEF EInv, IInv, ContextType
  <2>4. Downwards'
    BY <2>2 DEF EInv, Downwards, canceled
  <2>5. Nested'
    BY <2>1, <2>2, NestedSame DEF EInv
  <2>6. \A err : Caused(err) => Caused(err)'
    BY <2>2 DEF Caused, TimedOut
  <2>7. result.err = "context" => canceled(1)'
    <3>1. \A l \in 1..(Depth - 1) : FALSE
      BY <2>1
    <3>2. result.err = "context" => canceled(1)
      BY <3>1 DEF EInv, Causes
    <3> QED BY <2>2, <3>2 DEF canceled
  <2>8. Causes'
    BY <2>1, <2>2, <2>6, <2>7 DEF EInv, Causes
  <2> QED BY <2>3, <2>4, <2>5, <2>8 DEF EInv
<1> QED BY <1>1, <1>2, <1>3

LEMMA PlainPolicySteps ==
  ASSUME EInv, callThrough \/ callBreaker \/ breakerReturns \/ callCache \/ cacheReturns
  PROVE  EInv'
<1>1. level \in DOMAIN policies /\ ~Limits(level) /\ UNCHANGED <<policies, ctxs, canceledResult, canceling>>
  BY Zenon DEF callThrough, callBreaker, breakerReturns, callCache, cacheReturns, At, policy, Limits, shared
<1>2. level \in 1..(Len(policies) + 1)
  BY <1>1, UnderWay
<1>3. CASE (callThrough \/ callBreaker \/ callCache) /\ callInner(exec[level])
  <2>1. phase = "call"
    BY <1>3, Zenon DEF callThrough, callBreaker, callCache, At
  <2> QED BY <1>1, <1>3, <2>1, CallStep, Zenon
<1>4. CASE callBreaker /\ return(FailureResult("open"))
  <2>1. FailureResult("open") \in ResultType /\ FailureResult("open").err = "open"
    BY NewResults, Zenon
  <2> QED BY <1>1, <1>2, <1>4, <2>1, PlainReturn DEF callBreaker, At
<1>5. CASE callCache /\ return(FnResult("none"))
  <2>1. FnResult("none") \in ResultType /\ FnResult("none").err = "none"
    BY NewResults DEF FnErrors
  <2> QED BY <1>1, <1>2, <1>5, <2>1, PlainReturn, Zenon DEF callCache, At
<1>6. CASE breakerReturns \/ cacheReturns
  <2>1. phase = "return"
    BY <1>6, Zenon DEF breakerReturns, cacheReturns, At
  <2>2. Explained(result.err, level)
    BY <1>1, <2>1, HandsOn
  <2>3. result \in ResultType /\ Caused(result.err)
    BY DEF EInv, Causes
  <2>4. CASE breakerReturns
    <3>1. PostExecute(policy, result) \in ResultType /\ PostExecute(policy, result).err = result.err
      BY <2>3, SameError
    <3>2. return(PostExecute(policy, result))
      BY <2>4 DEF breakerReturns
    <3> QED BY <1>1, <1>2, <2>1, <2>2, <2>3, <3>1, <3>2, ReturnStep
  <2>5. CASE cacheReturns
    <3>1. return(result)
      BY <2>5, Zenon DEF cacheReturns
    <3> QED BY <1>1, <1>2, <2>1, <2>2, <2>3, <3>1, ReturnStep
  <2> QED BY <1>6, <2>4, <2>5
<1> QED BY <1>3, <1>4, <1>5, <1>6, Zenon DEF callThrough, callBreaker, callCache

\* The error of a result that a policy has judged in an execution that is not canceled.
LEMMA JudgedReturn ==
  ASSUME EInv, level \in DOMAIN policies, ~Limits(level), phase = "return", ~canceled(exec[level]),
         NEW r \in ResultType, return(r), r.err = result.err,
         UNCHANGED <<policies, ctxs, canceledResult, canceling>>
  PROVE  EInv'
<1>1. level \in 1..(Len(policies) + 1)
  BY UnderWay
<1>2. result.err # "context"
  BY NoContextError
<1>3. Caused(r.err) /\ Explained(r.err, level)
  BY <1>2 DEF EInv, Causes, Explained
<1> QED BY <1>1, <1>3, ReturnStep

LEMMA JudgedGoOn ==
  ASSUME EInv, level \in DOMAIN policies, phase \in {"return", "record", "delay"}, result.err # "context",
         NEW next \in {"record", "delay", "retry", "fallback"},
         NEW r \in ResultType, goOn(next, r), r.err = result.err,
         UNCHANGED <<policies, ctxs, canceledResult, canceling>>
  PROVE  EInv'
<1>1. Control' /\ exec' = exec
  BY GoesOn DEF EInv
<1>2. Depth' = Depth
  BY DEF goOn, Depth
<1>3. Depth' \in 0..Depth
  BY <1>2 DEF EInv, Nested
<1>4. result' = r
  BY DEF goOn
<1> QED BY <1>1, <1>3, <1>4, StayStep, Zenon DEF EInv, Causes

LEMMA RetrySteps ==
  ASSUME EInv, retryReturns \/ RecordResult \/ InitializeRetry \/ beginRetry
  PROVE  EInv'
<1>1. result \in ResultType /\ result.err \in FnErrors \cup {"nil", "timeout", "canceled", "context", "open"}
  BY SameError DEF EInv, Causes
<1>2. CASE retryReturns
  <2>1. /\ level \in DOMAIN policies /\ ~Limits(level) /\ phase = "return"
        /\ UNCHANGED <<policies, ctxs, canceledResult, canceling>>
    BY <1>2, Zenon DEF retryReturns, At, policy, Limits, shared
  <2>2. CASE canceled(exec[level]) /\ return(cancelResult)
    BY <2>1, <2>2, CanceledReturn
  <2>3. ASSUME ~canceled(exec[level]), NEW r \in ResultType, return(r), r.err = result.err PROVE EInv'
    BY <2>1, <2>3, JudgedReturn
  <2>4. CASE ~canceled(exec[level]) /\ return(result)
    BY <1>1, <2>3, <2>4
  <2>5. CASE ~canceled(exec[level]) /\ return(WithDone(result, TRUE, TRUE))
    BY <1>1, <2>3, <2>5, SameError, Zenon
  <2>6. ASSUME ~canceled(exec[level]), NEW overdue, OnFailure(WithFailure(result), overdue) PROVE EInv'
    <3> DEFINE w == WithFailure(result)
    <3>1. w \in ResultType /\ w.err = result.err
      BY <1>1, SameError
    <3>2. \/ return([FailureResult(w.err) EXCEPT !.exceeded = TRUE])
          \/ goOn("record", WithDone(w, FALSE, FALSE)) \/ return(WithDone(w, TRUE, FALSE))
      BY <2>6, Zenon DEF OnFailure
    <3> HIDE DEF w
    <3>3. CASE return([FailureResult(w.err) EXCEPT !.exceeded = TRUE])
      BY <1>1, <2>3, <2>6, <3>1, <3>3, NewResults, Zenon
    <3>4. CASE return(WithDone(w, TRUE, FALSE))
      BY <2>3, <2>6, <3>1, <3>4, SameError, Zenon
    <3>5. CASE goOn("record", WithDone(w, FALSE, FALSE))
      <4>1. WithDone(w, FALSE, FALSE) \in ResultType /\ WithDone(w, FALSE, FALSE).err = result.err
        BY <3>1, SameError, Zenon
      <4>2. result.err # "context"
        BY <2>1, <2>6, NoContextError
      <4> QED BY <2>1, <3>5, <4>1, <4>2, JudgedGoOn, Zenon
    <3> QED BY <3>2, <3>3, <3>4, <3>5, Zenon
  <2> QED BY <1>2, <2>2, <2>4, <2>5, <2>6, Zenon DEF retryReturns
<1>3. CASE RecordResult
  <2>1. /\ level \in DOMAIN policies /\ phase = "record" /\ result.err # "context"
        /\ UNCHANGED <<policies, ctxs, canceledResult, canceling>>
    BY <1>3 DEF RecordResult, shared, EInv, IInv, Control, Causes
  <2>2. CASE canceled(exec[level]) /\ return(cancelResult)
    BY <2>1, <2>2, CanceledReturn
  <2>3. CASE goOn("delay", result)
    BY <1>1, <2>1, <2>3, JudgedGoOn
  <2> QED BY <1>3, <2>2, <2>3 DEF RecordResult
<1>4. CASE InitializeRetry
  <2>1. /\ level \in DOMAIN policies /\ phase = "delay" /\ result.err # "context"
        /\ UNCHANGED <<policies, ctxs, canceledResult, canceling>>
    BY <1>4 DEF InitializeRetry, shared, EInv, IInv, Control, Causes
  <2>2. CASE canceled(exec[level]) /\ return(cancelResult)
    BY <2>1, <2>2, CanceledReturn
  <2>3. CASE goOn("retry", result)
    BY <1>1, <2>1, <2>3, JudgedGoOn
  <2> QED BY <1>4, <2>2, <2>3 DEF InitializeRetry
<1>5. CASE beginRetry
  <2>1. /\ level \in DOMAIN policies /\ phase = "retry" /\ result.err # "context"
        /\ UNCHANGED <<policies, ctxs, canceling>>
    BY <1>5 DEF beginRetry, EInv, IInv, Control, Causes
  <2>2. level' = level + 1 /\ phase' = "call" /\ canceledResult' = Nil /\ UNCHANGED <<result, exec>>
    BY <1>5 DEF beginRetry
  <2>3. Depth' = Depth
    BY <2>1, <2>2 DEF Depth
  <2>4. Depth' \in 0..Depth
    BY <2>3 DEF EInv, Nested
  <2>5. Control'
    <3>1. policies \in Stacks /\ DOMAIN policies = 1..Len(policies) /\ Len(policies) \in Nat
      BY Policies DEF EInv, IInv, Control
    <3>2. level + 1 \in 0..(Len(policies) + 1)
      BY <2>1, <3>1
    <3> QED BY <2>1, <2>2, <3>1, <3>2 DEF Control
  <2>6. result \in ResultType /\ Caused(result.err)
    BY DEF EInv, Causes
  <2> QED BY <2>1, <2>2, <2>4, <2>5, <2>6, StayStep
<1> QED BY <1>2, <1>3, <1>4, <1>5

LEMMA FallbackSteps ==
  ASSUME EInv, fallbackReturns \/ \E err \in {"none", "fail"} : fallbackFnReturns(err)
  PROVE  EInv'
<1>1. result \in ResultType
  BY DEF EInv, Causes
<1>2. CASE fallbackReturns
  <2> DEFINE r == PostExecute(policy, result)
  <2>1. /\ level \in DOMAIN policies /\ ~Limits(level) /\ phase = "return" /\ policy.kind = "fallback"
        /\ UNCHANGED <<policies, ctxs, canceledResult, canceling>>
    BY <1>2, Zenon DEF fallbackReturns, At, policy, Limits, shared
  <2>2. r \in ResultType /\ r.err = result.err
    BY <1>1, SameError
  <2>3. r.success => r.err = "none"
    <3>1. CASE IsFailure(policy, result)
      BY <1>1, <3>1 DEF PostExecute, WithFailure, ResultType, ResultsOf
    <3>2. CASE ~IsFailure(policy, result)
      BY <2>1, <2>2, <3>2 DEF IsFailure
    <3> QED BY <3>1, <3>2
  <2>4. \/ r.success /\ return(r)
        \/ canceled(exec[level]) /\ return(cancelResult)
        \/ ~canceled(exec[level]) /\ goOn("fallback", r)
    BY <1>2 DEF fallbackReturns
  <2> HIDE DEF r
  <2>5. CASE r.success /\ return(r)
    BY <2>1, <2>2, <2>3, <2>5, UnderWay, PlainReturn
  <2>6. CASE canceled(exec[level]) /\ return(cancelResult)
    BY <2>1, <2>6, CanceledReturn
  <2>7. CASE ~canceled(exec[level]) /\ goOn("fallback", r)
    <3>1. result.err # "context"
      BY <2>1, <2>7, NoContextError
    <3> QED BY <2>1, <2>2, <2>7, <3>1, JudgedGoOn, Zenon
  <2> QED BY <2>4, <2>5, <2>6, <2>7, SMTT(20)
<1>3. ASSUME NEW err \in {"none", "fail"}, fallbackFnReturns(err) PROVE EInv'
  <2>1. /\ level \in DOMAIN policies /\ phase = "fallback"
        /\ UNCHANGED <<policies, ctxs, canceledResult, canceling>>
    BY <1>3 DEF fallbackFnReturns, shared, EInv, IInv, Control
  <2>2. CASE canceled(exec[level]) /\ return(cancelResult)
    BY <2>1, <2>2, CanceledReturn
  <2>3. ASSUME NEW r \in ResultType, return(r), r.err = err PROVE EInv'
    BY <2>1, <2>3, UnderWay, PlainReturn
  <2>4. /\ FailureResult(err) \in ResultType /\ FailureResult(err).err = err
        /\ FnResult(err) \in ResultType /\ FnResult(err).err = err
    BY NewResults DEF FnErrors
  <2>5. CASE return(FailureResult(err)) \/ return(FnResult(err))
    BY <2>3, <2>4, <2>5
  <2> QED BY <1>3, <2>2, <2>5 DEF fallbackFnReturns
<1> QED BY <1>2, <1>3

-----------------------------------------------------------------------------
\* A Timeout begins: the new context has no error yet.
LEMMA TimeoutCall == ASSUME EInv, callTimeout PROVE EInv'
<1> DEFINE n == Len(ctxs)
<1>1. IInv' /\ Downwards'
  BY NewContext, DownwardsNew DEF EInv
<1>2. /\ phase = "call" /\ level \in DOMAIN policies /\ policies' = policies /\ callInner(n + 1)
      /\ n \in Nat /\ DOMAIN ctxs = 1..n /\ DOMAIN ctxs' = 1..(n + 1)
  BY NewContextFacts DEF EInv
<1>3. /\ ctxs'[n + 1].under = ctxs[exec[level]].under \cup {n + 1} /\ ctxs'[n + 1].timer = "armed"
      /\ \A c \in 1..n : ctxs'[c] = ctxs[c]
  BY NewContextFacts DEF EInv
<1>4. Limits(level) /\ UNCHANGED <<canceledResult, canceling>>
  BY DEF callTimeout, At, policy, Limits
<1> HIDE DEF n
<1>5. n + 1 \notin 1..n
  BY <1>2
<1>6. Nested'
  BY <1>2, <1>3, <1>4, <1>5, NestedCall DEF EInv
<1>7. result' = result /\ result.err # "context"
  BY <1>2 DEF callInner, EInv, Causes
<1>8. \A c \in DOMAIN ctxs : c \in DOMAIN ctxs' /\ ctxs'[c] = ctxs[c]
  BY <1>2, <1>3
<1>9. \A err : Caused(err) => Caused(err)'
  BY <1>4, <1>8 DEF Caused, TimedOut
<1>10. Causes'
  BY <1>4, <1>7, <1>9 DEF EInv, Causes
<1> QED BY <1>1, <1>6, <1>10 DEF EInv

(***************************************************************************)
(* A Timeout ends.  Had its timer fired, the result is its own; if not, a  *)
(* context error that it hands on comes from above.                        *)
(***************************************************************************)
LEMMA TimeoutReturn == ASSUME EInv, timeoutReturns PROVE EInv'
<1> DEFINE c == exec[level + 1]
<1>1. /\ level \in DOMAIN policies /\ Limits(level) /\ phase = "return"
      /\ UNCHANGED <<policies, canceledResult, canceling>>
  BY DEF timeoutReturns, At, policy, Limits
<1>2. /\ DOMAIN policies = 1..Len(policies) /\ Len(policies) \in Nat
      /\ exec \in [1..(Len(policies) + 1) -> DOMAIN ctxs]
  BY Policies DEF EInv, IInv, ContextType
<1>3. /\ level \in Nat /\ level >= 1 /\ level \in 1..(Len(policies) + 1) /\ Depth = level + 1
      /\ level + 1 \in 1..(Len(policies) + 1)
  BY <1>1, <1>2 DEF Depth
<1>4. c \in DOMAIN ctxs
  BY <1>2, <1>3
<1>5. result \in ResultType /\ Caused(result.err)
  BY DEF EInv, Causes
<1>6. level \in 1..(Depth - 1) /\ ctxs[c].timer \in {"armed", "won", "fired"}
  <2>1. level \in 1..(Depth - 1)
    BY <1>3
  <2> QED BY <1>1, <2>1 DEF EInv, Nested
<1>7. CASE ctxs[c].timer # "armed"
  <2>1. return(PostExecute(policy, FailureResult("timeout"))) /\ UNCHANGED ctxs
    BY <1>7 DEF timeoutReturns
  <2>2. FailureResult("timeout") \in ResultType /\ FailureResult("timeout").err = "timeout"
    BY NewResults, Zenon
  <2>3. /\ PostExecute(policy, FailureResult("timeout")) \in ResultType
        /\ PostExecute(policy, FailureResult("timeout")).err = "timeout"
    BY <2>2, SameError
  <2>4. Caused("timeout") /\ Explained("timeout", level)
    BY <1>4, <1>6, <1>7 DEF Caused, TimedOut, Explained
  <2> QED BY <1>1, <1>3, <2>1, <2>3, <2>4, ReturnStep
<1>8. CASE ctxs[c].timer = "armed"
  <2> DEFINE r == PostExecute(policy, result)
  <2>1. return(r) /\ ctxs' = [ctxs EXCEPT ![c].timer = "stopped"]
    BY <1>8 DEF timeoutReturns
  <2>2. r \in ResultType /\ r.err = result.err
    BY <1>5, SameError
  <2> HIDE DEF r
  <2>3. Control' /\ exec' = exec /\ phase' = "return" /\ result' = r /\ Depth' = level
    BY <1>1, <1>3, <2>1, Returns DEF EInv, return, Depth
  <2>4. IInv' /\ Downwards'
    BY <1>1, <1>4, <1>8, <2>1, <2>3, TimerMoves, DownwardsTimer, Zenon DEF EInv
  <2>5. /\ DOMAIN ctxs' = DOMAIN ctxs
        /\ \A d \in DOMAIN ctxs :
             /\ ctxs'[d].under = ctxs[d].under /\ ctxs'[d].done = ctxs[d].done
             /\ ctxs'[d].timer = IF d = c THEN "stopped" ELSE ctxs[d].timer
    BY <1>4, <2>1, TimerFacts DEF EInv
  <2>6. \A l \in 1..(level - 1) : l \in 1..(Depth - 1) /\ l # level /\ l + 1 \in 1..(Len(policies) + 1)
    BY <1>3
  <2>7. \A l \in 1..(level - 1) : Limits(l) => exec[l + 1] \in DOMAIN ctxs /\ exec[l + 1] # c
    BY <1>1, <1>2, <1>6, <2>6, Zenon DEF EInv, Nested
  <2>8. \A l \in 1..(level - 1) : Limits(l) => ctxs'[exec[l + 1]].timer = ctxs[exec[l + 1]].timer
    BY <2>5, <2>7
  <2>9. Nested'
    <3>1. \A l \in 1..(Depth' - 1) : Limits(l) => ctxs'[exec[l + 1]].timer \in {"armed", "won", "fired"}
      BY <2>3, <2>6, <2>8 DEF EInv, Nested
    <3>2. Depth' \in 0..Depth
      BY <1>3, <2>3
    <3> QED BY <1>1, <2>3, <2>5, <3>1, <3>2, NestedKept DEF EInv
  <2>10. \A err : Caused(err) => Caused(err)'
    BY <1>1, <1>8, <2>5 DEF Caused, TimedOut
  <2>11. ASSUME result.err = "context", ~canceled(1)'
         PROVE  \E l \in 1..(level - 1) : Limits(l) /\ ctxs'[exec[l + 1]].timer = "fired"
    <3>1. ~canceled(1)
      BY <2>5, <2>11 DEF canceled, EInv, IInv, ContextType
    <3>2. PICK l \in 1..(Depth - 1) : Limits(l) /\ ctxs[exec[l + 1]].timer = "fired"
      BY <2>11, <3>1 DEF EInv, Causes
    <3>3. l # level
      BY <1>8, <3>2
    <3>4. l \in 1..(level - 1)
      BY <1>3, <3>3
    <3> QED BY <2>8, <3>2, <3>4
  <2>12. \A l : Limits(l)' <=> Limits(l)
    BY <1>1 DEF Limits
  <2>13. Causes'
    BY <1>1, <2>2, <2>3, <2>10, <2>11, <2>12 DEF EInv, Causes
  <2> QED BY <2>4, <2>9, <2>13 DEF EInv
<1> QED BY <1>7, <1>8

-----------------------------------------------------------------------------
(***************************************************************************)
(* What runs next to the goroutine takes no cause away: a context stays    *)
(* done, a race that the timer has won stays won.                          *)
(***************************************************************************)
StillHeld ==
  /\ DOMAIN ctxs' = DOMAIN ctxs
  /\ \A d \in DOMAIN ctxs :
       /\ ctxs'[d].under = ctxs[d].under /\ (canceled(d) => canceled(d)')
       /\ \/ ctxs'[d].timer = ctxs[d].timer
          \/ ctxs[d].timer = "armed" /\ ctxs'[d].timer = "won"
          \/ ctxs[d].timer = "won" /\ ctxs'[d].timer = "fired"

\* Nor does it give the execution a result without a cause.
StillCaused ==
  /\ canceling # "no" => canceling' # "no"
  /\ canceledResult' \in ResultType /\ canceledResult'.err # "context"
  /\ canceledResult' # canceledResult => Caused(canceledResult.err)'

LEMMA ConcurrentStep ==
  ASSUME EInv, IInv', Downwards', UNCHANGED <<policies, level, phase, result, exec>>, StillHeld, StillCaused
  PROVE  EInv'
<1>1. Depth' = Depth
  BY DEF Depth
<1>2. /\ Len(policies) \in Nat /\ Depth \in 0..(Len(policies) + 1)
      /\ exec \in [1..(Len(policies) + 1) -> DOMAIN ctxs]
  BY Policies DEF EInv, IInv, Nested, ContextType
<1>3. \A l \in 1..(Depth - 1) : exec[l + 1] \in DOMAIN ctxs
  BY <1>2
<1>4. /\ \A d \in DOMAIN ctxs :
           ctxs[d].timer \in {"armed", "won", "fired"} => ctxs'[d].timer \in {"armed", "won", "fired"}
      /\ \A d \in DOMAIN ctxs : ctxs[d].timer = "fired" => ctxs'[d].timer = "fired"
      /\ \A d \in DOMAIN ctxs : ctxs'[d].under = ctxs[d].under /\ (canceled(d) => canceled(d)')
      /\ \A d \in DOMAIN ctxs : TimedOut(d) => TimedOut(d)'
      /\ DOMAIN ctxs' = DOMAIN ctxs
  BY Zenon DEF StillHeld, TimedOut
<1>5. Nested'
  <2>1. Depth' \in 0..Depth
    BY <1>1, <1>2
  <2>2. \A l \in 1..(Depth - 1) : Limits(l) => ctxs[exec[l + 1]].timer \in {"armed", "won", "fired"}
    BY DEF EInv, Nested
  <2>3. \A l \in 1..(Depth' - 1) : Limits(l) => ctxs'[exec[l + 1]].timer \in {"armed", "won", "fired"}
    BY <1>1, <1>3, <1>4, <2>2, Zenon
  <2> QED BY <1>4, <2>1, <2>3, NestedKept, Zenon DEF EInv
<1>6. \A err : Caused(err) => Caused(err)'
  BY <1>4, Zenon DEF Caused, StillCaused
<1>7. Caused(result.err)' /\ Caused(canceledResult.err)'
  <2>1. Caused(result.err) /\ Caused(canceledResult.err)
    BY DEF EInv, Causes
  <2>2. CASE canceledResult' = canceledResult
    BY <1>6, <2>1, <2>2
  <2>3. CASE canceledResult' # canceledResult
    BY <1>6, <2>1, <2>3 DEF StillCaused
  <2> QED BY <2>2, <2>3
<1>8. ASSUME result.err = "context"
      PROVE  (\/ phase \in {"return", "done"} /\ canceled(1)
              \/ /\ phase = "return"
                 /\ \E l \in 1..(Depth - 1) : Limits(l) /\ ctxs[exec[l + 1]].timer = "fired")'
  <2>1. CASE phase \in {"return", "done"} /\ canceled(1)
    BY <1>4, <2>1, Zenon DEF EInv, IInv, ContextType
  <2>2. CASE phase = "return" /\ \E l \in 1..(Depth - 1) : Limits(l) /\ ctxs[exec[l + 1]].timer = "fired"
    <3>1. PICK l \in 1..(Depth - 1) : Limits(l) /\ ctxs[exec[l + 1]].timer = "fired"
      BY <2>2
    <3>2. Limits(l)' /\ ctxs'[exec'[l + 1]].timer = "fired"
      BY <1>3, <1>4, <3>1, Zenon DEF Limits
    <3> QED BY <1>1, <2>2, <3>2, Zenon
  <2> QED BY <1>8, <2>1, <2>2, Zenon DEF EInv, Causes
<1>9. Causes'
  BY <1>7, <1>8, Zenon DEF EInv, Causes, StillCaused
<1> QED BY <1>5, <1>9 DEF EInv

LEMMA ConcurrentSteps ==
  ASSUME EInv,
         \/ \E c \in DOMAIN ctxs : timerFires(c) \/ timerCancels(c)
         \/ \E l \in DOMAIN policies, err \in FnErrors : otherStores(l, err)
         \/ CancelMarks \/ CancelPropagates \/ contextDone \/ UNCHANGED vars
  PROVE  EInv'
<1>1. IInv'
  BY OutsideSteps DEF EInv
<1>2. IInv /\ Downwards /\ 1 \in DOMAIN ctxs
  BY DEF EInv, IInv, ContextType
<1>3. canceledResult \in ResultType /\ canceledResult.err # "context"
  BY DEF EInv, Causes
<1>4. UNCHANGED <<canceledResult, canceling>> => StillCaused
  BY <1>3 DEF StillCaused
<1>5. ASSUME UNCHANGED <<policies, level, phase, result, exec, ctxs>>, StillCaused PROVE EInv'
  <2>1. Downwards'
    BY <1>2, <1>5, Zenon DEF Downwards, canceled
  <2>2. StillHeld
    BY <1>5, Zenon DEF StillHeld, canceled
  <2> QED BY <1>1, <1>5, <2>1, <2>2, ConcurrentStep
<1>6. ASSUME NEW c \in DOMAIN ctxs, NEW cause \in {"Cancel", "context", "timeout"}, Cancelation(c, cause),
             UNCHANGED <<policies, level, phase, result, exec>>, StillCaused
      PROVE  EInv'
  <2>1. Downwards'
    BY <1>2, <1>6, DownwardsCancel
  <2>2. /\ DOMAIN ctxs' = DOMAIN ctxs
        /\ \A d \in DOMAIN ctxs :
             /\ ctxs'[d].under = ctxs[d].under
             /\ ctxs'[d].done = IF c \in ctxs[d].under /\ ctxs[d].done = "no" THEN cause ELSE ctxs[d].done
             /\ ctxs'[d].timer = IF cause = "timeout" /\ d = c THEN "fired" ELSE ctxs[d].timer
    BY <1>2, <1>6, CancelEffect, ZenonT(30)
  <2>3. cause = "timeout" => ctxs[c].timer = "won"
    BY <1>6 DEF Cancelation
  <2>4. \A d \in DOMAIN ctxs : canceled(d) => canceled(d)'
    BY <2>2 DEF canceled
  <2>5. StillHeld
    BY <2>2, <2>3, <2>4, Zenon DEF StillHeld
  <2> QED BY <1>1, <1>6, <2>1, <2>5, ConcurrentStep
<1>7. ASSUME NEW c \in DOMAIN ctxs, timerFires(c) PROVE EInv'
  <2>1. /\ ctxs[c].timer = "armed" /\ ctxs' = [ctxs EXCEPT ![c].timer = "won"]
        /\ UNCHANGED <<policies, level, phase, result, exec, canceledResult, canceling>>
    BY <1>7 DEF timerFires
  <2>2. Downwards'
    BY <1>2, <2>1, DownwardsTimer, Zenon
  <2>3. /\ DOMAIN ctxs' = DOMAIN ctxs
        /\ \A d \in DOMAIN ctxs : /\ ctxs'[d].under = ctxs[d].under /\ ctxs'[d].done = ctxs[d].done
                                  /\ ctxs'[d].timer = IF d = c THEN "won" ELSE ctxs[d].timer
    BY <1>2, <2>1, TimerFacts
  <2>4. \A d \in DOMAIN ctxs : canceled(d) => canceled(d)'
    BY <2>3 DEF canceled
  <2>5. StillHeld
    BY <2>1, <2>3, <2>4 DEF StillHeld
  <2> QED BY <1>1, <1>4, <2>1, <2>2, <2>5, ConcurrentStep
<1>8. ASSUME NEW c \in DOMAIN ctxs, timerCancels(c) PROVE EInv'
  <2>1. Cancelation(c, "timeout") /\ UNCHANGED <<policies, level, phase, result, exec, canceling>>
    BY <1>8 DEF timerCancels, Cancelation
  <2>2. FailureResult("timeout") \in ResultType /\ FailureResult("timeout").err = "timeout"
    BY NewResults, Zenon
  <2>3. canceledResult' \in {canceledResult, FailureResult("timeout")}
    BY <1>8 DEF timerCancels
  <2>4. c \in DOMAIN ctxs' /\ ctxs'[c].timer = "fired"
    BY <1>2, <2>1, CancelEffect, Zenon
  <2>5. Caused("timeout")'
    BY <2>4, Zenon DEF Caused, TimedOut
  <2>6. StillCaused
    BY <1>3, <2>1, <2>2, <2>3, <2>5 DEF StillCaused, Caused
  <2> QED BY <1>6, <2>1, <2>6
<1>9. ASSUME NEW l \in DOMAIN policies, NEW err \in FnErrors, otherStores(l, err) PROVE EInv'
  BY <1>4, <1>5, <1>9, Zenon DEF otherStores, shared
<1>10. CASE CancelMarks
  <2>1. UNCHANGED <<policies, level, phase, result, exec, ctxs>> /\ canceling' = "marked"
    BY <1>10 DEF CancelMarks, goroutine
  <2>2. FailureResult("canceled") \in ResultType /\ FailureResult("canceled").err = "canceled"
    BY NewResults, Zenon
  <2>3. canceledResult' \in {canceledResult, FailureResult("canceled")}
    BY <1>10 DEF CancelMarks
  <2>4. StillCaused
    BY <1>3, <2>1, <2>2, <2>3 DEF StillCaused, Caused
  <2> QED BY <1>5, <2>1, <2>4
<1>11. CASE CancelPropagates
  <2>1. /\ Cancelation(1, "Cancel") /\ canceling' = "yes"
        /\ UNCHANGED <<policies, level, phase, result, exec, canceledResult>>
    BY <1>11 DEF CancelPropagates, goroutine, Cancelation
  <2>2. StillCaused
    BY <1>3, <2>1 DEF StillCaused
  <2> QED BY <1>2, <1>6, <2>1, <2>2
<1>12. CASE contextDone
  <2>1. /\ Cancelation(1, "context")
        /\ UNCHANGED <<policies, level, phase, result, exec, canceledResult, canceling>>
    BY <1>12 DEF contextDone, goroutine, Cancelation
  <2> QED BY <1>2, <1>4, <1>6, <2>1
<1>13. CASE UNCHANGED vars
  BY <1>4, <1>5, <1>13 DEF vars, shared
<1> QED BY <1>7, <1>8, <1>9, <1>10, <1>11, <1>12, <1>13

LEMMA CausesInductive == EInv /\ [Next]_vars => EInv'
<1> SUFFICES ASSUME EInv, [Next]_vars PROVE EInv'
  OBVIOUS
<1>1. CASE Step
  BY <1>1, FunctionSteps, PlainPolicySteps, RetrySteps, FallbackSteps, TimeoutCall, TimeoutReturn DEF Step
<1>2. CASE (Next /\ ~Step) \/ UNCHANGED vars
  BY <1>2, ConcurrentSteps DEF Next, Terminated
<1> QED BY <1>1, <1>2

(***************************************************************************)
(* In every composition, an execution ends with ErrExceeded only if a      *)
(* Timeout lost its race, with ErrExecutionCanceled only if Cancel was     *)
(* called, and with the error of a context only if that is its own: the    *)
(* context error of an attempt that timed out is replaced on its way       *)
(* (executor.execute, with timeoutexecutor.go and isCanceledWithResult).   *)
(***************************************************************************)
THEOREM ErrorsHaveCauses == Spec => []ErrorHasCause
<1>1. EInv => ErrorHasCause
  <2> SUFFICES ASSUME EInv, Ended
               PROVE  Caused(result.err) /\ (result.err = "context" => canceled(1))
    BY DEF ErrorHasCause, Caused
  <2>1. Caused(result.err)
    BY DEF EInv, Causes
  <2>2. ASSUME result.err = "context" PROVE canceled(1)
    <3>1. phase = "done"
      BY <2>2 DEF EInv, Causes, Ended
    <3> QED BY <2>2, <3>1 DEF EInv, Causes
  <2> QED BY <2>1, <2>2
<1> QED BY <1>1, InitialCauses, CausesInductive, PTL DEF Spec
-----------------------------------------------------------------------------
(***************************************************************************)
(* Who wins a Timeout.  The armed timers are those of the Timeouts under   *)
(* way; the outermost Timeout has the second context, and its race decides *)
(* the result.                                                             *)
(***************************************************************************)
Armed ==
  \A c \in DOMAIN ctxs :
    ctxs[c].timer = "armed" => \E l \in 1..(Depth - 1) : Limits(l) /\ c = exec[l + 1]

TimeoutFirst == policies # <<>> /\ policies[1] = Timeout
Outermost ==
  TimeoutFirst =>
    /\ phase = "call" /\ level = 1 => DOMAIN ctxs = {1}
    /\ ~(phase = "call" /\ level = 1) => 2 \in DOMAIN ctxs /\ exec[2] = 2
    /\ level = 0 => (TimedOut(2) => result.err = "timeout")
Sole ==
  policies = <<Timeout>> =>
    /\ phase = "return" /\ level = 1 => result.err \in FnErrors
    /\ level = 0 /\ result.err = "timeout" => TimedOut(2)

Winners == Armed /\ Outermost /\ Sole
\* The loops and handlers belong to their policies.
Placed ==
  /\ phase \in {"call", "return", "record", "delay", "retry", "fallback", "done", "panicked"}
  /\ phase \in {"record", "delay", "retry"} => policies[level].kind = "retry"
  /\ phase = "fallback" => policies[level].kind = "fallback"
  /\ phase = "done" => level = 0

WInv == EInv /\ Placed /\ Winners

LEMMA StaysPlaced == ASSUME Placed, [Next]_vars PROVE Placed'
<1>1. ASSUME NEW r, return(r), policies' = policies PROVE Placed'
  BY <1>1 DEF Placed, return
<1>2. ASSUME NEW c, callInner(c), phase = "call", policies' = policies PROVE Placed'
  BY <1>2 DEF Placed, callInner
<1>3. ASSUME NEW next, NEW r, goOn(next, r), policies' = policies,
             \/ next \in {"record", "delay", "retry"} /\ policies[level].kind = "retry"
             \/ next = "fallback" /\ policies[level].kind = "fallback"
             \/ next = "done" /\ level = 0
             \/ next = "panicked"
      PROVE  Placed'
  BY <1>3, Zenon DEF Placed, goOn
<1>4. CASE (\E err \in FnErrors : fnReturns(err)) \/ fnPanics \/ record
  BY <1>1, <1>3, <1>4, Zenon DEF fnReturns, fnPanics, record
<1>5. CASE callThrough \/ callBreaker \/ breakerReturns \/ callCache \/ cacheReturns
  BY <1>1, <1>2, <1>5, Zenon DEF callThrough, callBreaker, breakerReturns, callCache, cacheReturns, At
<1>6. CASE callTimeout \/ timeoutReturns
  BY <1>1, <1>2, <1>6, Zenon DEF callTimeout, timeoutReturns, At
<1>7. CASE retryReturns \/ RecordResult
  <2>1. policies' = policies /\ policies[level].kind = "retry"
    BY <1>7, Zenon DEF retryReturns, RecordResult, At, policy, Placed
  <2>2. (\E r : return(r)) \/ \E r : goOn("record", r) \/ goOn("delay", r)
    BY <1>7, Zenon DEF retryReturns, RecordResult, OnFailure
  <2> QED BY <1>1, <1>3, <2>1, <2>2
<1>8. CASE InitializeRetry
  BY <1>1, <1>3, <1>8, Zenon DEF InitializeRetry, Placed
<1>12. CASE beginRetry
  BY <1>12, Zenon DEF beginRetry, Placed
<1>9. CASE fallbackReturns \/ \E err \in {"none", "fail"} : fallbackFnReturns(err)
  BY <1>1, <1>3, <1>9, Zenon DEF fallbackReturns, fallbackFnReturns, At, policy
<1>10. CASE UNCHANGED <<policies, level, phase>>
  BY <1>10 DEF Placed
<1>11. CASE Next /\ ~Step
  BY <1>10, <1>11, Zenon DEF Next, timerFires, timerCancels, otherStores, CancelMarks, CancelPropagates,
                             contextDone, goroutine, Terminated, vars
<1> QED BY <1>4, <1>5, <1>6, <1>7, <1>8, <1>9, <1>10, <1>11, <1>12, Zenon DEF Step, vars

LEMMA WFacts ==
  ASSUME WInv
  PROVE  /\ Len(policies) \in Nat /\ DOMAIN policies = 1..Len(policies) /\ level \in 0..(Len(policies) + 1)
         /\ Len(ctxs) \in Nat /\ DOMAIN ctxs = 1..Len(ctxs) /\ 1 \in DOMAIN ctxs
         /\ exec \in [1..(Len(policies) + 1) -> DOMAIN ctxs]
         /\ phase \in {"call", "return", "record", "delay", "retry", "fallback", "done", "panicked"}
         /\ phase = "done" => level = 0
         /\ phase \in {"record", "delay", "retry"} => level \in DOMAIN policies /\ policies[level].kind = "retry"
         /\ phase = "fallback" => level \in DOMAIN policies /\ policies[level].kind = "fallback"
         /\ Depth \in Nat
<1>1. IInv /\ Control /\ ContextType /\ Placed
  BY DEF WInv, EInv, IInv
<1>2. Len(policies) \in Nat /\ DOMAIN policies = 1..Len(policies)
  BY <1>1, Policies
<1>3. Depth \in Nat
  BY <1>1, <1>2 DEF Depth, Control
<1> QED BY <1>1, <1>2, <1>3 DEF Control, ContextType, Placed

LEMMA TimeoutFirstIs ==
  ASSUME WInv
  PROVE  /\ TimeoutFirst => 1 \in DOMAIN policies /\ Len(policies) >= 1 /\ Limits(1)
         /\ policies = <<Timeout>> => TimeoutFirst /\ Len(policies) = 1
<1>1. policies \in Seq(PolicyType) /\ Len(policies) \in Nat /\ DOMAIN policies = 1..Len(policies)
  BY Policies DEF WInv, EInv, IInv
<1>2. ASSUME TimeoutFirst PROVE 1 \in DOMAIN policies /\ Len(policies) >= 1 /\ Limits(1)
  <2>1. Len(policies) # 0
    BY <1>1, <1>2 DEF TimeoutFirst
  <2>2. policies[1].kind = "timeout"
    BY <1>2 DEF TimeoutFirst, Timeout
  <2> QED BY <1>1, <2>1, <2>2 DEF Limits
<1>3. ASSUME policies = <<Timeout>> PROVE TimeoutFirst /\ Len(policies) = 1
  BY <1>3 DEF TimeoutFirst
<1> QED BY <1>2, <1>3

\* Timers that are armed after a step were so before, and their Timeouts are still under way.
LEMMA ArmedKept ==
  ASSUME Armed, policies' = policies,
         \A c \in DOMAIN ctxs' : ctxs'[c].timer = "armed" => c \in DOMAIN ctxs /\ ctxs[c].timer = "armed",
         \A l \in 1..(Depth - 1) :
           Limits(l) /\ ctxs'[exec[l + 1]].timer = "armed"
             => l \in 1..(Depth' - 1) /\ exec'[l + 1] = exec[l + 1]
  PROVE  Armed'
<1> SUFFICES ASSUME NEW c \in DOMAIN ctxs', ctxs'[c].timer = "armed"
             PROVE  \E l \in 1..(Depth' - 1) : Limits(l) /\ c = exec'[l + 1]
  <2>1. \A l : Limits(l)' <=> Limits(l)
    BY DEF Limits
  <2> QED BY <2>1, Zenon DEF Armed
<1>1. PICK l \in 1..(Depth - 1) : Limits(l) /\ c = exec[l + 1]
  BY Zenon DEF Armed
<1> QED BY <1>1

\* The goroutine stays at its level while timers move.
LEMMA StaysWins ==
  ASSUME WInv, UNCHANGED <<policies, level, exec>>, DOMAIN ctxs' = DOMAIN ctxs,
         \A c \in DOMAIN ctxs : \/ ctxs'[c].timer = ctxs[c].timer
                                \/ ctxs[c].timer = "armed" /\ ctxs'[c].timer = "won"
                                \/ ctxs[c].timer = "won" /\ ctxs'[c].timer = "fired",
         \/ phase' = phase /\ result' = result
         \/ phase = "return" /\ phase' \in {"record", "fallback"} /\ level \in DOMAIN policies
         \/ phase = "record" /\ phase' = "delay"
         \/ phase = "delay" /\ phase' = "retry"
         \/ phase = "return" /\ phase' = "done" /\ level = 0 /\ result' = result
         \/ phase = "call" /\ phase' = "panicked" /\ level = Len(policies) + 1
  PROVE  Winners'
<1>1. Armed /\ Outermost /\ Sole
  BY DEF WInv, Winners
<1>2. \A c \in DOMAIN ctxs' : ctxs'[c].timer = "armed" => c \in DOMAIN ctxs /\ ctxs[c].timer = "armed"
  OBVIOUS
<1>3. \A l \in 1..(Depth - 1) : l \in 1..(Depth' - 1)
  BY WFacts DEF Depth
<1>4. Armed'
  BY <1>1, <1>2, <1>3, ArmedKept, Zenon
<1>5. TimeoutFirst' = TimeoutFirst
  BY DEF TimeoutFirst
<1>6. level = 0 => \A c \in DOMAIN ctxs : TimedOut(c)' = TimedOut(c)
  <2> SUFFICES ASSUME level = 0, NEW c \in DOMAIN ctxs PROVE TimedOut(c)' = TimedOut(c)
    OBVIOUS
  <2>1. ctxs[c].timer # "armed"
    <3>1. ~\E l \in 1..(Depth - 1) : TRUE
      BY WFacts DEF Depth
    <3> QED BY <1>1, <3>1 DEF Armed
  <2> QED BY <2>1 DEF TimedOut
<1>7. level = 0 => result' = result
  BY WFacts
<1>8. Outermost'
  BY <1>1, <1>5, <1>6, <1>7, WFacts, TimeoutFirstIs DEF Outermost
<1>9. Sole'
  BY <1>1, <1>6, <1>7, WFacts, TimeoutFirstIs, Zenon DEF Sole, Outermost
<1> QED BY <1>4, <1>8, <1>9 DEF Winners

\* The function, or a policy that is no Timeout, returns.
LEMMA ReturnsWins ==
  ASSUME WInv, NEW s, return(s), UNCHANGED <<policies, ctxs>>,
         \/ level = Len(policies) + 1 /\ phase = "call" /\ s.err \in FnErrors
         \/ level \in DOMAIN policies /\ ~Limits(level)
  PROVE  Winners'
<1>1. Armed /\ Outermost /\ Sole
  BY DEF WInv, Winners
<1>2. level' = level - 1 /\ phase' = "return" /\ result' = s /\ exec' = exec
  BY DEF return
<1>3. level \in Nat /\ ~Limits(level) /\ Depth' = level /\ Depth <= level + 1 /\ Depth \in Nat
  BY <1>2, WFacts DEF Depth, Limits
<1>4. \A l \in 1..(Depth - 1) : Limits(l) => l \in 1..(Depth' - 1)
  BY <1>3
<1>5. Armed'
  BY <1>1, <1>2, <1>4, ArmedKept, Zenon
<1>6. TimeoutFirst => level # 1 /\ level # 0 /\ level' # 0
  BY <1>2, <1>3, WFacts, TimeoutFirstIs
<1>7. TimeoutFirst' = TimeoutFirst
  BY DEF TimeoutFirst
<1>8. Outermost'
  BY <1>1, <1>2, <1>6, <1>7 DEF Outermost
<1>9. policies = <<Timeout>> => s.err \in FnErrors /\ level' # 0
  BY <1>6, WFacts, TimeoutFirstIs
<1>10. Sole'
  BY <1>2, <1>9 DEF Sole
<1> QED BY <1>5, <1>8, <1>10 DEF Winners

\* The next level is called, for the first time or again.
LEMMA CallsWins ==
  ASSUME WInv, UNCHANGED <<policies, ctxs>>, level \in DOMAIN policies, ~Limits(level),
         level' = level + 1, phase' = "call",
         \/ phase = "retry" /\ exec' = exec
         \/ phase = "call" /\ \E c : exec' = [exec EXCEPT ![level + 1] = c]
  PROVE  Winners'
<1>1. Armed /\ Outermost /\ Sole
  BY DEF WInv, Winners
<1>2. level \in Nat /\ level >= 1 /\ exec \in [1..(Len(policies) + 1) -> DOMAIN ctxs]
      /\ level <= Len(policies)
      /\ Len(policies) \in Nat
  BY WFacts
<1>3. \A m \in 1..level : exec'[m] = exec[m]
  BY <1>2
<1>4. Depth \in Nat /\ Depth <= level + 1 /\ Depth' = level + 1
  BY <1>2 DEF Depth
<1>5. \A l \in 1..(Depth - 1) : Limits(l) => l \in 1..(Depth' - 1) /\ exec'[l + 1] = exec[l + 1]
  <2> SUFFICES ASSUME NEW l \in 1..(Depth - 1), Limits(l)
               PROVE  l \in 1..(Depth' - 1) /\ exec'[l + 1] = exec[l + 1]
    OBVIOUS
  <2>1. l # level
    OBVIOUS
  <2>2. l + 1 \in 1..level
    BY <1>2, <1>4, <2>1
  <2> QED BY <1>2, <1>3, <1>4, <2>2
<1>6. Armed'
  BY <1>1, <1>5, ArmedKept, Zenon
<1>7. TimeoutFirst => level # 1
  BY TimeoutFirstIs
<1>8. TimeoutFirst' = TimeoutFirst
  BY DEF TimeoutFirst
<1>9. TimeoutFirst => 2 \in 1..level
  BY <1>2, <1>7
<1>10. Outermost'
  BY <1>1, <1>2, <1>3, <1>7, <1>8, <1>9 DEF Outermost
<1>11. Sole'
  BY <1>2 DEF Sole
<1> QED BY <1>6, <1>10, <1>11 DEF Winners

\* A Timeout makes the context of its inner function and arms its timer.
LEMMA TimeoutCallWins ==
  ASSUME WInv, callTimeout
  PROVE  Winners'
<1> DEFINE n == Len(ctxs)
<1>1. Armed /\ Outermost /\ Sole
  BY DEF WInv, Winners
<1>2. /\ level \in DOMAIN policies /\ Limits(level) /\ phase = "call" /\ policies' = policies
      /\ level' = level + 1 /\ phase' = "call" /\ exec' = [exec EXCEPT ![level + 1] = n + 1]
  BY Zenon DEF callTimeout, callInner, At, policy, Limits
<1>3. /\ n \in Nat /\ DOMAIN ctxs = 1..n /\ DOMAIN ctxs' = 1..(n + 1)
      /\ \A c \in 1..n : ctxs'[c] = ctxs[c]
  BY NewContextFacts, Zenon DEF WInv, EInv
<1> HIDE DEF n
<1>4. level \in Nat /\ level >= 1 /\ exec \in [1..(Len(policies) + 1) -> DOMAIN ctxs]
      /\ level <= Len(policies)
      /\ Len(policies) \in Nat
  BY <1>2, WFacts
<1>5. exec'[level + 1] = n + 1 /\ \A m \in 1..level : exec'[m] = exec[m]
  BY <1>2, <1>4
<1>6. Depth = level /\ Depth' = level + 1
  BY <1>2 DEF Depth
<1>7. Armed'
  <2> SUFFICES ASSUME NEW c \in DOMAIN ctxs', ctxs'[c].timer = "armed"
               PROVE  \E l \in 1..(Depth' - 1) : Limits(l) /\ c = exec'[l + 1]
    <3>1. \A l : Limits(l)' <=> Limits(l)
      BY <1>2 DEF Limits
    <3> QED BY <3>1, Zenon DEF Armed
  <2>1. CASE c = n + 1
    <3>1. level \in 1..(Depth' - 1)
      BY <1>4, <1>6
    <3> QED BY <1>2, <1>5, <2>1, <3>1, Zenon
  <2>2. CASE c # n + 1
    <3>1. c \in DOMAIN ctxs /\ ctxs[c].timer = "armed"
      BY <1>3, <2>2
    <3>2. PICK l \in 1..(Depth - 1) : Limits(l) /\ c = exec[l + 1]
      BY <1>1, <3>1, Zenon DEF Armed
    <3>3. l \in 1..(Depth' - 1) /\ l + 1 \in 1..level
      BY <1>4, <1>6
    <3>4. exec'[l + 1] = exec[l + 1]
      BY <1>5, <3>3
    <3> QED BY <3>2, <3>3, <3>4, Zenon
  <2> QED BY <2>1, <2>2
<1>8. TimeoutFirst' = TimeoutFirst
  BY <1>2 DEF TimeoutFirst
<1>9. level' # 0 /\ level' # 1
  BY <1>2, <1>4
<1>10. ASSUME TimeoutFirst PROVE 2 \in DOMAIN ctxs' /\ exec'[2] = 2
  <2>1. CASE level = 1
    <3>1. DOMAIN ctxs = {1}
      BY <1>1, <1>2, <1>10, <2>1 DEF Outermost
    <3>2. n \in Nat /\ 1..n = {1}
      BY <1>3, <3>1, Zenon
    <3>3. n = 1
      BY <3>2
    <3> QED BY <1>3, <1>5, <2>1, <3>3
  <2>2. CASE level # 1
    <3>1. 2 \in DOMAIN ctxs /\ exec[2] = 2
      BY <1>1, <1>10, <2>2 DEF Outermost
    <3>2. 2 \in 1..level
      BY <1>4, <2>2
    <3> QED BY <1>3, <1>5, <3>1, <3>2
  <2> QED BY <2>1, <2>2
<1>11. Outermost'
  BY <1>8, <1>9, <1>10 DEF Outermost
<1>12. Sole'
  BY <1>9 DEF Sole
<1> QED BY <1>7, <1>11, <1>12 DEF Winners

\* A Timeout returns, with its own error unless its inner function won.
LEMMA TimeoutReturnWins ==
  ASSUME WInv, timeoutReturns
  PROVE  Winners'
<1> DEFINE c == exec[level + 1]
           late == FailureResult("timeout")
<1>1. Armed /\ Outermost /\ Sole
  BY DEF WInv, Winners
<1>2. /\ level \in DOMAIN policies /\ Limits(level) /\ phase = "return" /\ policies' = policies
      /\ level' = level - 1 /\ phase' = "return" /\ exec' = exec
      /\ \/ /\ ctxs[c].timer = "armed" /\ ctxs' = [ctxs EXCEPT ![c].timer = "stopped"]
            /\ result' = PostExecute(policy, result)
         \/ /\ ctxs[c].timer # "armed" /\ ctxs' = ctxs
            /\ result' = PostExecute(policy, late)
  BY Zenon DEF timeoutReturns, return, At, policy, Limits
<1>3. level \in Nat /\ level >= 1 /\ level <= Len(policies) /\ Len(policies) \in Nat /\ c \in DOMAIN ctxs
  BY <1>2, WFacts
<1>4. result \in ResultType /\ late \in ResultType /\ late.err = "timeout"
  BY NewResults, Zenon DEF WInv, EInv, Causes
<1> HIDE DEF late
<1>5. PostExecute(policy, result).err = result.err /\ PostExecute(policy, late).err = "timeout"
  BY <1>4, SameError, ZenonT(30)
<1>6. Depth = level + 1 /\ Depth' = level
  BY <1>2, <1>3 DEF Depth
<1>7. /\ DOMAIN ctxs' = DOMAIN ctxs /\ ctxs'[c].timer # "armed"
      /\ \A d \in DOMAIN ctxs : d # c => ctxs'[d].timer = ctxs[d].timer
      /\ ctxs[c].timer = "armed" => ctxs'[c].timer = "stopped"
      /\ ctxs[c].timer # "armed" => ctxs'[c].timer = ctxs[c].timer
  <2>1. CASE ctxs' = ctxs /\ ctxs[c].timer # "armed"
    BY <2>1
  <2>2. CASE ctxs[c].timer = "armed" /\ ctxs' = [ctxs EXCEPT ![c].timer = "stopped"]
    <3>1. IInv
      BY DEF WInv, EInv
    <3> HIDE DEF c
    <3>2. /\ DOMAIN ctxs' = DOMAIN ctxs
          /\ \A d \in DOMAIN ctxs : ctxs'[d].timer = IF d = c THEN "stopped" ELSE ctxs[d].timer
      BY <1>3, <2>2, <3>1, TimerFacts
    <3>3. c \in DOMAIN ctxs /\ ctxs[c].timer = "armed" /\ "stopped" # "armed"
      BY <1>3, <2>2
    <3> QED BY <3>2, <3>3, Zenon
  <2> QED BY <1>2, <2>1, <2>2
<1>8. Armed'
  <2>1. \A d \in DOMAIN ctxs' : ctxs'[d].timer = "armed" => d \in DOMAIN ctxs /\ ctxs[d].timer = "armed"
    BY <1>7
  <2>2. \A l \in 1..(Depth - 1) : l # level => l \in 1..(Depth' - 1)
    BY <1>3, <1>6
  <2>3. \A l \in 1..(Depth - 1) : ctxs'[exec[l + 1]].timer = "armed" => l # level
    BY <1>7
  <2> QED BY <1>1, <1>2, <2>1, <2>2, <2>3, ArmedKept, Zenon
<1>9. ctxs[c].timer \in {"armed", "won", "fired"}
  <2>1. level \in 1..(Depth - 1)
    BY <1>3, <1>6
  <2> QED BY <1>2, <2>1, Zenon DEF WInv, EInv, Nested
<1>10. TimeoutFirst' = TimeoutFirst
  BY <1>2 DEF TimeoutFirst
<1>11. ASSUME TimeoutFirst
       PROVE  /\ 2 \in DOMAIN ctxs' /\ exec'[2] = 2
              /\ level' = 0 => c = 2
  BY <1>1, <1>2, <1>3, <1>7, <1>11 DEF Outermost
<1>12. ASSUME TimeoutFirst, level' = 0, TimedOut(2)' PROVE result'.err = "timeout"
  <2>1. ctxs[c].timer # "armed"
    BY <1>7, <1>11, <1>12 DEF TimedOut
  <2> QED BY <1>2, <1>5, <2>1
<1>13. Outermost'
  BY <1>2, <1>10, <1>11, <1>12 DEF Outermost
<1>14. ASSUME policies = <<Timeout>> PROVE level' = 0 /\ (result'.err = "timeout" => TimedOut(2)')
  <2>1. TimeoutFirst /\ Len(policies) = 1
    BY <1>14, TimeoutFirstIs
  <2>2. level = 1 /\ level' = 0 /\ c = 2
    BY <1>2, <1>3, <1>11, <2>1
  <2>3. result.err \in FnErrors
    BY <1>1, <1>2, <1>14, <2>2 DEF Sole
  <2>4. result'.err = "timeout" => ctxs[c].timer # "armed"
    BY <1>2, <1>5, <2>3 DEF FnErrors
  <2> QED BY <1>7, <1>9, <2>2, <2>4 DEF TimedOut
<1>15. Sole'
  BY <1>2, <1>14 DEF Sole
<1> QED BY <1>8, <1>13, <1>15 DEF Winners

LEMMA GoroutineWins ==
  ASSUME WInv, Step
  PROVE  Winners'
<1>1. /\ Len(policies) \in Nat /\ DOMAIN policies = 1..Len(policies)
      /\ phase \in {"record", "delay", "retry"} => level \in DOMAIN policies /\ policies[level].kind = "retry"
      /\ phase = "fallback" => level \in DOMAIN policies /\ policies[level].kind = "fallback"
  BY WFacts, Zenon
<1>2. \A kind \in {"retry", "fallback", "breaker", "cache"} : policies[level].kind = kind => ~Limits(level)
  BY DEF Limits
<1>4. ASSUME NEW err \in FnErrors, fnReturns(err) PROVE Winners'
  <2>1. FnResult(err).err \in FnErrors
    BY NewResults, Zenon
  <2> QED BY <1>4, <2>1, ReturnsWins, Zenon DEF fnReturns
<1>5. ASSUME level \in DOMAIN policies, ~Limits(level), UNCHANGED <<policies, ctxs>>, NEW s, return(s)
      PROVE  Winners'
  BY <1>5, ReturnsWins, Zenon
<1>6. ASSUME level \in DOMAIN policies, ~Limits(level), UNCHANGED <<policies, ctxs>>, NEW c, callInner(c),
             phase = "call"
      PROVE  Winners'
  <2>1. level' = level + 1 /\ phase' = "call" /\ exec' = [exec EXCEPT ![level + 1] = c]
    BY <1>6 DEF callInner
  <2> QED BY <1>6, <2>1, CallsWins, Zenon
<1>7. ASSUME UNCHANGED <<policies, ctxs>>, NEW s, NEW next, goOn(next, s),
             \/ phase = "return" /\ next \in {"record", "fallback"} /\ level \in DOMAIN policies
             \/ phase = "record" /\ next = "delay"
             \/ phase = "delay" /\ next = "retry"
             \/ phase = "return" /\ next = "done" /\ level = 0 /\ s = result
             \/ phase = "call" /\ next = "panicked" /\ level = Len(policies) + 1
      PROVE  Winners'
  <2>1. phase' = next /\ result' = s /\ UNCHANGED <<policies, level, exec>>
    BY <1>7 DEF goOn
  <2>2. DOMAIN ctxs' = DOMAIN ctxs /\ \A c \in DOMAIN ctxs : ctxs'[c].timer = ctxs[c].timer
    BY <1>7
  <2> QED BY <1>7, <2>1, <2>2, StaysWins, Zenon
<1>8. CASE fnPanics \/ record
  BY <1>7, <1>8, Zenon DEF fnPanics, record, shared
<1>9. CASE callThrough \/ callBreaker \/ breakerReturns \/ callCache \/ cacheReturns
  <2>1. level \in DOMAIN policies /\ ~Limits(level) /\ UNCHANGED <<policies, ctxs>>
    BY <1>2, <1>9, Zenon DEF callThrough, callBreaker, breakerReturns, callCache, cacheReturns, At, policy,
                             shared
  <2>2. (\E s : return(s)) \/ (phase = "call" /\ \E c : callInner(c))
    BY <1>9, Zenon DEF callThrough, callBreaker, breakerReturns, callCache, cacheReturns, At
  <2> QED BY <1>5, <1>6, <2>1, <2>2, Zenon
<1>10. CASE retryReturns
  <2>1. level \in DOMAIN policies /\ ~Limits(level) /\ UNCHANGED <<policies, ctxs>> /\ phase = "return"
    BY <1>2, <1>10, Zenon DEF retryReturns, At, policy, shared
  <2>2. (\E s : return(s)) \/ \E s : goOn("record", s)
    BY <1>10, Zenon DEF retryReturns, OnFailure
  <2> QED BY <1>5, <1>7, <2>1, <2>2, Zenon
<1>11. CASE RecordResult
  <2>1. level \in DOMAIN policies /\ ~Limits(level) /\ UNCHANGED <<policies, ctxs>> /\ phase = "record"
    BY <1>1, <1>2, <1>11, Zenon DEF RecordResult, shared
  <2>2. (\E s : return(s)) \/ \E s : goOn("delay", s)
    BY <1>11, Zenon DEF RecordResult
  <2> QED BY <1>5, <1>7, <2>1, <2>2, Zenon
<1>12. CASE InitializeRetry
  <2>1. level \in DOMAIN policies /\ ~Limits(level) /\ UNCHANGED <<policies, ctxs>> /\ phase = "delay"
    BY <1>1, <1>2, <1>12, Zenon DEF InitializeRetry, shared
  <2>2. (\E s : return(s)) \/ \E s : goOn("retry", s)
    BY <1>12, Zenon DEF InitializeRetry
  <2> QED BY <1>5, <1>7, <2>1, <2>2, Zenon
<1>14. CASE beginRetry
  <2>1. /\ level \in DOMAIN policies /\ ~Limits(level) /\ UNCHANGED <<policies, ctxs>> /\ phase = "retry"
        /\ level' = level + 1 /\ phase' = "call" /\ exec' = exec
    BY <1>1, <1>2, <1>14, Zenon DEF beginRetry
  <2> QED BY <2>1, CallsWins, Zenon
<1>13. CASE fallbackReturns \/ \E err \in {"none", "fail"} : fallbackFnReturns(err)
  <2>1. level \in DOMAIN policies /\ ~Limits(level) /\ UNCHANGED <<policies, ctxs>>
    BY <1>1, <1>2, <1>13, Zenon DEF fallbackReturns, fallbackFnReturns, At, policy, shared
  <2>2. (\E s : return(s)) \/ (phase = "return" /\ \E s : goOn("fallback", s))
    BY <1>13, Zenon DEF fallbackReturns, fallbackFnReturns, At
  <2> QED BY <1>5, <1>7, <2>1, <2>2, Zenon
<1> QED BY <1>4, <1>8, <1>9, <1>10, <1>11, <1>12, <1>13, <1>14, TimeoutCallWins, TimeoutReturnWins,
           Zenon DEF Step

LEMMA BesideWins ==
  ASSUME WInv,
         \/ \E c \in DOMAIN ctxs : timerFires(c) \/ timerCancels(c)
         \/ \E l \in DOMAIN policies, err \in FnErrors : otherStores(l, err)
         \/ CancelMarks \/ CancelPropagates \/ contextDone \/ UNCHANGED vars
  PROVE  Winners'
<1>1. UNCHANGED <<policies, level, phase, result, exec>>
  BY Zenon DEF timerFires, timerCancels, otherStores, CancelMarks, CancelPropagates, contextDone, goroutine,
               vars
<1>2. IInv /\ 1 \in DOMAIN ctxs
  BY WFacts, Zenon DEF WInv, EInv
<1>3. ASSUME NEW c \in DOMAIN ctxs, NEW cause \in {"Cancel", "context", "timeout"}, Cancelation(c, cause)
      PROVE  Winners'
  <2>1. /\ DOMAIN ctxs' = DOMAIN ctxs
        /\ \A d \in DOMAIN ctxs :
             ctxs'[d].timer = IF cause = "timeout" /\ d = c THEN "fired" ELSE ctxs[d].timer
    BY <1>2, <1>3, CancelEffect, ZenonT(30)
  <2>2. cause = "timeout" => ctxs[c].timer = "won"
    BY <1>3 DEF Cancelation
  <2>3. \A d \in DOMAIN ctxs : \/ ctxs'[d].timer = ctxs[d].timer
                               \/ ctxs[d].timer = "won" /\ ctxs'[d].timer = "fired"
    BY <2>1, <2>2, Zenon
  <2> QED BY <1>1, <2>1, <2>3, StaysWins, Zenon
<1>4. ASSUME NEW c \in DOMAIN ctxs, timerFires(c) PROVE Winners'
  <2>1. ctxs[c].timer = "armed" /\ ctxs' = [ctxs EXCEPT ![c].timer = "won"]
    BY <1>4 DEF timerFires
  <2>2. /\ DOMAIN ctxs' = DOMAIN ctxs
        /\ \A d \in DOMAIN ctxs : ctxs'[d].timer = IF d = c THEN "won" ELSE ctxs[d].timer
    BY <1>2, <2>1, TimerFacts
  <2>3. \A d \in DOMAIN ctxs : \/ ctxs'[d].timer = ctxs[d].timer
                               \/ ctxs[d].timer = "armed" /\ ctxs'[d].timer = "won"
    BY <2>1, <2>2
  <2> QED BY <1>1, <2>2, <2>3, StaysWins, Zenon
<1>5. ASSUME UNCHANGED ctxs PROVE Winners'
  <2>1. DOMAIN ctxs' = DOMAIN ctxs /\ \A c \in DOMAIN ctxs : ctxs'[c].timer = ctxs[c].timer
    BY <1>5
  <2> QED BY <1>1, <2>1, StaysWins, Zenon
<1>6. ASSUME NEW c \in DOMAIN ctxs, timerCancels(c) PROVE Winners'
  BY <1>3, <1>6 DEF timerCancels, Cancelation
<1>7. CASE CancelPropagates \/ contextDone
  BY <1>2, <1>3, <1>7 DEF CancelPropagates, contextDone, Cancelation
<1> QED BY <1>4, <1>5, <1>6, <1>7, Zenon DEF otherStores, CancelMarks, shared, vars

(***************************************************************************)
(* In every composition, exactly one side wins a Timeout: whenever the     *)
(* timer and the inner function of the outermost policy race, the          *)
(* execution's result is the winner's, and no timer stays armed            *)
(* (timeoutexecutor.go: the CompareAndSwap on the result and timer.Stop).  *)
(***************************************************************************)
THEOREM TimeoutsDecided == Spec => []OneSideWins
<1>1. Init => WInv
  <2> SUFFICES ASSUME Init PROVE WInv
    OBVIOUS
  <2>1. EInv /\ Placed
    BY InitialCauses DEF Init, Placed
  <2>2. DOMAIN ctxs = {1} /\ ctxs[1].timer = "none" /\ level = 1 /\ phase = "call"
    BY DEF Init
  <2>3. Armed
    BY <2>2 DEF Armed
  <2>4. Outermost /\ Sole
    BY <2>2 DEF Outermost, Sole
  <2>5. Winners
    BY <2>3, <2>4, Zenon DEF Winners
  <2> QED BY <2>1, <2>5 DEF WInv
<1>2. WInv /\ [Next]_vars => WInv'
  <2> SUFFICES ASSUME WInv, [Next]_vars PROVE WInv'
    OBVIOUS
  <2>1. EInv' /\ Placed'
    BY CausesInductive, StaysPlaced DEF WInv
  <2>2. CASE Step
    BY <2>1, <2>2, GoroutineWins DEF WInv
  <2>3. CASE (Next /\ ~Step) \/ UNCHANGED vars
    <3>1. Winners'
      BY <2>3, BesideWins, Zenon DEF Next, Terminated
    <3> QED BY <2>1, <3>1 DEF WInv
  <2> QED BY <2>2, <2>3
<1>3. ASSUME WInv PROVE OneSideWins
  <2> SUFFICES ASSUME phase = "done" PROVE OneSideWins
    BY DEF OneSideWins
  <2>1. level = 0 /\ ~\E l \in 1..(Depth - 1) : TRUE
    BY <1>3, WFacts DEF Depth
  <2>2. \A c \in DOMAIN ctxs : ctxs[c].timer # "armed"
    BY <1>3, <2>1 DEF WInv, Winners, Armed
  <2>3. Outermost /\ Sole
    BY <1>3 DEF WInv, Winners
  <2> QED BY <2>1, <2>2, <2>3 DEF OneSideWins, Outermost, Sole, TimeoutFirst
<1> QED BY <1>1, <1>2, <1>3, PTL DEF Spec
=============================================================================
