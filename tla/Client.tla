------------------------------- MODULE Client -------------------------------
(***************************************************************************)
(* One HTTP request or one gRPC call through an executor                   *)
(* (failsafehttp/http.go, failsafegrpc/client.go), with the merged         *)
(* contexts of its attempts (MergeContexts in internal/util/util.go).      *)
(*                                                                         *)
(* Attempts are run one after the other by the retry policy of failsafehttp*)
(* or failsafegrpc, or next to each other by a hedge policy that takes the *)
(* first result; RetryPolicy and Hedge have the details of both.  The      *)
(* transport reads the body of the request, perhaps still when it has      *)
(* answered, and the caller reads the body of the response.                *)
(***************************************************************************)
EXTENDS Integers, Sequences, Conditions

CONSTANTS Clients,   \* the uses of a client that are checked
          BodyLen    \* bound: the length of a request's body

ASSUME ClientAssumption ==
  /\ Clients \subseteq [transport : {"http", "grpc"}, body : {"none", "copy", "seeker"},
                        request : {"background", "cancelable"},
                        execution : {"background", "cancelable"},
                        hedged : BOOLEAN, attempts : Nat \ {0}]
  /\ BodyLen \in Nat

VARIABLES client,        \* constant: how the client is used
          call,          \* the call: begin, start, running, delay, returned
          next,          \* the next attempt
          winner,        \* the attempt whose outcome is returned; 0: an error of its own
          attempt,       \* each attempt: idle, merged, send, returned
          outcome,       \* each attempt: what it has returned
          requestDone, executionDone,   \* the two contexts: no, canceled, deadline
          losers,        \* attempts whose context the hedge policy has canceled
          using,         \* each attempt's context: request, execution, own
          ownDone,       \* each merged context: no, canceled, deadline, returned
          watching,      \* the goroutines of merged contexts that wait
          position,      \* of a body that attempts share
          sent, reading, \* each attempt: what was read of its body, and is it still read
          overlapped,    \* history: an attempt began while a shared body was read
          response       \* the body of the response: unread, read, failed

contexts == <<requestDone, executionDone, losers, using, ownDone, watching>>
bodies == <<position, sent, reading, overlapped>>
clientVars == <<client, call, next, winner, attempt, outcome, contexts, bodies, response>>

Attempts == 1..client.attempts
Nothing == [result |-> "zero", err |-> "nil"]
Failure(err) == [result |-> "zero", err |-> err]

ClientInit ==
  /\ client \in Clients
  /\ call = "begin" /\ next = 1 /\ winner = 0
  /\ attempt = [i \in Attempts |-> "idle"] /\ outcome = [i \in Attempts |-> Nothing]
  /\ requestDone = "no" /\ executionDone = "no" /\ losers = {}
  /\ using = [i \in Attempts |-> "none"] /\ ownDone = [i \in Attempts |-> "no"] /\ watching = {}
  /\ position = 0 /\ sent = [i \in Attempts |-> <<>>] /\ reading = {} /\ overlapped = FALSE
  /\ response = "unread"

\* The context of attempt i's execution, a child of the execution's if it is hedged.
attemptDone(i) == IF executionDone = "no" /\ i \in losers THEN "canceled" ELSE executionDone

\* The context that the transport has.
transportDone(i) ==
  CASE using[i] = "request" -> requestDone
    [] using[i] = "execution" -> attemptDone(i)
    [] using[i] = "own" -> ownDone[i]
    [] using[i] = "none" -> "no"
-----------------------------------------------------------------------------
\* bodyReader: an io.Reader is read first, and an error ends the call.
bodyReader ==
  /\ call = "begin"
  /\ \/ call' = "start"
     \/ client.body = "copy" /\ call' = "returned"
  /\ UNCHANGED <<client, next, winner, attempt, outcome, contexts, bodies, response>>

\* Mutated MergeContexts: a context of its own in every case.
MergeContextsAlways(i) ==
  /\ using' = [using EXCEPT ![i] = "own"]
  /\ watching' = watching \cup {i}

\* Mutated MergeContexts: the execution's context is used whenever it can be canceled.
MergeContextsOne(i) ==
  /\ using' = [using EXCEPT ![i] = IF client.execution = "background" /\ ~client.hedged
                                   THEN "request" ELSE "execution"]
  /\ UNCHANGED watching

\* A background context leaves the other one as it is; that of a hedged attempt is none.
MergeContexts(i) ==
  IF client.request = "background"
  THEN using' = [using EXCEPT ![i] = "execution"] /\ UNCHANGED watching
  ELSE IF client.execution = "background" /\ ~client.hedged
  THEN using' = [using EXCEPT ![i] = "request"] /\ UNCHANGED watching
  ELSE using' = [using EXCEPT ![i] = "own"] /\ watching' = watching \cup {i}

\* The executor begins an attempt.
begin ==
  /\ call = "start" \/ (call = "running" /\ client.hedged)
  /\ next \in Attempts
  /\ call' = "running"
  /\ MergeContexts(next)
  /\ attempt' = [attempt EXCEPT ![next] = "merged"]
  /\ next' = next + 1
  /\ UNCHANGED <<client, winner, outcome, requestDone, executionDone, losers, ownDone, bodies,
                 response>>

\* Mutated newBody: a body that can be read again is not sought.
newBodyNoSeek(i) ==
  /\ UNCHANGED position
  /\ overlapped' = (overlapped \/ (client.body = "seeker" /\ reading # {}))

\* Seek(0, 0), or a new reader of the bytes that were read.
newBody(i) ==
  /\ position' = 0
  /\ overlapped' = (overlapped \/ (client.body = "seeker" /\ reading # {}))

\* The body of the attempt, and the call of the transport; Seek may fail.
doRequest(i) ==
  /\ attempt[i] = "merged"
  /\ \/ /\ attempt' = [attempt EXCEPT ![i] = "send"]
        /\ reading' = IF client.body = "none" THEN reading ELSE reading \cup {i}
        /\ newBody(i)
        /\ UNCHANGED <<outcome, ownDone>>
     \/ /\ client.body = "seeker"
        /\ attempt' = [attempt EXCEPT ![i] = "returned"]
        /\ outcome' = [outcome EXCEPT ![i] = Failure("refused")]
        /\ ownDone' = [ownDone EXCEPT ![i] = IF using[i] = "own" /\ @ = "no" THEN "returned" ELSE @]
        /\ UNCHANGED <<position, reading, overlapped>>
  /\ UNCHANGED <<client, call, next, winner, requestDone, executionDone, losers, using, watching, sent,
                 response>>

\* The transport reads on in the body, or is done with it.
readBody(i) ==
  /\ i \in reading
  /\ LET at == IF client.body = "seeker" THEN position ELSE Len(sent[i])
     IN \/ /\ at < BodyLen
           /\ sent' = [sent EXCEPT ![i] = Append(@, at)]
           /\ position' = IF client.body = "seeker" THEN position + 1 ELSE position
           /\ UNCHANGED reading
        \/ /\ reading' = reading \ {i}
           /\ UNCHANGED <<sent, position>>
  /\ UNCHANGED <<client, call, next, winner, attempt, outcome, contexts, overlapped, response>>

\* The error of a context that is done: Err, or the cause of a merged one.
contextErrors(i) ==
  LET errs == IF using[i] = "own" THEN {"canceled", ownDone[i]} ELSE {transportDone(i)}
  IN IF client.transport = "http" THEN errs
     ELSE {IF e = "canceled" THEN "canceledStatus" ELSE "deadlineStatus" : e \in errs}

\* What the transport gives: an answer, an error, or the error of its context.
outcomes(i) ==
  (IF client.transport = "http"
   THEN {[result |-> "ok", err |-> "nil"], [result |-> "r500", err |-> "nil"]}
   ELSE {[result |-> "ok", err |-> "nil"], Failure("unavailable")})
  \cup (IF transportDone(i) = "no" THEN {} ELSE {Failure(e) : e \in contextErrors(i)})

\* The transport returns, and cancel(nil) is deferred.
return(i, o) ==
  /\ attempt[i] = "send" /\ o \in outcomes(i)
  /\ attempt' = [attempt EXCEPT ![i] = "returned"]
  /\ outcome' = [outcome EXCEPT ![i] = o]
  /\ ownDone' = [ownDone EXCEPT ![i] = IF using[i] = "own" /\ @ = "no" THEN "returned" ELSE @]
  /\ UNCHANGED <<client, call, next, winner, requestDone, executionDone, losers, using, watching, bodies,
                 response>>
-----------------------------------------------------------------------------
\* What the retry policy handles, and what aborts it.
failed(o) == IF client.transport = "http" THEN httpRetry(o.result, o.err) ELSE grpcRetry(o.err)
aborts(o) == client.transport = "http" /\ Is(o.err, "canceled")

(***************************************************************************)
(* The retry policy, when its attempt has returned.  A failure of the last *)
(* attempt is an ExceededError, without the response.                      *)
(***************************************************************************)
retry ==
  /\ call = "running" /\ ~client.hedged
  /\ next > 1 /\ attempt[next - 1] = "returned"
  /\ LET o == outcome[next - 1]
     IN \/ executionDone # "no" /\ call' = "returned" /\ winner' = 0
        \/ /\ executionDone = "no" /\ failed(o) /\ ~aborts(o) /\ next \in Attempts
           /\ call' = "delay" /\ UNCHANGED winner
        \/ /\ executionDone = "no" /\ failed(o) /\ next \notin Attempts
           /\ call' = "returned" /\ winner' = 0
        \/ /\ executionDone = "no" /\ (~failed(o) \/ (aborts(o) /\ next \in Attempts))
           /\ call' = "returned" /\ winner' = next - 1
  /\ UNCHANGED <<client, next, attempt, outcome, contexts, bodies, response>>

\* The delay ends by itself or by the execution's context.
delayEnds ==
  /\ call = "delay"
  /\ call' = IF executionDone = "no" THEN "start" ELSE "returned"
  /\ UNCHANGED <<client, next, winner, attempt, outcome, contexts, bodies, response>>

\* Mutated hedge: the other attempts run on.
hedgeAlone(i) ==
  /\ call = "running" /\ client.hedged /\ attempt[i] = "returned"
  /\ call' = "returned"
  /\ winner' = IF executionDone = "no" THEN i ELSE 0
  /\ UNCHANGED <<client, next, attempt, outcome, contexts, bodies, response>>

\* The hedge policy takes a result and cancels the other attempts.
hedge(i) ==
  /\ call = "running" /\ client.hedged /\ attempt[i] = "returned"
  /\ call' = "returned"
  /\ winner' = IF executionDone = "no" THEN i ELSE 0
  /\ losers' = IF executionDone = "no" THEN (1..(next - 1)) \ {i} ELSE losers
  /\ UNCHANGED <<client, next, attempt, outcome, requestDone, executionDone, using, ownDone, watching,
                 bodies, response>>

\* The goroutine of a merged context.
watch(i) ==
  /\ i \in watching
  /\ \E cause \in {requestDone, attemptDone(i)} \ {"no"} :
       ownDone' = [ownDone EXCEPT ![i] = IF @ = "no" THEN cause ELSE @]
  /\ watching' = watching \ {i}
  /\ UNCHANGED <<client, call, next, winner, attempt, outcome, requestDone, executionDone, losers, using,
                 bodies, response>>

\* The caller reads the body of the response, which needs the attempt's context.
readResponse ==
  /\ call = "returned" /\ winner # 0 /\ client.transport = "http" /\ outcome[winner].err = "nil"
  /\ response = "unread"
  /\ response' = IF transportDone(winner) = "no" THEN "read" ELSE "failed"
  /\ UNCHANGED <<client, call, next, winner, attempt, outcome, contexts, bodies>>

requestEnds(why) ==
  /\ client.request = "cancelable" /\ requestDone = "no" /\ requestDone' = why
  /\ UNCHANGED <<client, call, next, winner, attempt, outcome, executionDone, losers, using, ownDone,
                 watching, bodies, response>>

executionEnds(why) ==
  /\ client.execution = "cancelable" /\ executionDone = "no" /\ executionDone' = why
  /\ UNCHANGED <<client, call, next, winner, attempt, outcome, requestDone, losers, using, ownDone,
                 watching, bodies, response>>

ClientProgram ==
  \/ bodyReader \/ begin \/ retry \/ delayEnds
  \/ \E i \in Attempts : doRequest(i) \/ hedge(i) \/ watch(i)

ClientTerminated == call = "returned" /\ UNCHANGED clientVars

ClientNext ==
  \/ ClientProgram
  \/ \E i \in Attempts : readBody(i) \/ \E o \in outcomes(i) : return(i, o)
  \/ readResponse
  \/ \E why \in {"canceled", "deadline"} : requestEnds(why) \/ executionEnds(why)
  \/ ClientTerminated

ClientSpec == ClientInit /\ [][ClientNext]_clientVars

(***************************************************************************)
(* The program runs, delays pass, and a transport returns once its context *)
(* is done.  No server has to answer and no context has to end.            *)
(***************************************************************************)
ClientFairSpec ==
  /\ ClientSpec
  /\ WF_clientVars(ClientProgram)
  /\ WF_clientVars(\E i \in Attempts : \E o \in outcomes(i) : transportDone(i) # "no" /\ return(i, o))
-----------------------------------------------------------------------------
Done == {"no", "canceled", "deadline"}

ClientTypeOK ==
  /\ client \in Clients
  /\ call \in {"begin", "start", "running", "delay", "returned"}
  /\ next \in 1..(client.attempts + 1) /\ winner \in 0..(next - 1)
  /\ attempt \in [Attempts -> {"idle", "merged", "send", "returned"}]
  /\ outcome \in [Attempts -> [result : Results, err : Errors]]
  /\ requestDone \in Done /\ executionDone \in Done /\ losers \subseteq Attempts
  /\ using \in [Attempts -> {"none", "request", "execution", "own"}]
  /\ ownDone \in [Attempts -> Done \cup {"returned"}] /\ watching \subseteq Attempts
  /\ position \in 0..BodyLen /\ reading \subseteq Attempts /\ overlapped \in BOOLEAN
  /\ \A i \in Attempts : sent[i] \in Seq(0..BodyLen)
  /\ response \in {"unread", "read", "failed"}

(***************************************************************************)
(* Every attempt sends the body from its beginning and without gaps,       *)
(* whatever attempts before it or next to it have read, when each has a    *)
(* reader of its own; a body that is sought is only as good when no        *)
(* transport still reads it as another attempt begins.                     *)
(***************************************************************************)
BodyWhole ==
  client.body = "copy" \/ ~overlapped =>
    \A i \in Attempts : sent[i] = [k \in 1..Len(sent[i]) |-> k - 1]

(***************************************************************************)
(* When one of the two contexts is a background context, the response that *)
(* is returned can be read although its attempt is over and the others     *)
(* were canceled: only the end of the caller's own contexts prevents it.   *)
(***************************************************************************)
ResponseReadable ==
  client.request = "background" \/ (client.execution = "background" /\ ~client.hedged) =>
    (response = "failed" => requestDone # "no" \/ executionDone # "no")

\* Canceling the context of the request or that of the executor, in any phase,
\* ends the call, whichever of the two the transport has been given.
CanceledRequestEnds == requestDone # "no" \/ executionDone # "no" ~> call = "returned"

\* Once a hedged call has returned, the other attempts and the goroutines of
\* their contexts end, although the contexts of the caller live on.
LosersReleased ==
  call = "returned" /\ winner # 0 ~>
    \A i \in Attempts \ {winner} : attempt[i] # "send" /\ (client.hedged => i \notin watching)
=============================================================================
