--------------------------- MODULE MCRetryPolicy ---------------------------
(***************************************************************************)
(* Uses of the builder for model checking.                                 *)
(***************************************************************************)
EXTENDS RetryPolicy, SequencesExt

Use(builder, calls, outcomes) == [builder |-> builder, calls |-> calls, outcomes |-> outcomes]
Fails == {[result |-> "zero", err |-> "refused"]}

\* One is 4: the factors are 1.5 and 2.
DelayCalls ==
  { [op |-> "WithDelay", d |-> 2],
    [op |-> "WithDelay", d |-> 0],
    [op |-> "WithBackoffFactor", d |-> 1, max |-> 4, factor |-> 8],
    [op |-> "WithBackoffFactor", d |-> 3, max |-> 2, factor |-> 6],
    [op |-> "WithRandomDelay", min |-> 1, max |-> 3],
    [op |-> "WithRandomDelay", min |-> 0, max |-> 2] }
OtherCalls ==
  { <<>>,
    <<[op |-> "WithDelayFunc", name |-> "any"]>>,
    <<[op |-> "WithJitter", d |-> 2]>>,
    <<[op |-> "WithJitterFactor", d |-> 2]>>,
    <<[op |-> "WithDelayFunc", name |-> "any"], [op |-> "WithJitterFactor", d |-> 2]>>,
    <<[op |-> "WithJitter", d |-> 1], [op |-> "WithMaxDuration", d |-> 4]>>,
    <<[op |-> "WithMaxDuration", d |-> 5], [op |-> "WithMaxRetries", n |-> -1]>> }

\* Up to two calls that set a delay, then others.
DelayUses ==
  {Use("retrypolicy", a \o b, Fails) : a \in BoundedSeq(DelayCalls, 2), b \in OtherCalls}

\* Long and rounded backoff delays, and both kinds of jitter.
Backoff(d, limit, factor) ==
  <<[op |-> "WithBackoffFactor", d |-> d, max |-> limit, factor |-> factor], [op |-> "WithMaxRetries", n |-> 4]>>
Jitters == [op : {"WithJitter"}, d : {0, 9}] \cup [op : {"WithJitterFactor"}, d : {1, 3}]
LongUses ==
  {Use("retrypolicy", Backoff(d, limit, factor) \o b, Fails) :
     d \in {1, 3, 9}, limit \in {7, 40}, factor \in {4, 6, 8},
     b \in {<<>>, <<[op |-> "WithDelayFunc", name |-> "any"]>>}}
  \cup {Use("retrypolicy", <<[op |-> "WithDelay", d |-> 9]>> \o b, Fails) : b \in BoundedSeq(Jitters, 2)}

ConditionCalls ==
  { [op |-> "HandleErrors", errs |-> {"refused"}],
    [op |-> "HandleErrors", errs |-> {}],
    [op |-> "HandleErrorTypes", types |-> {"errno"}],
    [op |-> "HandleErrorTypes", types |-> {"wrapError", "status"}],
    [op |-> "HandleResult", result |-> "bad"],
    [op |-> "HandleIf", name |-> "isBad"],
    [op |-> "AbortOnErrors", errs |-> {"canceled"}],
    [op |-> "AbortOnErrorTypes", types |-> {"errno"}],
    [op |-> "AbortOnResult", result |-> "bad"],
    [op |-> "AbortIf", name |-> "isCanceled"] }
PlainOutcomes ==
  [result : {"zero", "bad"}, err : {"nil", "refused", "canceled", "wrapped", "joined", "unavailable"}]
ConditionUses == {Use("retrypolicy", calls, PlainOutcomes) : calls \in BoundedSeq(ConditionCalls, 2)}

HttpOutcomes ==
  [result : {"zero"}, err : {e \in Errors : TypeOf(e) = "urlError"} \cup {"scheme", "canceled"}]
  \cup [result : Results \ {"zero", "bad"}, err : {"nil"}]
GrpcOutcomes == [result : {"zero", "ok"}, err : {"nil", "refused", "unavailable", "invalid"}]

LimitUses ==
  {Use("retrypolicy", <<[op |-> op, n |-> n]>>, Fails) :
     op \in {"WithMaxAttempts", "WithMaxRetries"}, n \in {-2, -1, 0, 1, 3}}
  \cup {Use("http", <<[op |-> "WithDelay", d |-> 1]>>, HttpOutcomes),
        Use("http", <<[op |-> "WithMaxAttempts", n |-> 2], [op |-> "HandleResult", result |-> "r404"]>>,
            HttpOutcomes),
        Use("grpc", <<>>, GrpcOutcomes)}

AllUses == DelayUses \cup LongUses \cup ConditionUses \cup LimitUses
=============================================================================
