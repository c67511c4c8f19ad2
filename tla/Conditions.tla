----------------------------- MODULE Conditions -----------------------------
(***************************************************************************)
(* Which outcomes a policy handles, and which abort it (policy/policy.go), *)
(* with the matching of errors by type (internal/util/util.go), and the    *)
(* conditions and the delays of the HTTP and gRPC retry policies           *)
(* (failsafehttp/policy.go, failsafegrpc/policy.go).                       *)
(*                                                                         *)
(* An outcome is a result and an error.  Results and errors are names.     *)
(* Unwrap gives the errors that an error wraps, TypeOf its type.           *)
(***************************************************************************)
EXTENDS Integers

Unwrap == [
  nil          |-> {},
  refused      |-> {},             canceled     |-> {},          deadline    |-> {},
  wrapped      |-> {"refused"},    joined       |-> {"canceled", "wrapped"},
  urlRefused   |-> {"refused"},    urlCanceled  |-> {"canceled"},
  scheme       |-> {},             urlScheme    |-> {"scheme"},  urlRedirects |-> {},
  authority    |-> {},             urlAuthority |-> {"authority"},  urlCertificate |-> {},
  verification |-> {"authority"},  urlVerification |-> {"verification"},
  unavailable  |-> {},             invalid      |-> {},
  canceledStatus |-> {},           deadlineStatus |-> {} ]

TypeOf(err) ==
  CASE err \in {"refused"} -> "errno"
    [] err \in {"urlRefused", "urlCanceled", "urlScheme", "urlRedirects", "urlAuthority",
                "urlCertificate", "urlVerification"} -> "urlError"
    [] err \in {"wrapped", "joined"} -> "wrapError"
    [] err = "authority" -> "unknownAuthority"
    [] err \in {"unavailable", "invalid", "canceledStatus", "deadlineStatus"} -> "status"
    [] OTHER -> "errorString"

Types == {"errno", "urlError", "wrapError", "unknownAuthority", "status", "errorString"}
Errors == DOMAIN Unwrap
Results == {"zero", "ok", "bad", "r404", "r429", "r429after2", "r500", "r501", "r503after3", "r503afterX"}

\* errors.Is
Is(err, target) ==
  LET is[e \in Errors] == e = target \/ \E cause \in Unwrap[e] : is[cause]
  IN is[err]

errorAs(err, type) ==
  LET as[e \in Errors] == TypeOf(e) = type \/ \E cause \in Unwrap[e] : as[cause]
  IN as[err]

ErrorTypesMatch(err, type) == err # "nil" /\ errorAs(err, type)
-----------------------------------------------------------------------------
(***************************************************************************)
(* The conditions of the HTTP retry policy, of the gRPC retry policy, and  *)
(* two of a user.                                                          *)
(***************************************************************************)
httpRetry(result, err) ==
  \/ /\ err # "nil"
     /\ err \notin {"scheme", "urlScheme"}
     /\ ~(/\ TypeOf(err) = "urlError"
          /\ err \in {"urlCertificate", "urlRedirects"} \/ "authority" \in Unwrap[err])
  \/ err = "nil" /\ result \in {"r429", "r429after2", "r500", "r503after3", "r503afterX"}

statusCode == [unavailable |-> "Unavailable", invalid |-> "InvalidArgument",
               canceledStatus |-> "Canceled", deadlineStatus |-> "DeadlineExceeded"]
retryableStatusCodes == {"Unavailable", "DeadlineExceeded", "ResourceExhausted"}
grpcRetry(err) == err \in DOMAIN statusCode /\ statusCode[err] \in retryableStatusCodes

Predicate(name, result, err) ==
  CASE name = "http" -> httpRetry(result, err)
    [] name = "grpc" -> grpcRetry(err)
    [] name = "isBad" -> result = "bad"
    [] name = "isCanceled" -> err = "canceled"

(***************************************************************************)
(* A policy's conditions.  errorsChecked says that one of them looks at    *)
(* errors, and takes the place of the default one.                         *)
(***************************************************************************)
NoConditions == [failure |-> {}, errorsChecked |-> FALSE, abort |-> {}]

HandleErrors(p, errs) ==
  [p EXCEPT !.failure = @ \cup {[kind |-> "error", of |-> e] : e \in errs}, !.errorsChecked = TRUE]

HandleErrorTypes(p, types) ==
  [p EXCEPT !.failure = @ \cup {[kind |-> "type", of |-> t] : t \in types}, !.errorsChecked = TRUE]

\* Mutated HandleResult: it counts as a condition on errors.
HandleResultChecks(p, result) ==
  [p EXCEPT !.failure = @ \cup {[kind |-> "result", of |-> result]}, !.errorsChecked = TRUE]

HandleResult(p, result) == [p EXCEPT !.failure = @ \cup {[kind |-> "result", of |-> result]}]

HandleIf(p, name) ==
  [p EXCEPT !.failure = @ \cup {[kind |-> "if", of |-> name]}, !.errorsChecked = TRUE]

AbortOnErrors(p, errs) == [p EXCEPT !.abort = @ \cup {[kind |-> "error", of |-> e] : e \in errs}]
AbortOnErrorTypes(p, types) == [p EXCEPT !.abort = @ \cup {[kind |-> "type", of |-> t] : t \in types}]
AbortOnResult(p, result) == [p EXCEPT !.abort = @ \cup {[kind |-> "result", of |-> result]}]
AbortIf(p, name) == [p EXCEPT !.abort = @ \cup {[kind |-> "if", of |-> name]}]

matches(c, result, err) ==
  CASE c.kind = "error" -> Is(err, c.of)
    [] c.kind = "type" -> ErrorTypesMatch(err, c.of)
    [] c.kind = "result" -> result = c.of
    [] c.kind = "if" -> Predicate(c.of, result, err)

AppliesToAny(conditions, result, err) == \E c \in conditions : matches(c, result, err)

IsFailure(p, result, err) ==
  IF p.failure = {} THEN err # "nil"
  ELSE AppliesToAny(p.failure, result, err) \/ (err # "nil" /\ ~p.errorsChecked)

IsAbortable(p, result, err) == AppliesToAny(p.abort, result, err)

(***************************************************************************)
(* DelayFunc of failsafehttp: the Retry-After header of a 429 or 503       *)
(* response, if it is a number of seconds; NoDelay is -1.                  *)
(***************************************************************************)
NoDelay == -1
httpDelay(result) ==
  CASE result = "r429after2" -> 2 [] result = "r503after3" -> 3 [] OTHER -> NoDelay
=============================================================================
