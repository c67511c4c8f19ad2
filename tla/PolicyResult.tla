---------------------------- MODULE PolicyResult ----------------------------
(***************************************************************************)
(* The result that policies hand to each other (common/result.go,          *)
(* internal/execution.go).  err is "none" for a result without error;      *)
(* exceeded says that the error is an ExceededError around err.            *)
(***************************************************************************)

FailureResult(err) ==
  [err |-> err, exceeded |-> FALSE, done |-> TRUE, success |-> FALSE, successAll |-> FALSE]

Nil == FailureResult("nil")

\* Mutated WithDone: the policies inside are forgotten.
WithDoneForgets(r, done, success) ==
  [r EXCEPT !.done = done, !.success = success, !.successAll = success]

WithDone(r, done, success) ==
  [r EXCEPT !.done = done, !.success = success, !.successAll = success /\ @]

WithFailure(r) == [r EXCEPT !.success = FALSE, !.successAll = FALSE]

\* What a function's return becomes: a policy has not judged it yet.
FnResult(err) ==
  [err |-> err, exceeded |-> FALSE, done |-> TRUE, success |-> TRUE, successAll |-> TRUE]

ResultsOf(errs) ==
  [err : errs, exceeded : BOOLEAN, done : BOOLEAN, success : BOOLEAN, successAll : BOOLEAN]
=============================================================================
