------------------------------ MODULE MCHedge ------------------------------
(***************************************************************************)
(* Hedge policies for model checking.                                      *)
(***************************************************************************)
EXTENDS Hedge

Cancelers == {"Cancel", "context", "timeout"}

\* The default, no hedges at all, and one result or another that cancels.
PlainHedges ==
  { CanceledBy(Build(BuilderWithDelay), Cancelers),
    CanceledBy(Build(WithMaxHedges(BuilderWithDelay, 0)), Cancelers),
    CanceledBy(Build(WithMaxHedges(CancelOn(BuilderWithDelay, {"none"}), 2)), {"Cancel"}),
    CanceledBy(Build(WithMaxHedges(CancelOn(BuilderWithDelay, {"fail"}), 2)), {"timeout"}) }

\* Hedges around a RetryPolicy that allows one retry or none.
HedgedRetries ==
  { CanceledBy(Build(Around(BuilderWithDelay, 1)), {"timeout"}),
    CanceledBy(Build(Around(CancelOn(BuilderWithDelay, {"none"}), 1)), {"Cancel"}),
    CanceledBy(Build(Around(BuilderWithDelay, 0)), {"Cancel"}) }

AllPolicies == PlainHedges \cup HedgedRetries
=============================================================================
