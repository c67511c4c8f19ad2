--------------------------- MODULE MCRateLimiter ---------------------------
(***************************************************************************)
(* Configurations and waits for model checking a rate limiter.             *)
(***************************************************************************)
EXTENDS RateLimiter

Limiters == { SmoothBuilderWithMaxRate(3), BurstyBuilder(2, 2) }

\* Refuse at once, wait a little, wait as long as it takes.
SomeWaits == {-1, 0, 3}
=============================================================================
