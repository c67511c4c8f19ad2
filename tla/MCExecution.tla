---------------------------- MODULE MCExecution ----------------------------
(***************************************************************************)
(* Policy compositions for model checking an execution.                    *)
(***************************************************************************)
EXTENDS Execution

Retries(n) == RetryPolicy(n, FALSE, FALSE)

\* Timeouts around and inside retries, with and without maxDuration.
TimeoutStacks ==
  { <<Timeout>>,
    <<Retries(2), Timeout>>,
    <<Timeout, Retries(2)>>,
    <<Timeout, Retries(1), Timeout>>,
    <<Retries(1), Timeout, Retries(1)>>,
    <<RetryPolicy(2, TRUE, TRUE), Timeout>> }

\* Policies that handle each other's results.
HandlerStacks ==
  { <<>>,
    <<Retries(0)>>,
    <<RetryPolicy(-1, TRUE, FALSE)>>,
    <<Retries(1), Retries(2)>>,
    <<Fallback, Retries(1), CircuitBreaker>>,
    <<Retries(1), Fallback>>,
    <<Fallback, Timeout, Retries(1)>>,
    <<Timeout, Fallback, Timeout>>,
    <<CircuitBreaker, RetryPolicy(2, TRUE, FALSE)>> }

\* Caches inside and outside of other policies, with each source of the key.
DefaultCache == CachePolicy("a", "none", {})
CacheStacks ==
  { <<DefaultCache>>,
    <<CachePolicy("a", "", {})>>,
    <<DefaultCache, Retries(1), Timeout>>,
    <<Retries(1), CachePolicy("a", "b", {"fail"})>>,
    <<Timeout, CachePolicy("a", "b", {})>>,
    <<Fallback, DefaultCache, CircuitBreaker>> }

AllStacks == TimeoutStacks \cup HandlerStacks \cup CacheStacks

RetryOnly == { <<Retries(1)>> }
=============================================================================
