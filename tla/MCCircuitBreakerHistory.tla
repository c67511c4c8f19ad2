---------------------- MODULE MCCircuitBreakerHistory ----------------------
(***************************************************************************)
(* The circuit breaker with its history, for the configurations of         *)
(* MCCircuitBreaker.                                                       *)
(***************************************************************************)
EXTENDS MCCircuitBreaker, CircuitBreakerHistory
=============================================================================
