-------------------------- MODULE MCCircuitBreaker --------------------------
(***************************************************************************)
(* Small instance of CircuitBreaker.  Invocations are interchangeable.     *)
(***************************************************************************)
EXTENDS CircuitBreaker, TLC

InvocationSymmetry == Permutations(Invocations)
=============================================================================
