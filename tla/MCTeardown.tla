------------------------------ MODULE MCTeardown ------------------------------
(* An instance of Teardown for TLC. *)
EXTENDS Teardown, MCBinding

CONSTANTS d1, d2

RequestSymmetry == RetrySymmetry \cup Permutations({d1, d2})
=============================================================================
