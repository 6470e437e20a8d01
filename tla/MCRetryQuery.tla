---------------------------- MODULE MCRetryQuery ----------------------------
(* Model-checking instance of RetryQuery.  Actors other than the root are  *)
(* interchangeable.                                                        *)
EXTENDS RetryQuery, TLC

Symmetry == Permutations(Actor \ {Root})
=============================================================================
