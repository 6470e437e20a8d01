----------------------------- MODULE MCAsyncio ------------------------------
(* Model-checking instance of Asyncio; the tasks are interchangeable.      *)
EXTENDS Asyncio, TLC

Symmetry == Permutations(Task)
=============================================================================
