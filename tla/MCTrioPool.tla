----------------------------- MODULE MCTrioPool -----------------------------
(* Model-checking instance of TrioPool.                                    *)
EXTENDS TrioPool
=============================================================================
