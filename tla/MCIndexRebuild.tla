-------------------------- MODULE MCIndexRebuild ---------------------------
(* Model-checking instance of IndexRebuild.                                *)
EXTENDS IndexRebuild
=============================================================================
