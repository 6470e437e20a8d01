------------------------------- MODULE MCNet -------------------------------
(* Model-checking instance of Net: the cfg files give the bounds.          *)
EXTENDS Net
=============================================================================
