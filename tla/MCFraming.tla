----------------------------- MODULE MCFraming -----------------------------
(* Model-checking instance of Framing: the cfg files give the bounds.      *)
EXTENDS Framing
=============================================================================
