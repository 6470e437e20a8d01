---------------------------- MODULE MCHandshake ----------------------------
(* Model-checking instance of Handshake: error codes on both sides of the  *)
(* range 10..20 that stands for an authentication error.                   *)
EXTENDS Handshake

BoundaryCodes == {9, 10, 20, 21}
=============================================================================
