---------------------------- MODULE MCRadioState ----------------------------
(* RadioState on small instances.                                          *)
EXTENDS RadioState
=============================================================================
