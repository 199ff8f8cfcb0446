--------------------------- MODULE MCRadioService ---------------------------
(* RadioService on small instances.                                        *)
EXTENDS RadioService
=============================================================================
