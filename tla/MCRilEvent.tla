----------------------------- MODULE MCRilEvent -----------------------------
(* RilEvent on small instances.                                            *)
EXTENDS RilEvent
=============================================================================
