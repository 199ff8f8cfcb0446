---------------------------- MODULE MCRilRequests ----------------------------
(* RilRequests on small instances.                                          *)
EXTENDS RilRequests, TLC

AddrSymmetry == Permutations(Addrs)
==============================================================================
