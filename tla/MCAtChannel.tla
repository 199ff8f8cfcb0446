---------------------------- MODULE MCAtChannel ----------------------------
(* AtChannel on small instances.                                           *)
EXTENDS AtChannel, TLC

CONSTANTS w1, w2
MCWriters == {w1, w2}
WriterSymmetry == Permutations(MCWriters)
=============================================================================
