---------------------------- MODULE MCMasterWal ----------------------------
(* Instances of MasterWal for TLC.                                         *)
EXTENDS MasterWal, TLC

CONSTANTS w1, w2, w3

MCWrites == {w1, w2, w3}
WriteSymmetry == Permutations(MCWrites)
=============================================================================
