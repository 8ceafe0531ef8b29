---------------------------- MODULE MCTieredQuota ----------------------------
(* Instances of TieredQuota for TLC.                                       *)
EXTENDS TieredQuota, TLC

TurnSymmetry == Permutations(Turns)
=============================================================================
