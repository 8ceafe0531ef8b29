---------------------------- MODULE MCWebSpending ----------------------------
(* Saves of two messages, for TLC.                                         *)
EXTENDS WebSpending, TLC

CONSTANTS m1, m2, s1, s2

Symmetry == Permutations(Messages) \cup Permutations(Savers)
=============================================================================
