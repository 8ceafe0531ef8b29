----------------------------- MODULE MCCodexPools -----------------------------
(* Instances of CodexPools for TLC.                                        *)
EXTENDS CodexPools, TLC

CONSTANTS u1, u2, x1, x2, x3

RowSymmetry == Permutations(Users) \cup Permutations(Subs)
=============================================================================
