----------------------------- MODULE MCUsdWallet -----------------------------
(* A code in dollars, limited per user, and one in Tomans, limited in all, *)
(* for TLC.                                                                *)
EXTENDS UsdWallet, TLC

CONSTANTS u1, dollars, tomans, s1, s2

MCCode ==
    dollars :> [currency |-> "USD", percent |-> FALSE, value |-> 1,
                unlimited |-> TRUE, total |-> 0, perUser |-> 1, expires |-> FALSE] @@
    tomans :> [currency |-> "TOMAN", percent |-> TRUE, value |-> 1,
               unlimited |-> FALSE, total |-> 1, perUser |-> 0, expires |-> FALSE]

SessionSymmetry == Permutations(Sessions)
=============================================================================
