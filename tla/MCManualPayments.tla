--------------------------- MODULE MCManualPayments ---------------------------
(* Instances of ManualPayments for TLC: the receipts users send.           *)
EXTENDS ManualPayments, TLC

CONSTANTS u1, h1, h2, receipt, plan, replan

Send(user, type, amount) == [user |-> user, type |-> type, amount |-> amount]

Receipts ==
    receipt :> Send(u1, "topup", 2)
    @@ plan :> Send(u1, "subscription", 1)
    @@ replan :> Send(u1, "subscription", 3)

MCAsked == [r \in Requests |-> Receipts[r]]

GiftOfOne == [u \in Users |-> 1]

HandlerSymmetry == Permutations(Handlers)
=============================================================================
