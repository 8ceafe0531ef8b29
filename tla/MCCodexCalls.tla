----------------------------- MODULE MCCodexCalls -----------------------------
(* Instances of CodexCalls for TLC: which turns use which accounts.        *)
EXTENDS CodexCalls, TLC

CONSTANTS text, photo, client, a1, a2

MCKind == [t \in Turns |-> CASE t = photo -> "photo"
                             [] t = client -> "proxy"
                             [] OTHER -> "tools"]

MCCapacity == [a \in Accounts |-> IF a = a1 THEN 2 ELSE 1]
=============================================================================
