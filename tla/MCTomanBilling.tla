---------------------------- MODULE MCTomanBilling ----------------------------
(* Instances of TomanBilling for TLC: what the external events ask for.    *)
EXTENDS TomanBilling, TLC

CONSTANTS u1, u2, s1, s2, buy, rebuy, top, web, chat, rechat, voice, index

Ask(op, user, amount) ==
    [op |-> op, user |-> user, amount |-> amount, gift |-> 0, wallet |-> 0,
     confirmed |-> FALSE, grant |-> FALSE, keyed |-> op # "index"]

(* A plan of 3 with a gift of 2: bought with 1 from the wallet and the     *)
(* gift granted (web), or paid in full by invoice and not granted (bot).   *)
WebPurchase(user) ==
    [Ask("purchase", user, 3) EXCEPT !.gift = 2, !.wallet = 1,
                                     !.confirmed = TRUE, !.grant = TRUE]
BotPurchase(user) ==
    [Ask("purchase", user, 3) EXCEPT !.gift = 2, !.confirmed = TRUE]

WebTopup(user) == [Ask("topup", user, 2) EXCEPT !.keyed = FALSE]

AllRequests ==
    buy :> WebPurchase(u1) @@ rebuy :> BotPurchase(u1)
    @@ top :> Ask("topup", u1, 2) @@ web :> WebTopup(u1)
    @@ chat :> Ask("chat", u1, 1) @@ voice :> Ask("voice", u1, 1)
    @@ rechat :> Ask("chat", u1, 1) @@ index :> Ask("index", u1, 1)

MCRequests == [k \in Keys |-> AllRequests[k]]

(* The same with a second user, who buys the last place of the pool.       *)
SharedRequests ==
    [k \in Keys |-> IF k = rebuy THEN BotPurchase(u2)
                    ELSE IF k = voice THEN Ask("topup", u2, 1)
                    ELSE AllRequests[k]]

NoBalance == [u \in Users |-> [gift |-> 0, paid |-> 0]]
SomeBalance == [u \in Users |-> [gift |-> 1, paid |-> 3]]

OnePlace == [p \in Pools |-> 1]
TwoPlaces == [p \in Pools |-> 2]

SessionSymmetry == Permutations(Sessions)
=============================================================================
