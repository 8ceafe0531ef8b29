------------------------------ MODULE CreditBook ------------------------------
(***************************************************************************)
(* What the Toman billing service promises: a user has a gift balance and  *)
(* a paid balance; every external event moves them at most once; every     *)
(* move starts from the balances as they stand; a purchase pays its wallet *)
(* part from the paid balance; a usage spends gift credit before paid      *)
(* credit; and no balance is overdrawn.                                    *)
(***************************************************************************)
EXTENDS Integers

CONSTANTS
    Users,
    Topups, Purchases, Usages,   \* external events that can be told apart
    NoKey,       \* a top-up or a usage without an idempotency key
    Amounts,     \* sums of money that may move
    OpeningGift, OpeningPaid   \* balances to start from, by user

VARIABLES
    gift,        \* gift balance, by user
    paid,        \* paid balance, by user
    applied      \* events that have moved a balance

bookVars == <<gift, paid, applied>>

BookInit ==
    /\ gift = OpeningGift
    /\ paid = OpeningPaid
    /\ applied = {}

(* An event is applied once; an event without a key cannot be recognised.  *)
Once(k) ==
    /\ k \notin applied
    /\ applied' = (applied \cup {k}) \ {NoKey}

Credit(u, k, amount) ==
    /\ Once(k)
    /\ paid' = [paid EXCEPT ![u] = @ + amount]
    /\ UNCHANGED gift

Buy(u, k, wallet, bonus) ==
    /\ Once(k)
    /\ wallet <= paid[u]
    /\ paid' = [paid EXCEPT ![u] = @ - wallet]
    /\ gift' = [gift EXCEPT ![u] = @ + bonus]

Spend(u, k, fromGift, fromPaid) ==
    /\ Once(k)
    /\ fromGift <= gift[u] /\ fromPaid <= paid[u]
    /\ fromPaid > 0 => fromGift = gift[u]
    /\ gift' = [gift EXCEPT ![u] = @ - fromGift]
    /\ paid' = [paid EXCEPT ![u] = @ - fromPaid]

BookNext ==
    \E u \in Users, a, b \in Amounts :
        \/ \E k \in Topups \cup {NoKey} : Credit(u, k, a)
        \/ \E k \in Purchases : Buy(u, k, a, b)
        \/ \E k \in Usages \cup {NoKey} : Spend(u, k, a, b)

BookSpec == BookInit /\ [][BookNext]_bookVars
=============================================================================
