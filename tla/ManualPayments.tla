---------------------------- MODULE ManualPayments ----------------------------
(***************************************************************************)
(* Card-to-card payments: a user sends a receipt, a reviewer approves or   *)
(* rejects it (pbozi/backend/app/payment_routes.py), from the admin panel  *)
(* or from the transactions bot, which calls the same routes over HTTP     *)
(* with a timeout of its own.  A review clicked twice, or again after a    *)
(* timeout, is therefore a second handler on the same request.             *)
(*                                                                         *)
(* Each handler is one database session.  It selects the request, then the *)
(* account, both without a lock, and only its commits are atomic.  The     *)
(* approval of a subscription commits twice: the purchase first            *)
(* (toman_billing_service.purchase_toman_subscription), the review after.  *)
(*                                                                         *)
(* An operator that stands just before another one and that no definition  *)
(* uses is a faulty variant of it.                                         *)
(***************************************************************************)
EXTENDS Integers, Sequences, FiniteSets

CONSTANTS
    Users,
    Requests,     \* ids of payment_requests
    NoRequest,
    Handlers,     \* reviews in progress at once
    Asked,        \* [Requests -> Request]
    OpeningGift   \* [Users -> Nat]: gift balance to start from

(* amount is the top-up to credit, or the gift of the plan paid for.       *)
Request == [user : Users, type : {"topup", "subscription"}, amount : Nat]

ASSUME AskedAssumption ==
    /\ Asked \in [Requests -> Request]
    /\ \A r \in Requests : Asked[r].type = "topup" => Asked[r].amount > 0
ASSUME OpeningGiftAssumption == OpeningGift \in [Users -> Nat]
ASSUME NoRequestAssumption == NoRequest \notin Requests
ASSUME HandlersAssumption == IsFiniteSet(Handlers)

VARIABLES
    account,   \* gift and paid balance, by user
    ledger,    \* toman_ledger_entries, in commit order
    live,      \* requests whose subscription is active and unexpired
    status,    \* payment_requests.status; "none" before the receipt is sent
    reviews,   \* admin_actions on payment requests, in commit order
    handler    \* what each handler has read so far

paymentVars == <<account, ledger, live, status, reviews, handler>>

Balances == [gift : Int, paid : Int]

LedgerRow == [request : Requests,
              kind : {"manual_payment", "subscription_payment",
                      "subscription_gift_credit"},
              giftDelta : Int, paidDelta : Int, giftAfter : Int, paidAfter : Int]

Review == [request : Requests, decision : {"approve", "reject"}]

(* "approving": the request was pending when selected; "crediting" and     *)
(* "purchasing": the account is selected too; "granted": the purchase is   *)
(* committed, or was found committed.                                      *)
HandlerState ==
    [pc : {"idle", "approving", "crediting", "purchasing", "granted", "rejecting"},
     request : Requests \cup {NoRequest}, row : Balances]

Idle == [pc |-> "idle", request |-> NoRequest, row |-> [gift |-> 0, paid |-> 0]]

TypeOK ==
    /\ account \in [Users -> Balances]
    /\ ledger \in Seq(LedgerRow)
    /\ live \subseteq Requests
    /\ status \in [Requests -> {"none", "pending", "approved", "rejected"}]
    /\ reviews \in Seq(Review)
    /\ handler \in [Handlers -> HandlerState]

-----------------------------------------------------------------------------
User(r) == Asked[r].user
IsTopup(r) == Asked[r].type = "topup"
Amount(r) == Asked[r].amount

RowsOf(r, kind) == {i \in DOMAIN ledger : ledger[i].request = r /\ ledger[i].kind = kind}

(* The purchase is keyed by the request id, the credit of a top-up is not. *)
GrantForgotten(r) == FALSE
SubscribedAlready(r) == \E x \in live : User(x) = User(r)
Granted(r) == RowsOf(r, "subscription_gift_credit") # {}

HasLiveSubscription(u) == \E r \in live : User(r) = u

(* An ORM flush writes the columns that differ from the loaded row.        *)
Flush(current, loaded, changed) ==
    [c \in {"gift", "paid"} |->
        IF changed[c] = loaded[c] THEN current[c] ELSE changed[c]]

Credited(row, r) == [row EXCEPT !.paid = @ + Amount(r)]
Gifted(row, r) == [row EXCEPT !.gift = @ + Amount(r)]

ManualRowWithoutDelta(r, row) ==
    [request |-> r, kind |-> "manual_payment",
     giftDelta |-> 0, paidDelta |-> 0,
     giftAfter |-> 0, paidAfter |-> row.paid]

(* gift_balance_after_toman is left to its column default, 0.              *)
ManualRow(r, row) ==
    [request |-> r, kind |-> "manual_payment",
     giftDelta |-> 0, paidDelta |-> Amount(r),
     giftAfter |-> 0, paidAfter |-> row.paid]

PurchaseRow(r, kind, giftDelta, row) ==
    [request |-> r, kind |-> kind, giftDelta |-> giftDelta, paidDelta |-> 0,
     giftAfter |-> row.gift, paidAfter |-> row.paid]

Reading(h, pc) == handler[h].pc = pc

Close(h) == handler' = [handler EXCEPT ![h] = Idle]

Step(h, pc, row) ==
    handler' = [handler EXCEPT ![h].pc = pc, ![h].row = row]

DecideVerbatim(r, decision) ==
    /\ status' = [status EXCEPT ![r] = decision]
    /\ reviews' = Append(reviews, [request |-> r, decision |-> decision])

DecideIfPending(r, decision) ==
    IF status[r] = "pending"
    THEN /\ status' = [status EXCEPT ![r] = IF decision = "approve" THEN "approved" ELSE "rejected"]
         /\ reviews' = Append(reviews, [request |-> r, decision |-> decision])
    ELSE UNCHANGED <<status, reviews>>

(* Decided whatever the status has become since it was selected.           *)
Decide(r, decision) ==
    /\ status' = [status EXCEPT ![r] = IF decision = "approve" THEN "approved" ELSE "rejected"]
    /\ reviews' = Append(reviews, [request |-> r, decision |-> decision])

-----------------------------------------------------------------------------
Init ==
    /\ account = [u \in Users |-> [gift |-> OpeningGift[u], paid |-> 0]]
    /\ ledger = <<>>
    /\ live = {}
    /\ status = [r \in Requests |-> "none"]
    /\ reviews = <<>>
    /\ handler = [h \in Handlers |-> Idle]

CreateRequest(r) ==
    /\ status[r] = "none"
    /\ status' = [status EXCEPT ![r] = "pending"]
    /\ UNCHANGED <<account, ledger, live, reviews, handler>>

(* A request already reviewed is answered with 400.                        *)
ReviewableAlways(r) == status[r] # "none"
Reviewable(r) == status[r] = "pending"

ReadRequest(h, r, pc) ==
    /\ Reading(h, "idle")
    /\ Reviewable(r)
    /\ handler' = [handler EXCEPT ![h].pc = pc, ![h].request = r]
    /\ UNCHANGED <<account, ledger, live, status, reviews>>

AnswerReviewed(r) ==
    /\ status[r] # "none"
    /\ ~Reviewable(r)
    /\ UNCHANGED paymentVars

BeginApproval(h, r) == ReadRequest(h, r, "approving")
BeginRejection(h, r) == ReadRequest(h, r, "rejecting")

-----------------------------------------------------------------------------
(* Approval of a top-up: the credit and the review in one commit.          *)

ReadAccount(h) ==
    /\ Reading(h, "approving") /\ IsTopup(handler[h].request)
    /\ Step(h, "crediting", account[User(handler[h].request)])
    /\ UNCHANGED <<account, ledger, live, status, reviews>>

CommitCredit(h) ==
    LET r == handler[h].request
        loaded == handler[h].row
        after == Credited(loaded, r)
    IN  /\ Reading(h, "crediting")
        /\ account' = [account EXCEPT ![User(r)] = Flush(@, loaded, after)]
        /\ ledger' = Append(ledger, ManualRow(r, after))
        /\ Decide(r, "approve")
        /\ Close(h)
        /\ UNCHANGED live

-----------------------------------------------------------------------------
(* Approval of a subscription: the purchase, then the review.              *)

(* An earlier purchase under the same key counts as success; an active     *)
(* subscription refuses the purchase, and the handler answers with 500.    *)
ReadPurchase(h) ==
    LET r == handler[h].request
    IN  /\ Reading(h, "approving") /\ ~IsTopup(r)
        /\ IF Granted(r) THEN Step(h, "granted", account[User(r)])
           ELSE IF HasLiveSubscription(User(r)) THEN Close(h)
           ELSE Step(h, "purchasing", account[User(r)])
        /\ UNCHANGED <<account, ledger, live, status, reviews>>

CommitPurchase(h) ==
    LET r == handler[h].request
        loaded == handler[h].row
        after == Gifted(loaded, r)
    IN  /\ Reading(h, "purchasing")
        /\ ~Granted(r)
        /\ live' = live \cup {r}
        /\ account' = [account EXCEPT ![User(r)] = Flush(@, loaded, after)]
        /\ ledger' = ledger \o <<PurchaseRow(r, "subscription_payment", 0, after),
                                 PurchaseRow(r, "subscription_gift_credit", Amount(r), after)>>
        /\ Step(h, "granted", after)
        /\ UNCHANGED <<status, reviews>>

CommitReview(h) ==
    /\ Reading(h, "granted")
    /\ Decide(handler[h].request, "approve")
    /\ Close(h)
    /\ UNCHANGED <<account, ledger, live>>

CommitRejection(h) ==
    /\ Reading(h, "rejecting")
    /\ Decide(handler[h].request, "reject")
    /\ Close(h)
    /\ UNCHANGED <<account, ledger, live>>

(* The handler ends with nothing more written: the process dies, the       *)
(* database stays locked for 30 s, the unique index refuses a second       *)
(* purchase of the request, no capacity pool has room.                     *)
Abandon(h) ==
    /\ ~Reading(h, "idle")
    /\ Close(h)
    /\ UNCHANGED <<account, ledger, live, status, reviews>>

ExpireSubscription(r) ==
    /\ r \in live
    /\ live' = live \ {r}
    /\ UNCHANGED <<account, ledger, status, reviews, handler>>

Advance(h) ==
    \/ ReadAccount(h)
    \/ CommitCredit(h)
    \/ ReadPurchase(h)
    \/ CommitPurchase(h)
    \/ CommitReview(h)
    \/ CommitRejection(h)
    \/ Abandon(h)

Next ==
    \/ \E r \in Requests : CreateRequest(r)
    \/ \E r \in Requests : AnswerReviewed(r)
    \/ \E h \in Handlers, r \in Requests : BeginApproval(h, r)
    \/ \E h \in Handlers, r \in Requests : BeginRejection(h, r)
    \/ \E h \in Handlers : Advance(h)
    \/ \E r \in live : ExpireSubscription(r)

Spec == Init /\ [][Next]_paymentVars

-----------------------------------------------------------------------------
(* Properties, with any number of reviews in progress at once.             *)

ReviewsOf(r) == {i \in DOMAIN reviews : reviews[i].request = r}
ApprovalsOf(r) == {i \in ReviewsOf(r) : reviews[i].decision = "approve"}

(* A request shown as approved has been paid out: a top-up has its credit  *)
(* in the ledger, a subscription has been granted, although its two        *)
(* commits are apart and a crash, an expiry, another purchase or another   *)
(* reviewer may come in between.                                           *)
ApprovedIsPaid ==
    \A r \in Requests :
        status[r] = "approved" =>
            IF IsTopup(r) THEN RowsOf(r, "manual_payment") # {}
            ELSE RowsOf(r, "subscription_gift_credit") # {}

(* A subscription request is granted once, however often its approval is   *)
(* started, interrupted and repeated, even after the subscription expired. *)
GrantedOnce ==
    \A r \in Requests : Cardinality(RowsOf(r, "subscription_gift_credit")) <= 1

(* Every credit of a top-up is the decision of one recorded approval, and  *)
(* every approval of it credits: the audit trail and the ledger agree on   *)
(* how often a request was paid, even when it was paid twice.              *)
CreditsMatchApprovals ==
    \A r \in Requests :
        IsTopup(r) => Cardinality(RowsOf(r, "manual_payment")) = Cardinality(ApprovalsOf(r))

(* The pending check keeps a decided request from being reviewed again     *)
(* later: only reviews that were in progress together can both count, so a *)
(* request is never reviewed more often than there are handlers at once.   *)
ReviewsBounded ==
    \A r \in Requests : Cardinality(ReviewsOf(r)) <= Cardinality(Handlers)

(* The first n terms added up.                                             *)
Total(deltas, n) ==
    LET sum[i \in 0 .. n] == IF i = 0 THEN 0 ELSE sum[i - 1] + deltas[i]
    IN  sum[n]

(* What the rows post to a user.                                           *)
GiftPosted(rows, u) ==
    Total([i \in DOMAIN rows |-> IF User(rows[i].request) = u THEN rows[i].giftDelta ELSE 0],
          Len(rows))
PaidPosted(rows, u) ==
    Total([i \in DOMAIN rows |-> IF User(rows[i].request) = u THEN rows[i].paidDelta ELSE 0],
          Len(rows))

(* Handlers that credit an account from stale rows lose credit but never   *)
(* make any: a balance does not exceed what the ledger explains.           *)
NeverOvercredited ==
    \A u \in Users :
        /\ account[u].paid <= PaidPosted(ledger, u)
        /\ account[u].gift <= OpeningGift[u] + GiftPosted(ledger, u)
=============================================================================
