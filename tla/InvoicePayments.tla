--------------------------- MODULE InvoicePayments ---------------------------
(***************************************************************************)
(* Payments by invoice and from the wallet in the bot (bot.py: the invoice *)
(* requests, handle_pre_checkout_query, handle_successful_payment with its *)
(* two handlers, _start_subscription_payment; apply_toman_topup and        *)
(* purchase_toman_subscription of toman_billing_service).                  *)
(*                                                                         *)
(* The amount of an invoice is fixed when it is sent; the platform takes   *)
(* the money and queues an update "successful payment"; the handler quotes *)
(* again, and credits the account or tells the user to write to support.   *)
(* It does not claim the update, so a redelivered one is recognised by its *)
(* ledger key only.  The bot polls: the next poll confirms what the last   *)
(* one returned, so an update is handled again when the process dies       *)
(* before that poll, and never when it dies later.                         *)
(*                                                                         *)
(* One user.  Every top-up has the same amount.  Gift and paid balance are *)
(* one number: neither path here tells them apart.  Usage charged by other *)
(* handlers is one step (TomanBilling has its detail).                     *)
(*                                                                         *)
(* One plan, which an administrator may delete for good.  The pre-checkout *)
(* query and the handler compare the same fields of the same payload (its  *)
(* form, the amount, the user): a payment that would fail the handler's    *)
(* comparison has not been taken, so these refusals are no step.           *)
(***************************************************************************)
EXTENDS Integers, FiniteSets

CONSTANTS
    Invoices,
    Clicks,       \* presses of "pay from the wallet"
    Credit,       \* credit_amount_toman of a top-up
    FullDue,      \* its price
    ReducedDue,   \* its price with the discount of the first top-up
    PlanPrice,    \* monthly_price_toman
    Start,        \* the balance at the start
    MaxSpent,     \* bound: usage
    MaxDay,       \* bound: days on which the wallet is used
    MaxCrashes    \* bound: deaths of the bot process

ASSUME PriceAssumption ==
    /\ {Credit, FullDue, ReducedDue, PlanPrice} \subseteq Nat \ {0}
    /\ ReducedDue < FullDue
ASSUME BoundsAssumption == {Start, MaxSpent, MaxDay, MaxCrashes} \subseteq Nat
ASSUME InvoicesAssumption ==
    /\ IsFiniteSet(Invoices)
    /\ Invoices \cap (Clicks \cup Nat) = {}

VARIABLES
    account,   \* the user's row of user_billing_accounts
    plan,      \* the plan exists
    live,      \* subscriptions that are active and have not expired
    posted,    \* idempotency keys in toman_ledger_entries
    invoice,   \* what the payload of each invoice says
    paid,      \* invoices the platform has taken the money for
    queue,     \* updates the platform holds, unconfirmed
    taken,     \* updates this process has got
    op,        \* the handlers
    told,      \* the last answer to each payment, or that it will have none:
               \* its handler has failed, or died after confirmation
    crashes,
    raced      \* a row was written while another handler stood between its
               \* first read and its commit

vars == <<account, plan, live, posted, invoice, paid, queue, taken, op, told,
          crashes, raced>>

platform == <<invoice, paid, queue, taken>>

Days == 0 .. MaxDay

(* A wallet purchase's key holds the date; an invoice's its charge id.     *)
Keys == Invoices \cup Days

Account == [balance : Nat, spent : Nat, discountUsed : BOOLEAN, subPaid : BOOLEAN]

(* "due": payment_due_toman of a top-up, or what a plan costs beyond its   *)
(* share from the wallet, "share": wallet_payment_toman.                   *)
Invoice == [kind : {"none", "topup", "plan"}, due : Nat, share : Nat]
NoInvoice == [kind |-> "none", due |-> 0, share |-> 0]

(* "checked": the handler's quote agrees, or no subscription is in the     *)
(* way; "loaded": the service has loaded the account; "answering":         *)
(* committed, the reply is to be sent.                                     *)
Op == [pc : {"idle", "checked", "loaded", "answering"},
       key : Keys, balance : Nat, reduced : BOOLEAN]

Begun(k) == [pc |-> "checked", key |-> k, balance |-> 0, reduced |-> FALSE]
Idle(x) == [Begun(IF x \in Invoices THEN x ELSE 0) EXCEPT !.pc = "idle"]

IsTopup(x) == x \in Invoices /\ invoice[x].kind = "topup"

TypeOK ==
    /\ account \in Account
    /\ plan \in BOOLEAN
    /\ live \in Nat
    /\ posted \subseteq Keys
    /\ invoice \in [Invoices -> Invoice]
    /\ queue \subseteq paid /\ taken \subseteq paid /\ paid \subseteq Invoices
    /\ op \in [Invoices \cup Clicks -> Op]
    /\ told \in [Invoices -> {"nothing", "done", "refused", "lost"}]
    /\ crashes \in 0 .. MaxCrashes
    /\ raced \in BOOLEAN

-----------------------------------------------------------------------------
NeverLive == FALSE
HasLive == live > 0

(* quote_toman_topup_payment.                                              *)
Discounted == (account.subPaid \/ HasLive) /\ ~account.discountUsed
Due == IF Discounted THEN ReducedDue ELSE FullDue

NeverPosted(k) == FALSE
Posted(k) == k \in posted

Goto(x, pc) == op' = [op EXCEPT ![x].pc = pc]
Close(x) == op' = [op EXCEPT ![x] = Idle(x)]

Tell(x, answer) == told' = IF x \in Invoices THEN [told EXCEPT ![x] = answer] ELSE told

Refuse(x) == Close(x) /\ Tell(x, "refused")

(* Handlers that have read and not yet committed, but for x.               *)
Midway(x) == {y \in DOMAIN op \ {x} : op[y].pc \in {"checked", "loaded"}}
Writing(x) == raced' = (raced \/ Midway(x) # {})

-----------------------------------------------------------------------------
Init ==
    /\ account = [balance |-> Start, spent |-> 0, discountUsed |-> FALSE,
                  subPaid |-> FALSE]
    /\ plan = TRUE
    /\ live = 0
    /\ posted = {}
    /\ invoice = [i \in Invoices |-> NoInvoice]
    /\ paid = {} /\ queue = {} /\ taken = {}
    /\ op = [x \in Invoices \cup Clicks |-> Idle(x)]
    /\ told = [i \in Invoices |-> "nothing"]
    /\ crashes = 0
    /\ raced = FALSE

(* The user enters an amount and chooses the gateway.                      *)
RequestTopup(i) ==
    /\ invoice[i] = NoInvoice
    /\ invoice' = [invoice EXCEPT ![i] = [kind |-> "topup", due |-> Due, share |-> 0]]
    /\ UNCHANGED <<account, plan, live, posted, paid, queue, taken, op, told, crashes, raced>>

(* The wallet, if used, pays what it holds; the invoice the rest.          *)
RequestPlan(i) ==
    /\ invoice[i] = NoInvoice
    /\ plan
    /\ ~HasLive
    /\ \E share \in {0, account.balance} :
          /\ share < PlanPrice
          /\ invoice' = [invoice EXCEPT ![i] =
                [kind |-> "plan", due |-> PlanPrice - share, share |-> share]]
    /\ UNCHANGED <<account, plan, live, posted, paid, queue, taken, op, told, crashes, raced>>

(* The pre-checkout query is answered ok: it repeats the payload's amount. *)
(* The platform takes the money.                                           *)
Pay(i) ==
    /\ invoice[i] # NoInvoice
    /\ i \notin paid
    /\ paid' = paid \cup {i}
    /\ queue' = queue \cup {i}
    /\ UNCHANGED <<account, plan, live, posted, invoice, taken, op, told, crashes, raced>>

(* A poll returns the update, which starts a handler, and the next poll    *)
(* confirms it.                                                            *)
Deliver(i) ==
    /\ i \in queue \ taken
    /\ taken' = taken \cup {i}
    /\ UNCHANGED <<invoice, paid, queue>>

Confirm ==
    /\ queue \cap taken # {}
    /\ queue' = queue \ taken
    /\ UNCHANGED <<account, plan, live, posted, invoice, paid, taken, op, told, crashes, raced>>

-----------------------------------------------------------------------------
(* A top-up is quoted again: when the price has changed, the user is told  *)
(* that it was not credited.                                               *)
AgreesAnyway(i) == TRUE
Agrees(i) == Due = invoice[i].due

CompareQuote(i) ==
    /\ Deliver(i)
    /\ IsTopup(i)
    /\ IF Agrees(i) THEN Goto(i, "checked") /\ UNCHANGED told ELSE Refuse(i)
    /\ UNCHANGED <<account, plan, live, posted, crashes, raced>>

(* apply_toman_topup: a key already posted is answered as done.            *)
ReadTopup(i) ==
    /\ op[i].pc = "checked"
    /\ IsTopup(i)
    /\ IF Posted(i)
          THEN Goto(i, "answering")
          ELSE op' = [op EXCEPT ![i] = [pc |-> "loaded", key |-> i,
                        balance |-> account.balance, reduced |-> Discounted]]
    /\ UNCHANGED <<account, plan, live, posted, platform, told, crashes, raced>>

CommitTopup(i) ==
    /\ op[i].pc = "loaded"
    /\ IsTopup(i)
    /\ ~Posted(i)
    /\ posted' = posted \cup {i}
    /\ account' = [account EXCEPT !.balance = op[i].balance + Credit,
                                  !.discountUsed = @ \/ op[i].reduced]
    /\ Writing(i)
    /\ Goto(i, "answering")
    /\ UNCHANGED <<plan, live, platform, told, crashes>>

-----------------------------------------------------------------------------
(* _debit_subscription_wallet_usd charges cost_usd=0.0 whatever the share: *)
(* charge_generic_usage_toman answers "zero_cost" and writes nothing.      *)
ChargedFor(share) == 0
Debited(share) ==
    [account EXCEPT !.balance = @ - ChargedFor(share),
                    !.spent = @ + ChargedFor(share)]

(* An invoice's handler refuses when the plan is gone, and when another    *)
(* subscription is active: one of its own (a redelivery) passes the second.*)
InTheWayOfAll(i) == HasLive
InTheWay(i) == HasLive /\ ~Posted(i)

CheckActive(i) ==
    /\ Deliver(i)
    /\ invoice[i].kind = "plan"
    /\ IF ~plan \/ InTheWay(i)
          THEN Refuse(i) /\ UNCHANGED account
          ELSE /\ account' = Debited(invoice[i].share)
               /\ Goto(i, "checked")
               /\ UNCHANGED told
    /\ UNCHANGED <<plan, live, posted, crashes, raced>>

(* The date in the key is not before one already posted.                   *)
BuyFromWallet(c) ==
    /\ op[c].pc = "idle"
    /\ plan
    /\ ~HasLive
    /\ account.balance >= PlanPrice
    /\ account' = Debited(PlanPrice)
    /\ \E day \in Days :
          /\ \A d \in posted \cap Days : d <= day
          /\ op' = [op EXCEPT ![c] = Begun(day)]
    /\ UNCHANGED <<plan, live, posted, platform, told, crashes, raced>>

(* purchase_toman_subscription, payment_confirmed: first what was posted,  *)
(* then what is active.                                                    *)
ReadPurchase(x) ==
    /\ op[x].pc = "checked"
    /\ ~IsTopup(x)
    /\ \/ Posted(op[x].key) /\ Goto(x, "answering") /\ UNCHANGED told
       \/ ~Posted(op[x].key) /\ HasLive /\ Refuse(x)
       \/ ~Posted(op[x].key) /\ ~HasLive /\ Goto(x, "loaded") /\ UNCHANGED told
    /\ UNCHANGED <<account, plan, live, posted, platform, crashes, raced>>

(* With no share of its own to pay and no gift to credit, the purchase     *)
(* leaves the balance columns alone.                                       *)
CommitPurchase(x) ==
    /\ op[x].pc = "loaded"
    /\ ~IsTopup(x)
    /\ ~Posted(op[x].key)
    /\ posted' = posted \cup {op[x].key}
    /\ live' = live + 1
    /\ account' = [account EXCEPT !.subPaid = TRUE]
    /\ Writing(x)
    /\ Goto(x, "answering")
    /\ UNCHANGED <<plan, platform, told, crashes>>

(* No pool has room: the flushed subscription is rolled back.              *)
PoolsFull(x) ==
    /\ op[x].pc = "loaded"
    /\ ~IsTopup(x)
    /\ Refuse(x)
    /\ UNCHANGED <<account, plan, live, posted, platform, crashes, raced>>

SilentAnswer(x) == Close(x) /\ UNCHANGED told
Answered(x) == Close(x) /\ Tell(x, "done")

Answer(x) ==
    /\ op[x].pc = "answering"
    /\ Answered(x)
    /\ UNCHANGED <<account, plan, live, posted, platform, crashes, raced>>

(* "database is locked", or the unique key was posted by another click:    *)
(* the error handler logs it and answers nobody.                           *)
CommitFails(x) ==
    /\ op[x].pc = "loaded"
    /\ Close(x)
    /\ Tell(x, "lost")
    /\ UNCHANGED <<account, plan, live, posted, platform, crashes, raced>>

-----------------------------------------------------------------------------
(* charge_chat_usage_toman and charge_generic_usage_toman elsewhere.       *)
Usage ==
    /\ account.balance > 0
    /\ account.spent < MaxSpent
    /\ account' = [account EXCEPT !.balance = @ - 1, !.spent = @ + 1]
    /\ raced' = (raced \/ \E y \in DOMAIN op : op[y].pc \in {"checked", "loaded"})
    /\ UNCHANGED <<plan, live, posted, platform, op, told, crashes>>

(* The subscription expires, or an administrator cancels it.               *)
EndAgain ==
    /\ live' = live - 1
    /\ UNCHANGED <<account, plan, posted, platform, op, told, crashes, raced>>
EndSubscription ==
    /\ HasLive
    /\ live' = live - 1
    /\ UNCHANGED <<account, plan, posted, platform, op, told, crashes, raced>>

(* DELETE /plans/{id}: the subscriptions the session has loaded go with    *)
(* the plan; one that is inserted after that stays.                        *)
DeletePlan ==
    /\ plan
    /\ plan' = FALSE
    /\ live' \in 0 .. live
    /\ UNCHANGED <<account, posted, platform, op, told, crashes, raced>>

(* What is confirmed is not delivered again.                               *)
Crash ==
    /\ crashes < MaxCrashes
    /\ crashes' = crashes + 1
    /\ op' = [x \in DOMAIN op |-> Idle(x)]
    /\ taken' = {}
    /\ told' = [i \in Invoices |->
                  IF i \in taken \ queue /\ op[i].pc # "idle" THEN "lost" ELSE told[i]]
    /\ UNCHANGED <<account, plan, live, posted, invoice, paid, queue, raced>>

Begin(i) == CompareQuote(i) \/ CheckActive(i)

Handle(x) ==
    \/ x \in Invoices /\ (ReadTopup(x) \/ CommitTopup(x))
    \/ ReadPurchase(x)
    \/ CommitPurchase(x)
    \/ PoolsFull(x)
    \/ Answer(x)
    \/ CommitFails(x)

Next ==
    \/ \E i \in Invoices : RequestTopup(i) \/ RequestPlan(i) \/ Pay(i) \/ Begin(i)
    \/ \E c \in Clicks : BuyFromWallet(c)
    \/ \E x \in Invoices \cup Clicks : Handle(x)
    \/ Confirm \/ Usage \/ EndSubscription \/ DeletePlan \/ Crash

Spec == Init /\ [][Next]_vars

(* The bot polls, and the handler of a payment goes on.                    *)
FairSpec == Spec /\ \A i \in Invoices : WF_vars(Begin(i) \/ Handle(i))

-----------------------------------------------------------------------------
(* A payment is credited once, however often its update is delivered: what *)
(* was credited and not spent is there.  Handlers that overlap write the   *)
(* balance they have loaded (TomanBilling's lost update), and are excepted.*)
BalanceExact ==
    ~raced => account.balance + account.spent
                = Start + Credit * Cardinality({i \in posted : IsTopup(i)})

(* The discount of the first top-up is given once: of two invoices sent    *)
(* with it only one is credited, however long they are kept before they    *)
(* are paid.                                                               *)
ReducedOnce ==
    ~raced => \A i, j \in posted :
        (IsTopup(i) /\ IsTopup(j) /\ invoice[i].due = ReducedDue
            /\ invoice[j].due = ReducedDue) => i = j

(* An invoice paid after the user has got a subscription otherwise, or a   *)
(* second invoice, does not start a second one.                            *)
OneSubscription == ~raced => live <= 1

(* A plan that was paid for and started is not answered with a refusal,    *)
(* not when its update is delivered again after a restart, whether the     *)
(* subscription has ended since or another one is active.  Only when the   *)
(* plan itself was deleted is the payment refused: the handler looks for   *)
(* the plan before it looks for the key.                                   *)
StartedPlanNotRefused ==
    [][\A i \in posted \cap Invoices :
          (invoice[i].kind = "plan" /\ told'[i] = "refused")
             => told[i] = "refused" \/ ~plan]_vars

(* A payment is not forgotten: in the end it is credited or refused, or    *)
(* its handler has failed, or died after the update was confirmed.         *)
PaymentAnswered ==
    \A i \in Invoices : i \in paid ~> told[i] # "nothing"

(* bot.py:1694: """Debit Toman account for subscription wallet portion.""": *)
(* what is spent covers the wallet's share of every plan that was started. *)
WalletShareDebited ==
    \A i \in posted \cap Invoices :
        invoice[i].kind = "plan" => account.spent >= invoice[i].share
=============================================================================
