----------------------------- MODULE TomanBilling -----------------------------
(***************************************************************************)
(* The Toman billing service of the BOZ GPT backend                        *)
(* (pbozi/backend/app/services/toman_billing_service.py) and the handlers  *)
(* that call it, as concurrent database sessions on one SQLite file.       *)
(*                                                                         *)
(* SQLAlchemy opens a transaction only in front of the first INSERT or     *)
(* UPDATE of a session, so what a handler SELECTs before that moment is    *)
(* read without a lock and may be stale when the handler writes: a handler *)
(* that selects first is two steps here, a Read and a Commit.  From its    *)
(* first write to its commit a session holds the single write lock of the  *)
(* database.  A chat completion takes that lock when it flushes its usage  *)
(* event: one that is offered no tools (a photo) keeps it until the charge *)
(* is committed; one that is offered tools commits when it lists them and, *)
(* as a voice transcription does, takes the lock again (by autoflush) just *)
(* before it reads the account to charge it.                               *)
(*                                                                         *)
(* An operator that stands just before another one and that no definition  *)
(* uses (UniqueIndexMissing before UniqueKeyTaken, ...) is a faulty        *)
(* variant of it, put in its place to see that the properties notice.      *)
(***************************************************************************)
EXTENDS Integers, Sequences, FiniteSets

CONSTANTS
    Users,       \* users; each one's billing account row exists
    Sessions,    \* database sessions (requests, update handlers) open at once
    Keys,        \* external events: payments, purchases, usages
    NoKey,       \* a NULL idempotency key
    NoSession,   \* nobody holds the write lock
    Requests,    \* [Keys -> Request]: what each event asks for
    Costs,       \* actual costs a provider may report for a chat or a voice
    Pools,       \* ids of the active Codex capacity pools
    PoolMax,     \* [Pools -> Nat]: capacity_pools.max_users
    Opening,     \* [Users -> [gift, paid]]: the balances to start from
    MaxEntries   \* bound: a request without a key is not begun beyond this
                 \* many ledger rows

Ops == {"purchase", "topup", "chat", "voice", "index"}

(* One external event.  amount is the plan price, the topped-up credit or  *)
(* the estimated cost; wallet is the requested wallet payment with its     *)
(* None default resolved; keyed says the caller passes an idempotency key. *)
Request == [op : Ops, user : Users, amount : Nat, gift : Nat, wallet : Nat,
            confirmed : BOOLEAN, grant : BOOLEAN, keyed : BOOLEAN]

(* Chats and voices derive their key from the usage event, purchases from  *)
(* the payment; the indexing charge never finds its usage event.           *)
ASSUME RequestsAssumption ==
    /\ Requests \in [Keys -> Request]
    /\ \A k \in Keys : Requests[k].op \in {"purchase", "chat", "voice"} => Requests[k].keyed
    /\ \A k \in Keys : Requests[k].op = "index" => ~Requests[k].keyed
ASSUME CostsAssumption == Costs \subseteq Nat \ {0}
ASSUME PoolsAssumption == Pools \subseteq Nat /\ PoolMax \in [Pools -> Nat]
ASSUME OpeningAssumption == Opening \in [Users -> [gift : Nat, paid : Nat]]
ASSUME NoKeyAssumption == NoKey \notin Keys
ASSUME NoSessionAssumption == NoSession \notin Sessions

VARIABLES
    account,     \* user_billing_accounts, by user
    ledger,      \* toman_ledger_entries since the start, in commit order
    subs,        \* live (active, unexpired) user_subscriptions with a pool
    poolUsers,   \* capacity_pools.active_users
    usage,       \* usage_events.status as committed, by event
    writer,      \* the session that holds SQLite's write lock
    session      \* what each session has read so far

vars == <<account, ledger, subs, poolUsers, usage, writer, session>>

Columns == {"gift", "paid", "giftGranted", "giftSpent", "paidTopup", "paidSpent",
            "subPaid", "discountUsed", "version"}

AccountRow == [Columns -> Int]

(* A row of the account with some columns moved by the given amounts.      *)
Moved(row, deltas) ==
    [c \in Columns |-> row[c] + (IF c \in DOMAIN deltas THEN deltas[c] ELSE 0)]

NewAccount == [c \in Columns |-> 0]

OpeningAccount(u) ==
    Moved(NewAccount, [gift |-> Opening[u].gift, giftGranted |-> Opening[u].gift,
                       paid |-> Opening[u].paid, paidTopup |-> Opening[u].paid])

Kinds == {"subscription_payment", "subscription_gift_credit",
          "paid_topup_credit", "chat_completion_usage",
          "voice_transcription", "rag_embedding"}

UsageKinds == {"chat_completion_usage", "voice_transcription", "rag_embedding"}

LedgerEntry == [request : Keys, key : Keys \cup {NoKey}, kind : Kinds,
                user : Users, giftDelta : Int, paidDelta : Int,
                giftAfter : Int, paidAfter : Int, discount : BOOLEAN]

UsageStatus == {"none", "authorized", "completed", "billing_failed", "failed"}

(* What a session is waiting for: "read" a chance to write what it has     *)
(* computed from the rows it read, "precheck" to insert its usage event,   *)
(* "generating" the model's answer with the write lock held, "answering"   *)
(* it without, "transcribing" and "indexing" a job without the lock.       *)
PCs == {"idle", "read", "precheck", "generating", "answering", "transcribing",
        "indexing"}

SessionState == [pc : PCs, key : Keys \cup {NoKey}, loaded : AccountRow,
                 discount : BOOLEAN]

Idle == [pc |-> "idle", key |-> NoKey, loaded |-> NewAccount,
         discount |-> FALSE]

TypeOK ==
    /\ account \in [Users -> AccountRow]
    /\ ledger \in Seq(LedgerEntry)
    /\ subs \subseteq [key : Keys, pool : Pools]
    /\ poolUsers \in [Pools -> Int]
    /\ usage \in [Keys -> UsageStatus]
    /\ writer \in Sessions \cup {NoSession}
    /\ session \in [Sessions -> SessionState]

-----------------------------------------------------------------------------
(* Queries *)

Op(k) == Requests[k].op
User(k) == Requests[k].user

(* _existing_ledger: the row whose idempotency_key is the event's own key. *)
Posted(k) ==
    /\ Requests[k].keyed
    /\ \E i \in DOMAIN ledger :
          /\ ledger[i].key = k
          /\ ledger[i].kind # "subscription_payment"

(* The unique index on idempotency_key, by which a commit is refused.      *)
UniqueIndexMissing(k) == FALSE
UniqueKeyTaken(k) == Posted(k)

LiveSubs(u) == {x \in subs : User(x.key) = u}
LiveInPool(p) == {x \in subs : x.pool = p}

Available(row) == row.gift + row.paid

PoolsOneTooMany == {p \in Pools : poolUsers[p] <= PoolMax[p]}
FreePools == {p \in Pools : poolUsers[p] < PoolMax[p]}
FirstFreePool == CHOOSE p \in FreePools : \A q \in FreePools : p <= q

WalletPayment(k) ==
    IF Requests[k].wallet < Requests[k].amount
    THEN Requests[k].wallet ELSE Requests[k].amount
ExternalPayment(k) == Requests[k].amount - WalletPayment(k)

(* The gift that reaches the balance; the rest is only a ledger amount.    *)
GiftCredited(k) == IF Requests[k].grant THEN Requests[k].gift ELSE 0

(* The first top-up discount of a paying subscriber, as quoted now.        *)
DiscountQuoted(k) ==
    /\ Requests[k].amount > 0
    /\ account[User(k)].subPaid > 0 \/ LiveSubs(User(k)) # {}
    /\ account[User(k)].discountUsed = 0

-----------------------------------------------------------------------------
(* Computations on an account row held in memory *)

PurchaseGrantingAlways(row, k) ==
    Moved(row, [paid |-> -WalletPayment(k), paidSpent |-> WalletPayment(k),
                gift |-> Requests[k].gift, giftGranted |-> Requests[k].gift,
                subPaid |-> Requests[k].amount, version |-> 1])

AfterPurchase(row, k) ==
    Moved(row, [paid |-> -WalletPayment(k), paidSpent |-> WalletPayment(k),
                gift |-> GiftCredited(k), giftGranted |-> Requests[k].gift,
                subPaid |-> Requests[k].amount, version |-> 1])

(* The discount is quoted on the row itself, while its flag is still 0.    *)
AfterTopup(row, k, discounted) ==
    Moved(row, [paid |-> Requests[k].amount, paidTopup |-> Requests[k].amount,
                discountUsed |-> IF discounted THEN 1 ELSE 0, version |-> 1])

GiftAfterPaid(row, cost) == IF row.paid < cost THEN cost - row.paid ELSE 0
GiftPart(row, cost) == IF row.gift < cost THEN row.gift ELSE cost
PaidPart(row, cost) == cost - GiftPart(row, cost)

AfterCharge(row, cost) ==
    Moved(row, [gift |-> -GiftPart(row, cost), giftSpent |-> GiftPart(row, cost),
                paid |-> -PaidPart(row, cost), paidSpent |-> PaidPart(row, cost),
                version |-> 1])

(* What an ORM flush leaves in the row: a column the handler changed gets  *)
(* the absolute value computed from the row it had loaded, a column it did *)
(* not change keeps what the database holds.                               *)
Flush(current, loaded, changed) ==
    [c \in Columns |-> IF changed[c] = loaded[c] THEN current[c] ELSE changed[c]]

EntryOfOperation(k, kind, giftDelta, paidDelta, row, discount) ==
    [request |-> k, key |-> IF Requests[k].keyed THEN k ELSE NoKey,
     kind |-> Op(k), user |-> User(k), giftDelta |-> giftDelta,
     paidDelta |-> paidDelta, giftAfter |-> row.gift, paidAfter |-> row.paid,
     discount |-> discount]

(* _new_ledger_entry: the balances "after" are those of the row in memory. *)
Entry(k, kind, giftDelta, paidDelta, row, discount) ==
    [request |-> k, key |-> IF Requests[k].keyed THEN k ELSE NoKey,
     kind |-> kind, user |-> User(k), giftDelta |-> giftDelta,
     paidDelta |-> paidDelta, giftAfter |-> row.gift, paidAfter |-> row.paid,
     discount |-> discount]

EntryBeforeCharge(k, kind, row, cost) ==
    Entry(k, kind, -GiftPart(row, cost), -PaidPart(row, cost), row, FALSE)

ChargeEntry(k, kind, row, cost) ==
    Entry(k, kind, -GiftPart(row, cost), -PaidPart(row, cost),
          AfterCharge(row, cost), FALSE)

Close(s) == session' = [session EXCEPT ![s] = Idle]

Open(s, pc, k, row, discount) ==
    /\ session[s].pc = "idle"
    /\ session' = [session EXCEPT ![s] = [pc |-> pc, key |-> k,
                                          loaded |-> row, discount |-> discount]]

(* A bound of the model: requests without a key could be repeated forever. *)
WithinBound(k) == Requests[k].keyed \/ Len(ledger) < MaxEntries

-----------------------------------------------------------------------------
Init ==
    /\ account = [u \in Users |-> OpeningAccount(u)]
    /\ ledger = <<>>
    /\ subs = {}
    /\ poolUsers = [p \in Pools |-> 0]
    /\ usage = [k \in Keys |-> "none"]
    /\ writer = NoSession
    /\ session = [s \in Sessions |-> Idle]

-----------------------------------------------------------------------------
(* Early returns: the event is already posted, or it is refused.           *)

PurchaseUnlimited(k) ==
    \/ WalletPayment(k) > account[User(k)].paid
    \/ (~Requests[k].confirmed /\ ExternalPayment(k) > 0)

PurchaseOnCredit(k) ==
    \/ LiveSubs(User(k)) # {}
    \/ (~Requests[k].confirmed /\ ExternalPayment(k) > 0)

RefusesPurchase(k) ==
    \/ LiveSubs(User(k)) # {}
    \/ WalletPayment(k) > account[User(k)].paid
    \/ (~Requests[k].confirmed /\ ExternalPayment(k) > 0)

Refuses(k) ==
    CASE Op(k) = "purchase" -> RefusesPurchase(k)
      [] Op(k) = "topup" -> Requests[k].amount = 0
      [] Op(k) \in {"chat", "voice"} ->
            Available(account[User(k)]) < Requests[k].amount
      [] OTHER -> FALSE

AnswerWithoutWriting(k) ==
    /\ Refuses(k) \/ (Op(k) \in {"purchase", "topup"} /\ Posted(k))
    /\ UNCHANGED vars

-----------------------------------------------------------------------------
(* purchase_toman_subscription.  The INSERT of the subscription takes the  *)
(* write lock, so the pool is chosen among the committed rows; the account *)
(* row is the one that was read before.                                    *)

ReadPurchase(s, k) ==
    /\ Op(k) = "purchase"
    /\ ~Posted(k)
    /\ ~RefusesPurchase(k)
    /\ Open(s, "read", k, account[User(k)], FALSE)
    /\ UNCHANGED <<account, ledger, subs, poolUsers, usage, writer>>

CommitPurchase(s) ==
    LET k == session[s].key
        u == User(k)
        after == AfterPurchase(session[s].loaded, k)
    IN  /\ session[s].pc = "read" /\ Op(k) = "purchase"
        /\ writer = NoSession
        /\ FreePools # {}
        /\ ~UniqueKeyTaken(k)
        /\ subs' = subs \cup {[key |-> k, pool |-> FirstFreePool]}
        /\ poolUsers' = [poolUsers EXCEPT ![FirstFreePool] = @ + 1]
        /\ account' = [account EXCEPT ![u] = Flush(@, session[s].loaded, after)]
        /\ ledger' = ledger \o
              <<Entry(k, "subscription_payment", 0, -WalletPayment(k), after, FALSE),
                Entry(k, "subscription_gift_credit", GiftCredited(k), 0, after, FALSE)>>
        /\ Close(s)
        /\ UNCHANGED <<usage, writer>>

(* No pool has room, or the key's unique index refuses the row.            *)
RollbackPurchase(s) ==
    /\ session[s].pc = "read" /\ Op(session[s].key) = "purchase"
    /\ writer = NoSession
    /\ FreePools = {} \/ UniqueKeyTaken(session[s].key)
    /\ Close(s)
    /\ UNCHANGED <<account, ledger, subs, poolUsers, usage, writer>>

(* apply_toman_topup: nothing is written before its commit.                *)
ReadTopup(s, k) ==
    /\ Op(k) = "topup"
    /\ ~Posted(k)
    /\ Requests[k].amount > 0
    /\ WithinBound(k)
    /\ Open(s, "read", k, account[User(k)], DiscountQuoted(k))
    /\ UNCHANGED <<account, ledger, subs, poolUsers, usage, writer>>

CommitTopup(s) ==
    LET k == session[s].key
        u == User(k)
        after == AfterTopup(session[s].loaded, k, session[s].discount)
    IN  /\ session[s].pc = "read" /\ Op(k) = "topup"
        /\ writer = NoSession
        /\ ~UniqueKeyTaken(k)
        /\ account' = [account EXCEPT ![u] = Flush(@, session[s].loaded, after)]
        /\ ledger' = Append(ledger, Entry(k, "paid_topup_credit", 0,
                            Requests[k].amount, after, session[s].discount))
        /\ Close(s)
        /\ UNCHANGED <<subs, poolUsers, usage, writer>>

RollbackTopup(s) ==
    /\ session[s].pc = "read" /\ Op(session[s].key) = "topup"
    /\ writer = NoSession
    /\ UniqueKeyTaken(session[s].key)
    /\ Close(s)
    /\ UNCHANGED <<account, ledger, subs, poolUsers, usage, writer>>

-----------------------------------------------------------------------------
(* The charge of a usage, by a session that reads the account under the    *)
(* write lock and commits the usage's status with it.                      *)

ChargeResultIgnored(k, cost) == "completed"
ChargeOutcome(k, cost) ==
    IF Posted(k) \/ Available(account[User(k)]) >= cost
    THEN "completed" ELSE "billing_failed"

ChargeUnderLock(k, kind, cost) ==
    LET row == account[User(k)]
    IN  /\ usage' = [usage EXCEPT ![k] = ChargeOutcome(k, cost)]
        /\ \/ /\ ~Posted(k)
              /\ Available(row) >= cost
              /\ account' = [account EXCEPT ![User(k)] = AfterCharge(row, cost)]
              /\ ledger' = Append(ledger, ChargeEntry(k, kind, row, cost))
           \/ /\ Posted(k) \/ Available(row) < cost
              /\ UNCHANGED <<account, ledger>>

(* A chat completion.  The balance is checked for the estimate, the usage  *)
(* event is flushed (not committed) and, when no tools are offered, the    *)
(* model is called with the transaction open.                              *)
PrecheckChat(s, k) ==
    /\ Op(k) = "chat"
    /\ Available(account[User(k)]) >= Requests[k].amount
    /\ Open(s, "precheck", k, NewAccount, FALSE)
    /\ UNCHANGED <<account, ledger, subs, poolUsers, usage, writer>>

AuthorizeChat(s) ==
    /\ session[s].pc = "precheck"
    /\ writer = NoSession
    /\ writer' = s
    /\ session' = [session EXCEPT ![s].pc = "generating"]
    /\ UNCHANGED <<account, ledger, subs, poolUsers, usage>>

FinishChat(s, cost) ==
    /\ session[s].pc = "generating"
    /\ ChargeUnderLock(session[s].key, "chat_completion_usage", cost)
    /\ writer' = NoSession
    /\ Close(s)
    /\ UNCHANGED <<subs, poolUsers>>

FailChat(s) ==
    /\ session[s].pc = "generating"
    /\ usage' = [usage EXCEPT ![session[s].key] = "failed"]
    /\ writer' = NoSession
    /\ Close(s)
    /\ UNCHANGED <<account, ledger, subs, poolUsers>>

(* get_chat_tools brings the built-in tools up to date and commits, and the *)
(* authorized usage event with them: the model is called without the lock. *)
OfferTools(s) ==
    /\ session[s].pc = "generating"
    /\ usage' = [usage EXCEPT ![session[s].key] = "authorized"]
    /\ writer' = NoSession
    /\ session' = [session EXCEPT ![s].pc = "answering"]
    /\ UNCHANGED <<account, ledger, subs, poolUsers>>

FinishToolChat(s, cost) ==
    /\ session[s].pc = "answering"
    /\ writer = NoSession
    /\ ChargeUnderLock(session[s].key, "chat_completion_usage", cost)
    /\ Close(s)
    /\ UNCHANGED <<subs, poolUsers, writer>>

FailToolChat(s) ==
    /\ session[s].pc = "answering"
    /\ writer = NoSession
    /\ usage' = [usage EXCEPT ![session[s].key] = "failed"]
    /\ Close(s)
    /\ UNCHANGED <<account, ledger, subs, poolUsers, writer>>

(* A voice message: the usage event is committed, the file transcribed     *)
(* without a transaction, and the charge made in a session of its own.     *)
StartTranscription(s, k) ==
    /\ Op(k) = "voice"
    /\ Available(account[User(k)]) >= Requests[k].amount
    /\ writer = NoSession
    /\ usage' = [usage EXCEPT ![k] = "authorized"]
    /\ Open(s, "transcribing", k, NewAccount, FALSE)
    /\ UNCHANGED <<account, ledger, subs, poolUsers, writer>>

FinishTranscription(s, cost) ==
    /\ session[s].pc = "transcribing"
    /\ writer = NoSession
    /\ ChargeUnderLock(session[s].key, "voice_transcription", cost)
    /\ Close(s)
    /\ UNCHANGED <<subs, poolUsers, writer>>

FailTranscription(s) ==
    /\ session[s].pc = "transcribing"
    /\ writer = NoSession
    /\ usage' = [usage EXCEPT ![session[s].key] = "failed"]
    /\ Close(s)
    /\ UNCHANGED <<account, ledger, subs, poolUsers, writer>>

(* A document to index.  No balance is asked for before; afterwards the    *)
(* usage event is looked up under another request id than the one it was   *)
(* created with, so the charge has no key, is computed from an unlocked    *)
(* read, and leaves the usage event "authorized".                          *)
StartIndexing(s, k) ==
    /\ Op(k) = "index"
    /\ WithinBound(k)
    /\ writer = NoSession
    /\ usage' = [usage EXCEPT ![k] = "authorized"]
    /\ Open(s, "indexing", k, NewAccount, FALSE)
    /\ UNCHANGED <<account, ledger, subs, poolUsers, writer>>

ReadIndexCharge(s) ==
    LET k == session[s].key
        row == account[User(k)]
    IN  /\ session[s].pc = "indexing"
        /\ \/ /\ Available(row) >= Requests[k].amount
              /\ Requests[k].amount > 0
              /\ session' = [session EXCEPT ![s].pc = "read", ![s].loaded = row]
           \/ /\ Available(row) < Requests[k].amount \/ Requests[k].amount = 0
              /\ Close(s)
        /\ UNCHANGED <<account, ledger, subs, poolUsers, usage, writer>>

CommitIndexCharge(s) ==
    LET k == session[s].key
        row == session[s].loaded
        cost == Requests[k].amount
    IN  /\ session[s].pc = "read" /\ Op(k) = "index"
        /\ writer = NoSession
        /\ account' = [account EXCEPT ![User(k)] = Flush(@, row, AfterCharge(row, cost))]
        /\ ledger' = Append(ledger, ChargeEntry(k, "rag_embedding", row, cost))
        /\ Close(s)
        /\ UNCHANGED <<subs, poolUsers, usage, writer>>

-----------------------------------------------------------------------------
(* SQLite refuses the write after 30 s ("database is locked").             *)
LockTimeout(s) ==
    /\ session[s].pc \in {"read", "precheck", "answering", "transcribing"}
    /\ writer # NoSession
    /\ Close(s)
    /\ UNCHANGED <<account, ledger, subs, poolUsers, usage, writer>>

(* The process dies, or the task is cancelled: the open transaction, with  *)
(* a tool-less chat's usage event, is rolled back and nothing is retried.  *)
Crash(s) ==
    /\ session[s].pc # "idle"
    /\ writer' = IF writer = s THEN NoSession ELSE writer
    /\ Close(s)
    /\ UNCHANGED <<account, ledger, subs, poolUsers, usage>>

(* Thirty days pass: the row stops counting as live, no code runs.         *)
ExpireSubscription(x) ==
    /\ x \in subs
    /\ subs' = subs \ {x}
    /\ UNCHANGED <<account, ledger, poolUsers, usage, writer, session>>

Begin(s, k) ==
    \/ ReadPurchase(s, k)
    \/ ReadTopup(s, k)
    \/ PrecheckChat(s, k)
    \/ StartTranscription(s, k)
    \/ StartIndexing(s, k)

Advance(s) ==
    \/ CommitPurchase(s)
    \/ RollbackPurchase(s)
    \/ CommitTopup(s)
    \/ RollbackTopup(s)
    \/ AuthorizeChat(s)
    \/ \E cost \in Costs : FinishChat(s, cost)
    \/ FailChat(s)
    \/ OfferTools(s)
    \/ \E cost \in Costs : FinishToolChat(s, cost)
    \/ FailToolChat(s)
    \/ \E cost \in Costs : FinishTranscription(s, cost)
    \/ FailTranscription(s)
    \/ ReadIndexCharge(s)
    \/ CommitIndexCharge(s)
    \/ LockTimeout(s)

Next ==
    \/ \E k \in Keys : AnswerWithoutWriting(k)
    \/ \E s \in Sessions, k \in Keys : Begin(s, k)
    \/ \E s \in Sessions : Advance(s)
    \/ \E s \in Sessions : Crash(s)
    \/ \E x \in subs : ExpireSubscription(x)

Spec == Init /\ [][Next]_vars

-----------------------------------------------------------------------------
(* Properties of every execution, with any number of sessions.             *)

(* Neither balance is ever overdrawn, whatever stale row a purchase or an  *)
(* indexing charge was computed from: wallet_payment > available_paid and  *)
(* available < cost_toman are checked on the very row that is written.     *)
NonNegative ==
    \A u \in Users : account[u].gift >= 0 /\ account[u].paid >= 0

(* A redelivered or doubly submitted event is posted once: a purchase      *)
(* leaves one payment row and one gift row, any other event one row, for   *)
(* each idempotency key (_existing_ledger and the unique index together).  *)
OneEntryPerKey ==
    \A i, j \in DOMAIN ledger :
        /\ ledger[i].key # NoKey
        /\ ledger[i].key = ledger[j].key
        /\ (ledger[i].kind = "subscription_payment")
             <=> (ledger[j].kind = "subscription_payment")
        => i = j

(* assign_subscription_pool admits a subscription under the write lock:    *)
(* however many purchases race for the last place, no pool holds more live *)
(* subscriptions than it counts, nor counts more than max_users.           *)
PoolNotOversold ==
    \A p \in Pools :
        /\ Cardinality(LiveInPool(p)) <= poolUsers[p]
        /\ poolUsers[p] <= PoolMax[p]

(* A usage event reported "completed" has its charge in the ledger, and    *)
(* one reported "billing_failed" has none, across redeliveries of the same *)
(* update and crashes between authorisation and charge.                    *)
UsageSettled ==
    \A k \in Keys :
        /\ usage[k] = "completed" => Posted(k)
        /\ usage[k] = "billing_failed" => ~Posted(k)

(* The ledger is append-only, and a balance column moves only in a commit  *)
(* that also appends a row of that user, whose "after" amount is the value *)
(* the column takes.                                                       *)
JournaledMove ==
    LET last == ledger'[Len(ledger')]
        Journaled(u, before, after, recorded) ==
            before # after => /\ Len(ledger') > Len(ledger)
                              /\ last.user = u
                              /\ recorded = after
    IN  /\ SubSeq(ledger', 1, Len(ledger)) = ledger
        /\ \A u \in Users :
              /\ Journaled(u, account[u].gift, account'[u].gift, last.giftAfter)
              /\ Journaled(u, account[u].paid, account'[u].paid, last.paidAfter)

JournaledMoves == [][JournaledMove]_vars

-----------------------------------------------------------------------------
(* Properties of executions in which no session is disturbed between its   *)
(* read and its commit: one session at a time.                             *)

Total(deltas, n) ==
    LET sum[i \in 0 .. n] == IF i = 0 THEN 0 ELSE sum[i - 1] + deltas[i]
    IN  sum[n]

GiftPosted(rows, u) ==
    Total([i \in DOMAIN rows |-> IF rows[i].user = u THEN rows[i].giftDelta ELSE 0],
          Len(rows))
PaidPosted(rows, u) ==
    Total([i \in DOMAIN rows |-> IF rows[i].user = u THEN rows[i].paidDelta ELSE 0],
          Len(rows))

(* Replaying the ledger's deltas gives the cached balances: no credit is   *)
(* lost or made by the order in which purchases, top-ups and charges       *)
(* commit.                                                                 *)
BalanceIsLedgerSum ==
    \A u \in Users :
        /\ account[u].gift = Opening[u].gift + GiftPosted(ledger, u)
        /\ account[u].paid = Opening[u].paid + PaidPosted(ledger, u)

MovableAmounts ==
    UNION {0 .. n : n \in {0} \cup {Requests[k].amount : k \in Keys}
                           \cup {Requests[k].gift : k \in Keys} \cup Costs}

(* The service as a credit book, the balances and the posted keys being    *)
(* all that its users see.                                                 *)
Book == INSTANCE CreditBook WITH
    Topups <- {k \in Keys : Op(k) = "topup"},
    Purchases <- {k \in Keys : Op(k) = "purchase"},
    Usages <- {k \in Keys : Op(k) \in {"chat", "voice", "index"}},
    OpeningGift <- [u \in Users |-> Opening[u].gift],
    OpeningPaid <- [u \in Users |-> Opening[u].paid],
    Amounts <- MovableAmounts,
    gift <- [u \in Users |-> account[u].gift],
    paid <- [u \in Users |-> account[u].paid],
    applied <- {k \in Keys : Posted(k)}

(* Every commit is one move of the credit book: events take effect at most *)
(* once, each as if it had run alone, gift credit first.                   *)
ImplementsCreditBook == Book!BookSpec
=============================================================================
