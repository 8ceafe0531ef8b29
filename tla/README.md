# A verification of the dr-boz-platform billing core

This directory holds TLA+ specifications of the parts of dr-boz-platform that
move money, quota and capacity, the TLC configurations that check them on small
instances, and theorems about them checked by TLAPS. Paths below are relative
to the repository; `app/` stands for `pbozi/backend/app/` and `web/` for
`backend/open_webui/`.

## 1. Inventory

| Component | State it keeps | Hard behaviour | What makes it correct | Module |
|---|---|---|---|---|
| Toman billing (`app/services/toman_billing_service.py`) | `user_billing_accounts`, `toman_ledger_entries` | read-modify-write of a row selected without a lock; idempotency keys; two ledger rows per purchase | no overdraft, one posting per key, ledger and balance agree | `TomanBilling`, `CreditBook` |
| Bot billing (`app/bot.py`) | `usage_events` | minutes between check and charge, write lock held over a model call, crash in between | a completed usage is charged, an uncharged one is not completed | `TomanBilling` |
| Database (`app/database.py`) | SQLite file in WAL mode | one writer, 30 s busy timeout, reads before the first write without a lock | a session ends | all; `CodexCalls` for the wait on oneself |
| Codex pools (`app/services/codex_capacity_service.py`, `app/admin_subscription_routes.py`) | `capacity_pools.active_users`, `user_subscriptions` | a kept count, expiry by time, limits that change, failure after an insert, deletions that look first and delete later | the count never offers a taken place; what is bought has a pool | `CodexPools` |
| Trials (`app/services/trial_service.py`, `app/services/account_service.py`) | `trial_used`, a subscription | failure swallowed at signup and in the bulk grant | one trial per user, spent only with a place | `CodexPools` |
| Codex calls (`app/agent_routes.py`, `app/llm.py`, `app/codex_proxy.py`) | usage counters of `codex_accounts` | retries around retries, a counter written from a stale row, a session waiting for its own caller | usage not counted twice, bounded runs, every turn ends | `CodexCalls` |
| Tiered quota (`toman_billing_service.py`) | weekly and cooldown counters of a subscription | three places that reset windows, a row kept over the model's answer | spending within the limits, an admitted chat costs nothing else | `TieredQuota` |
| Manual payments (`app/payment_routes.py`, `app/transactions_bot.py`) | `payment_requests` | two reviewers, two commits of one approval, crash between them | one credit per approval, one grant per request | `ManualPayments` |
| Invoices and wallet purchases (`app/bot.py`) | none of their own | re-quote after payment, redelivered payment, restart | money taken is credited once and answered | `InvoicePayments` |
| Promo codes (`app/services/promo_code_service.py`) | redemptions | count before insert | limits respected | `UsdWallet` |
| USD wallet (`app/services/wallet_service.py`, `app/database.py`) | wallets, credit ledger, a mirror column | the same read-modify-write; a conversion at every start | no dollar lost or made | `UsdWallet` |
| Web spending (`web/utils/spending.py`, `web/models/chats.py`, `web/models/chat_messages.py`) | the bot's account tables, the chat documents | overlapping saves of one document, another process on the same rows | an answer is charged, and never beyond its ledger entry | `WebSpending` |
| Web payment orders (`web/routers/billing.py`, `web/models/payment_orders.py`, `bale-bot/`) | `payment_orders`, subscriptions | no guard on the status | a terminal order stays terminal | - |
| Group billing (`app/services/group_billing_service.py`) | group usage and shares | members debited one by one | shares add up to the cost | - |
| Update log (`app/services/idempotency_service.py`, `app/bot.py`) | `telegram_update_log` | concurrent handlers, restart | an update is handled once unless its handler died | - |
| Bot runtime (`app/services/telegram_bot_runtime.py`, `bot_watcher.py`) | polling threads | racing starts | one poller per token | - |

The rest (conversation, agents, RAG, model providers, admin CRUD, backups, the
Open WebUI fork itself, the front ends and nginx) is I/O or presentation and is
listed in `PROJECT.json` with the reason it is left out, as are the hazards of
every component, each at its line.

### How they interact

Components interact through one database. A handler of the bot or of the web
API opens a session, calls services with it, and commits. The bot runs its
handlers concurrently (`concurrent_updates(True)`, `app/bot.py:9944`), the web
API is asynchronous, and the web front end is a second program on the same
tables. `setup-pbozi.sh` installs two services, `pbozi-api` and `pbozi-bot`,
and each of them runs `init_db`, with its conversions, when it starts
(`app/main.py:38`, `app/bot.py:9999`). There is no lock above SQLite's, and no
isolation until a session's first INSERT or UPDATE.

### What is reachable at this commit

`run_bot` (`app/bot.py:9943-9995`) registers commands, callbacks, pre-checkout,
contacts, menu texts, successful payments and plain text, and no handler for
photos, voices or documents; plain text is answered with a notice that the bot
has no chat; groups are disabled. The bot's billing of chats, voices, photos and
documents is therefore code without a caller in this configuration. It is
modelled as it is written (`TomanBilling`, `TieredQuota`, the photo turn of
`CodexCalls`): it works on the same rows as the live paths, through the same
service. What is live:
payments by invoice and from the wallet (`InvoicePayments`), receipts sent
through the web and their review (`ManualPayments`), the subscription API and
the administrator's routes (`CodexPools`), the Codex proxy (`CodexCalls`), the
wallet and the codes (`UsdWallet`), and the charging of chats in the web front
end (`WebSpending`).

## 2. Plan

Done, in this order: `TomanBilling` with `CreditBook`, `ManualPayments`,
`CodexPools`, `CodexCalls`, `TieredQuota`, `InvoicePayments`, `WebSpending`,
`UsdWallet`, and for each of them a module of proofs.

`TomanBilling` composes accounts, ledger, sessions, the write lock, pool
assignment and usage events, because their hazards are interactions. The others
each take one component with its neighbours reduced to the steps by which they
disturb it (a charge, an expiry, a top-up); section 3 names those steps.

Every invariant and action property of the passing runs is also a theorem
(section 5). Left, in order: weaker hypotheses for the theorems about sums and
counts, by naming which pairs of operations may overlap without harm; a
statement of what the credit book promises as theorems about `CreditBook` itself;
`GroupBilling`, whose split of a cost is arithmetic the provers can do. Then
`PaymentOrders`, if its states become reachable, and `UpdateLog`, if handlers
that claim updates are registered again.

## 3. What is modelled

### 3.1 Sessions and the database

Every module models a handler as one SQLAlchemy session on SQLite in WAL mode
(`app/database.py:7-22`). Three facts about it decide where a step ends:

- A transaction begins with the first INSERT or UPDATE. What a handler SELECTs
  before that is read without a lock, so it is a step of its own (`Read...`) and
  the row it returned is kept in the session (`session[s].loaded`,
  `handler[h].row`, `turn[t].row`). `expire_on_commit=False` keeps it there
  after a commit.
- From its first write to its commit a session has the only write lock. Such a
  stretch is one step (`Commit...`), unless the handler waits for something else
  meanwhile: a chat calls the model with the lock held, so `TomanBilling` has a
  variable `writer` and three steps (`PrecheckChat`, `AuthorizeChat`,
  `FinishChat`).
- An ORM flush writes only the columns whose value differs from the loaded one,
  and writes absolute values. `Flush(current, loaded, changed)` is that rule; it
  is why a stale row can overwrite a balance, and why it overwrites only some
  columns.

A crash, a cancelled task and the 30-second lock timeout close the session and
roll back what it had not committed (`Crash`, `LockTimeout`, `Abandon`). A
handler may be started again at any later time, so a redelivered update, a
second click and a retry after a timeout are all ordinary behaviours.

### 3.2 `TomanBilling` and `CreditBook`

| TLA+ | Code |
|---|---|
| `account[u]` | a row of `user_billing_accounts`; amounts are small integers |
| `ledger` | `toman_ledger_entries` in commit order |
| `subs`, `poolUsers` | live `user_subscriptions`, `capacity_pools.active_users` |
| `usage[k]` | `usage_events.status` as committed |
| `writer` | who has SQLite's write lock across a wait |
| `ReadPurchase`, `CommitPurchase`, `RollbackPurchase` | `purchase_toman_subscription`, with `assign_subscription_pool` inside the commit |
| `ReadTopup`, `CommitTopup`, `RollbackTopup` | `apply_toman_topup` |
| `PrecheckChat`, `AuthorizeChat`, `FinishChat`, `FailChat` | `check_chat_usage_permission_toman`, the model's answer, `charge_chat_usage_toman`: a turn without tools keeps the lock |
| `OfferTools`, `FinishToolChat`, `FailToolChat` | `_run_tool_aware_completion`: listing the tools commits, the charge takes the lock again |
| `StartTranscription`, `FinishTranscription`, `FailTranscription` | `_execute_voice_transcription` |
| `StartIndexing`, `ReadIndexCharge`, `CommitIndexCharge` | `_perform_rag_indexing`, `_background_index_with_notification`, `charge_generic_usage_toman` |
| `AnswerWithoutWriting` | the early returns: already posted, active subscription, insufficient credit |
| `ExpireSubscription` | the passing of `expires_at`; no code runs |

An external event (`Keys`) is a payment, a purchase or a usage with what it asks
for (`Requests`). `keyed` says whether the caller passes an idempotency key: the
top-up of the web API does not, and the indexing charge does not because it
looks its usage event up under another id (`app/bot.py:8164`, `8173`, `8481`).

`CreditBook` is the promise in 30 lines: every event moves the balances once,
from the balances as they stand, gift credit before paid credit, never below
zero. `Book` in `TomanBilling` maps the account columns to its balances and the
posted keys to its applied events; `ImplementsCreditBook` is checked as a
property.

### 3.3 `ManualPayments`

| TLA+ | Code |
|---|---|
| `status[r]` | `payment_requests.status` ("none": the receipt is not sent yet) |
| `reviews` | `admin_actions` on payment requests |
| `CreateRequest` | `create_payment_request` |
| `BeginApproval`, `BeginRejection`, `AnswerReviewed` | the SELECT and the pending check of both routes |
| `ReadAccount`, `CommitCredit` | approval of a top-up, one commit |
| `ReadPurchase`, `CommitPurchase`, `CommitReview` | approval of a subscription, two commits |
| `CommitRejection` | rejection, which compares nothing with the status at its commit |
| `Abandon` | crash, lock timeout, unique index, no place in a pool |

The accounts of the users exist (a missing one is inserted by the same handler
and starts at zero). Only what reviews do to an account is in this module; other
operations on it are in `TomanBilling`.

Two reviews in progress together do credit a receipt twice
(`app/payment_routes.py:244` sets the status without comparing it); what holds is
that each credit has its approval and that there is at most one per handler.

### 3.4 `CodexPools`

| TLA+ | Code |
|---|---|
| `pool[p].count`, `.max` | `active_users`, `max_users` |
| `sub[x]` | a row of `user_subscriptions`; `live` is `expires_at` in the future, the status stays "active" |
| `CreatePool`, `UpdatePool` | the administrator's routes for pools |
| `BeginDeletePool`, `CommitDeletePool` | `delete_capacity_pool`: the unlocked question whether a subscription refers to the pool, and the delete, whose flush sets `pool_id` to NULL in the rows that do by then |
| `BeginDeletePlan`, `CommitDeletePlan` | `DELETE /plans/{id}`, which cascades to the subscriptions of the plan (`app/models.py:908`) and counts nothing |
| `Register` | `create_or_restore_user` with the automatic trial, whose failure is swallowed after its INSERT |
| `ReadGrant`, `ReadBulk`, `ReadBulkGrant`, `CommitGrant`, `GrantWithoutPool`, `EndBulk` | the single and the bulk grant; a bulk grant without room leaves the subscription without a pool |
| `ReadPurchase`, `CommitPurchase` | `assign_subscription_pool` in a purchase |
| `Review`, `CommitReview`, `CountUnlocked`, `CommitCount` | cancel and reactivate, with `recalculate_pool_active_users`; a second click changes nothing and counts without the lock |
| `Expire` | the passing of time |

`claim_trial` (`app/user_subscription_routes.py:349-365`) passes the user object
where the id is expected and always fails; it has no action. A pool with Codex
accounts is not deleted either; that refusal changes nothing and is no step, and
a pool the model deletes is one without accounts. Plans are not told apart: the
rows of a deleted plan are any rows. A deleted row stays in `sub` with the status
"deleted", as a record of what was given; no action reads it, and its id is not
given to another row. The design document
of the pools says a subscription is "attached to one capacity pool for its
lifetime"; a trial without room is the exception the model shows.

`TrialSpentWithPlace` and `BoughtHasPool` are about requests served one at a time.
With two they are false: a grant or a purchase that commits between the two
steps of a pool's deletion keeps its subscription and loses the pool. What holds
in every execution is that no row refers to a pool that is not there
(`NoDanglingPool` in section 5).

### 3.5 `CodexCalls`

A turn's attempt runs through `Select`, `Execute`, `RunTool`, `Record`, with the
ways it can fail (`NoneAvailable`, `LoginLost`, `LimitReached`, `NotEntitled`,
`ExecFails`, `LockRefused`), inside the retries (`AttemptFails`)
and rounds (`AskAgain`) of `stream_codex_direct_completion`. A photo's turn holds the write lock its own inner session waits for
(`writer = t` while `Record` needs it free), so that the usage of its run is
never written and the turn goes on only through SQLite's busy timeout
(`LockRefused`). A proxy request takes any usable account and ends in `Stream`,
without recording. The five-hour and the weekly counter grow together and are
reset by an administrator only, so one counter and the smaller limit stand for
both. The tokens of a run (`consumed`) are what the code reckons them to be: the
program's own count, or the estimate from the history when that is higher
(`app/llm.py:2338-2341`), and one token when there is neither
(`app/services/codex_capacity_service.py:193-201`). `NeverOvercounted` compares
the counters with these, not with the provider's books.

### 3.6 `TieredQuota`

`Check`, `CheckBalance`, `Authorize`, `AuthorizeLocked` and `Refuse` are
`check_chat_usage_permission_toman` and the flush after it; `Meter` and
`ChargeBalance` are `charge_chat_usage_toman`, in which the subscription is found
again or not; `Report` and `CommitReport` are the usage text, which clears an
expired window; `Buy`, `End` and `Tick` are a purchase, the end of a subscription
and time. `turn[t].base` and `.row` are the loaded and the current state of the
row object a chat keeps; `Flushed` writes the columns in which they differ.
`history` is what was really covered: it is no part of the system. `End` needs no
lock, since time does not.

`WithinOneCompletion` bounds the stored counter, which is what every later check
reads. Chats that overlap lose each other's counts, so what they really consume
together may exceed the limit by more; the code does not prevent it.

The button `payg_confirm` (`app/bot.py:1027`) and `resume_pending_action` (2333)
have no handler, and nothing sets `payg_consent`: a user past the quota is
refused whatever the balance, although the text at `app/bot.py:1008` offers to
pay from it. Free models are not metered and left out.

### 3.7 `InvoicePayments`

`RequestTopup` and `RequestPlan` send an invoice and fix its amount, `Pay` is the
platform taking the money, `Deliver` (inside `CompareQuote` and `CheckActive`) a
poll returning the update, `Confirm` the next poll. `CompareQuote`, `ReadTopup`,
`CommitTopup` are `_handle_successful_toman_topup_payment` and
`apply_toman_topup`; `CheckActive`, `ReadPurchase`, `CommitPurchase`, `PoolsFull`,
`Answer` are `_handle_successful_subscription_payment` and the purchase it calls;
`BuyFromWallet` is `_start_subscription_payment` from the balance. `Crash` kills
the process: handlers vanish, unconfirmed updates come again. `CommitFails` is a
refused lock after the money was taken, which is logged and nothing else.
`Usage` and `EndSubscription` are what other handlers and time do meanwhile.
`DeletePlan` is an administrator who deletes the plan, and with it the
subscriptions loaded by then; there is one plan, and it is gone for good.

`CheckActive` refuses when the plan is gone (`app/bot.py:3627`), before the ledger
is looked at, so a plan that was paid for and started is refused if its update
is delivered again after that: `StartedPlanNotRefused` excepts this and nothing
else. The comparisons of amount and user in `handle_successful_payment`
(`app/bot.py:3770-3776`) are those of the pre-checkout query (3595-3601) on the
same payload: a payment that would fail them was not taken (`Pay`), so they are
no step.

What the code does that the properties do not forbid, because the text of a
message is all that is wrong: a redelivered top-up may be answered "not credited"
although it is, when the quote has changed since; a second purchase from the
wallet on the same day, after a cancellation, finds the key of the first
(`app/bot.py:6970`) and says "activated" without a subscription.

### 3.8 `WebSpending`

| TLA+ | Code |
|---|---|
| `document`, `row` | the chat's JSON document; the rows of `chat_message`. `usage`: there are token counts |
| `save[s]` | a save under way: the document it has read, with its patch merged, and where it stands. `text`: the message is complete and has output text |
| `Place`, `Finish`, `Patch` | the saves of an assistant's message: placeholder, complete or stopped answer, edit |
| `Note` | the save of a status or a file, in the document only (`web/models/chats.py:591-627`) |
| `LoadRow`, `CommitRow`, `RowFails` | `upsert_message`: the read of the row, its commit, an error, which is logged |
| `Triggered` | whether the save charges, decided on the row it has read |
| `CalculateCost` | `_calculate_cost`: 0 without tokens and text, and then nothing is recorded |
| `FindUser`, `CreateUser`, `ReadBilling`, `CommitSpending`, `RecordFails` | `record_spending_from_message`; `RecordFails` is also the database of the bot that is not available |
| `WriteDocument` | `update_chat_by_id`, which writes the document as it was read |
| `Cancel` | the task of a save is cancelled, or the process dies |
| `TopUp`, `BotCharge`, `Link` | the bot and the administration on the same rows |

Neither the quota nor the balance ever refuses a chat here; a charge counts in
the quota and also takes from the balance; a cost above the balance takes what is
there and posts the full amount; an error is swallowed and the spending is lost.
`Costs` is what `_calculate_cost` returns when there are tokens or text: at least
1 (`web/utils/spending.py:77-80`).

`unpaid` and `failed` are no part of the system. `unpaid` collects the messages
whose row was committed complete, with token counts in it or with text in the
save that wrote it, and takes one out when it is charged or when a save that was
to charge it fails or is cancelled (then it is in `failed` until another save
charges it). `FinishedCharged` says that
for each message left in `unpaid` a save is at work that will charge it or fail.
It is not about an answer that is empty: one that was stopped before any text, or
whose content another save's stale document has emptied before the complete one
is written, has neither tokens nor text. The code charges nothing for it and
records no failure (`web/utils/spending.py:218-224`).

`NeverOvercharged` counts the bot as `BotCharge`, which writes the balance with a
ledger entry. The bot's tiered metering raises the quota without one
(`app/services/toman_billing_service.py:661-664`); it is not among the steps
here, so what is said of the quota is said of the web front end's own writes.

### 3.9 `UsdWallet`

`wallet` is the row of `wallets`, `mirror` the older column
`credit_balance_usd` both of whose values a write sets, `posted` the sums of the
ledgers. `BeginRedeem`, `CheckCode`, `RedeemUsd`, `RedeemToman`, `RefuseCode` are
`redeem_promo_code_for_user`; `BeginImage`, `ReadWallet`, `DebitImage`, `RefuseImage` the
image tool's debit (which a failure of the provider does not give back);
`SignUp` the starter credit; `BeginConvert`, `ReadAccount`, `Convert` the
conversion to Tomans at start (`app/database.py:746-777`); `SwitchCode` the
activation of a code (`unlimited` is one without `max_redemptions_total`); `WalletRefused` the insert of a wallet that another
session has inserted; `Abandon` a crash or a refused lock.

The conversion reads without the lock and posts no ledger row. A debit between
its read and its write, or both processes starting together, converts the same
dollar twice: `UsdConserved` is stated for executions without overlap. The mirror
column is not written when its new value equals the loaded one, so with overlap
the two columns can differ. `UsdConserved` therefore detects neither of these
two hazards, which need an overlap; it is about the sequences of operations,
restarts and requests given up in between. A code with `expires_at` is never redeemed:
`app/services/promo_code_service.py:65` compares a time with a zone to one
without, which raises.

## 4. Runs

| Run | Question | Instance |
|---|---|---|
| `serial` | With no second session, do account and ledger agree, and is the service a credit book? | 1 session, 1 user; two purchases (with a wallet part and a gift, and by invoice without), a keyed and an unkeyed top-up, a chat, a voice message, an indexed document; 2 places in a pool |
| `concurrent` | What survives two sessions? | 2 sessions, 2 users, one place in the pool, purchases of both users, a top-up, a chat, an indexing |
| `manual` | Are approvals paid, granted once and counted, with two reviews at once? | 2 handlers, a receipt and two subscription requests of one user |
| `codex_calls` | Is usage counted right, and does every turn end, when turns share accounts? | a turn with tools, a photo and a proxy request on accounts of 2 and 1 tokens; 1 retry, 1 round, 2 runs per request |
| `codex_pools` | Does the kept counter protect the pools? | 1 session, 2 users, 3 rows, 1 pool with limit 1 or 2, deletions of the pool and of any rows |
| `tiered` | Are the counters exact, and near the limit with overlap? | 2 turns, a week of 2 instants, a cooldown of 1, limits 3 and 2, costs 1 and 2, 2 subscriptions, 4 instants |
| `invoices` | Is money taken credited once and answered? | 2 invoices of any kind, 1 wallet purchase, 1 restart, 1 usage, 1 day, a plan that may be deleted |
| `spending` | Is an answer charged, and never beyond its entry? | 2 messages, 2 savers, a cost of 1 on an empty balance, a top-up, a charge of the bot |
| `usd_wallet` | Are codes within their limits and dollars conserved? | 2 sessions, a user with one old dollar or one who signs up, a dollar code (unlimited in all, 1 per user) and a Toman code (1 in all) |
| `lost_update`, `proxy_usage`, `wallet_share` | see section 6 | the smallest instance that shows it |

### Bounds

Two sessions make every pair of stale reads and commits; a third adds no new
kind of overlap, because a session interacts with the others only through what
was committed between its read and its commit, and two sessions already commit
any sequence of events in that gap. The theorems of section 5 hold for any
number. Two costs, the estimate and more than it, make a charge fit, exhaust the
gift, and fail. One place for two buyers is the race for the last place.
`MaxEntries` bounds the ledger only for events without a key, which could be
repeated forever; keyed events bound themselves; with it an unkeyed event still
runs several times in a row. Three payment requests make a subscription live
while another one of the same user is being reviewed. Three rows fill a pool
of one or two places and ask for another, or leave one expired, one cancelled
and one live; one pool is enough for that, since what the properties say of a
pool looks at that pool alone, and the order among several pools is checked by
nothing but the choice of the first with room. A pool may be deleted and
created again. A cost of 1 on a balance of 0 or 1 (after the top-up) is paid in
full or not at all, and finds the balance changed since it was read; a cost paid
in part is covered by the theorems, which hold for every cost. One day is enough
for `PaymentAnswered`, the only property of `invoices` that is not also proved
for any number of days: the day is part of the key of a wallet purchase and of
nothing an invoice does. Four
instants let a week and two cooldown windows end while a chat waits. One restart
falls at any point of two payments. `MaxRetries`, `MaxRounds` and `MaxRuns` above
zero are enough for each limit to be reached while the others still have room.

Bounds are constants of the modules and appear in guards only: `MaxEntries`
(`TomanBilling`), `MaxNow`, `MaxSubs` (`TieredQuota`), `MaxSpent`, `MaxDay`,
`MaxCrashes` (`InvoicePayments`), `MaxCredits`, `MaxDebits` (`WebSpending`). The
three limits of `CodexCalls` are the code's own, with smaller values.

`serial` holds one session on purpose: its properties are false with two (the
run `lost_update` shows it of `BalanceIsLedgerSum`), and the question is what the code
computes when nothing interferes. `codex_pools` holds one session because
its properties do not hold with two: a second click counts without the lock, and
a purchase that commits before that count is written is forgotten; a pool is
deleted under the subscription that has just entered it. `tiered`, `invoices` and `usd_wallet` do overlap operations; the
properties that cannot hold then say so themselves (`overlapped`, `raced`).

Symmetry is used in runs without liveness properties, over sessions, handlers,
turns or savers, over messages, and over users and rows in `codex_pools`, where
nothing tells them apart. Pools are numbered and tried in order, and keys have
different requests: neither is interchangeable.

### Deadlock

Deadlock is checked, except in two modules. The clock of `TieredQuota` stops at
`MaxNow`, and in `InvoicePayments` nothing is left to happen when every invoice
is settled. In the others an early return, a new request or an idle system is
always possible, as it is in the service; `Finished` of `CodexCalls` is the
stutter of turns that are all over.

### Fairness

`CodexCalls` assumes `WF(Advance(t))` for each turn: a started turn goes on. The
Codex program runs under a timeout of its own, SQLite grants or refuses a lock
within its busy timeout, and a coroutine whose await has returned is scheduled.
`TurnsFinish` is then that the turn which waits for its own lock, and those that
wait behind it, all end. Nothing is assumed of `Begin` or `Crash`.

`InvoicePayments` assumes `WF(Begin(i) \/ Handle(i))` for each invoice: the bot
polls, and a handler that can go on does. Nothing is assumed of users, usage, the
confirming poll or crashes. `PaymentAnswered` is then that a paid invoice is in
the end credited, refused, failed visibly, or lost with a process that died after
the update was confirmed; it is the statement of what can become of money, with
the two bad outcomes named.

## 5. What is proved

All theorems hold for every value of the constants that the named assumptions of
the modules allow: any set of users, sessions, handlers, turns, savers, requests,
codes, pools and amounts (natural numbers; sets are finite where something is
counted). Each module `XProofs` proves an inductive invariant of `X`, from which
its theorems follow.

| Module | Theorems | What the invariant adds, and why it is needed |
|---|---|---|
| `TomanBillingProofs` | `TypeCorrect`, `NeverOverdrawn`, `PostedOnce`, `UsagesSettled`, `PoolsNotOversold`, `MovesJournaled`, `FreshBalances`, `SerialBalances`, `FreshImplements`, `SerialImplements` | A session serves an event of the kind its next step expects. The balance a commit writes is computed from a stale row, so the row each session has loaded is not negative and covers what the session is about to take: the guard was evaluated on that very row. A keyed row of either kind is found by `Posted`, so a commit that passed the index appends the first rows of its key. A usage event that is settled is of a kind whose end decides both the status and the charge, under one lock. Live subscriptions are finitely many, so that one more of them is one more in its pool. |
| `ManualPaymentsProofs` | `TypeCorrect`, `ApprovedPaid`, `GrantOnce`, `CreditsMatch`, `ReviewsBound`, `NothingOvercredited`, `FreshCreditsExplained`, `LoneCreditsExplained` | A handler past the purchase has its grant in the ledger, and rows stay; so the review may be committed apart, by another attempt, after the subscription expired. Reviews made and handlers open on a request together never outnumber the handlers. The balance a handler has loaded was explained by the ledger when it was read; rows are only added and their deltas are not negative, so it is explained still when it is written. |
| `CodexCallsProofs` | `TypeCorrect`, `Overcount`, `OneRequestOver`, `Bounded` | What a turn has loaded is at most what is consumed without its own unwritten tokens, and had capacity when loaded; tokens are bounded by the runs of the request; calls are bounded by the requests spent, with the current one added. |
| `CodexPoolsProofs` | `TypeCorrect`, `NoDanglingPool`, `FreshTrialPlaced`, `SerialTrialPlaced`, `FreshBoughtPlaced`, `SerialBoughtPlaced`, `FreshCountCovers`, `SerialCountCovers`, `FreshAdmissionsFit`, `SerialAdmissionsFit` | A row that does not exist has no pool, and a session that reviews a row has one that was there. A pool that an existing row names exists, so none is created, with a counter of 0, under an id that live subscriptions still refer to. |
| `TieredQuotaProofs` | `TypeCorrect`, `OneCompletionOver`, `Spares`, `CountersExact` | The counters in every held row are bounded like those in the table, and the row a chat was admitted with still admits it, since nothing else writes that object. Without overlap, the row a chat holds differs from the table's in resets only, each counter with its deadline (`WeekSince`, `WindowSince`), and a window it cleared had ended before any that starts now: so a flush, which writes the columns that differ, writes the whole row. |
| `InvoicePaymentsProofs` | `TypeCorrect`, `CreditedOnce`, `NeverTwoPlans`, `StartedKept`, `DiscountOnce` | Every handled invoice was sent; a handler that has loaded is the first of its invoice; while nothing raced, what it has loaded is what the tables hold. A handler that has found the discount unused finds it unused at its commit, and an invoice credited with the discount has used it. |
| `WebSpendingProofs` | `TypeCorrect`, `Overcharge`, `AnswersCharged` | What each saver has loaded of quota and balance is within what is posted and taken, up to the top-ups that came after its read. In every copy of the document, the stored one and those in the savers' hands, token counts come with a complete answer; a message whose row has counts is charged, given up or unpaid, a row that a saver has read shows no counts that are not on it still, and an unpaid message has a saver that is to record it. |
| `UsdWalletProofs` | `TypeCorrect`, `LimitsNearlyKept`, `DollarsConserved` | Every request past its check holds one place of the code until its redemption is counted: redemptions and pending requests together stay below the limit plus the number of sessions. Redemptions of a code are numbered within their count, so a new row is a new element. Until two operations overlap, at most one is open, and what it has loaded is what the tables hold. |

`TypeCorrect` is more than typing where the type says `Nat`: no wallet
(`UsdWallet`), counter (`CodexCalls`, `CodexPools`, `TieredQuota`) or balance
(`WebSpending`, `InvoicePayments`) is ever negative, although each is written
from a row that may be stale.

### Hypotheses

Seven properties hold only when no one writes over what another has changed; the
theorems about them say so in one of two ways. `FreshBalances`,
`FreshImplements`, `FreshCreditsExplained`, `FreshCountCovers`,
`FreshAdmissionsFit`, `FreshTrialPlaced` and `FreshBoughtPlaced` are about every
execution, with any number of sessions, in which a state predicate holds
throughout: `NoStaleRow` (an account row that a session or a review has read and
will write from is the table's), `NoStaleCount` (a recount about to be written
replaces the counter that was loaded, and covers the live subscriptions) or
`NoStaleDelete` (no row refers to a pool that a session is about to delete). They
say that a stale read is the
only thing that breaks the property: no crash, redelivery, refused lock, expiry
or order of events does. The run `lost_update` shows that it does break it.
`SerialBalances`, `SerialImplements`, `LoneCreditsExplained`,
`SerialCountCovers`, `SerialAdmissionsFit`, `SerialTrialPlaced` and
`SerialBoughtPlaced` assume instead that there is at
most one session or review (`OneSession`, `OneHandler`) and prove that nothing is ever
stale then; this is what the runs `serial` and `codex_pools` check; the equality of
balances and ledger for manual payments (`BalancesExplained`) is stated in
`ManualPaymentsProofs` alone, beside the inequality its run checks. `QuotaExact`,
`ReducedOnce`, `BalanceExact`, `OneSubscription` and `UsdConserved` have their
hypothesis in the property itself (`history.overlapped`, `raced`, `overlapped`):
it speaks of the past only, so the property binds until the first overlap.

### Sums and the refinement

A sum over the ledger (`Total`, `GiftPosted`, `PaidPosted`) is a recursive
function over the positions. The proofs use it through two facts, `TotalStep`
(one row more adds its delta) and `TotalType`; these come from `SetInduction`,
induction on the naturals stated about a set instead of an operator, which
follows from the library's well-foundedness of `<`. Both modules that sum prove
these lemmas.

For `ImplementsCreditBook` the proof shows one mapped step per commit: a purchase
is a `Buy`, a top-up a `Credit`, the three charges a `Spend`, everything else
leaves the book unchanged. It uses the invariant of `NeverOverdrawn` for the
guards of the book (what is taken is covered by the row, and the row is the
table's).

Only model-checked: liveness (`TurnsFinish`, `PaymentAnswered`), which is out of
the prover's reach. The three properties of the runs that expect a violation are
false, and stay runs.

## 6. Findings

1. `lost_update`: `apply_toman_topup` writes a balance computed from a row that a
   chat charge may have changed since; the charge stays in the ledger and returns
   to the balance. `account.version` is incremented but never compared.
2. `proxy_usage`: a request through the Codex proxy is answered and never counted
   on its account, because both consumers leave the stream at `[DONE]`, before
   the line that records.
3. `wallet_share`: the share of a plan that the invoice leaves to the wallet is
   never debited: the charge is made with a cost of zero.

The lines and the statements they contradict are in `PROJECT.json`. Smaller
disagreements met on the way, without a run: two approvals of a receipt in
progress together both credit it (`app/payment_routes.py:244`); the ledger row of
a manual payment does not record the gift balance (line 305); the charge of an
indexed document is not linked to its usage event (`app/bot.py:8164`, `8481`);
`active_users` is incremented, not recalculated, by a purchase
(`app/services/codex_capacity_service.py:105`), so expired subscriptions keep
their places until the next review in their pool.

## 7. Not modelled

- `PaymentOrders`: the states `awaiting_*` of an order are never set, the Bale
  bot that would approve orders reads an undefined name and omits a field the
  route demands; what remains are administrator routes that set a status.
- `UpdateLog`: no handler registered at this commit claims its update, and the
  payment handler does not either. Redelivery is part of `TomanBilling` and
  `InvoicePayments`, whose idempotency does not rest on the log.
- Group billing is disabled in the bot; its split is arithmetic. The bot's
  runtime, administrator CRUD, backups, prompts, parsing, front ends: plumbing,
  I/O or presentation.
- Reads of one phase are one step: between the SELECTs a handler makes before its
  first write, other sessions do not commit. The gap that matters, between those
  reads and the write, is a step.
- Prices: amounts are small integers, a cost is at least 1. In the bot, models
  that cost nothing skip the charge; the web front end's cost of 0, which skips
  it too, is a step of `WebSpending`.
- Users with the role of administrator, who skip the balance check, and the charge
  for audio in a document.
- Imports and backfills of whole chats in the web front end
  (`web/models/chats.py`), which insert and charge rows of their own, and chats
  posted whole by the browser.
- An administrator's overwrite of `active_users`; the bot's older copies of the
  wallet's credit and debit, which nothing reaches; the link a Toman redemption
  sets in a second commit.
- `mark_first_topup_discount_used`, which nothing calls.
- Notifications and everything else a handler does after its last commit.

In each module, an operator that stands just before another one and that no
definition uses is a faulty variant of it: put in its place it makes a run fail,
which shows that the properties depend on that piece of code.
