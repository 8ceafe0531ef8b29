------------------------------ MODULE CodexPools ------------------------------
(***************************************************************************)
(* Capacity pools, the subscriptions attached to them and the trials       *)
(* (codex_capacity_service.py, trial_service.py, account_service.py and    *)
(* the administrator's routes).                                            *)
(*                                                                         *)
(* capacity_pools.active_users is a counter kept beside the subscriptions: *)
(* it is raised when a subscription is assigned and recounted when one is  *)
(* cancelled or reactivated; nothing lowers it when one expires.  As in    *)
(* TomanBilling, a handler reads without a lock until its first write; a   *)
(* route that changes nothing in the subscription counts without the lock, *)
(* and a recount is written only where it differs from the pool row that   *)
(* was loaded with the subscription.                                       *)
(*                                                                         *)
(* A trial inserts its subscription before it asks for a pool.  When no    *)
(* pool has room the administrator's single grant is rolled back, but the  *)
(* registration of a user and the bulk grant swallow the error and commit  *)
(* the subscription as it is, active and without a pool.                   *)
(*                                                                         *)
(* The administrator can delete a pool that no subscription refers to, and *)
(* a plan with its subscriptions.  Both look first and delete later: a     *)
(* subscription that entered the pool meanwhile loses it, one to the plan  *)
(* committed meanwhile stays.                                              *)
(***************************************************************************)
EXTENDS Integers, FiniteSets

CONSTANTS
    Users,
    Subs,        \* rows of user_subscriptions
    Pools,       \* ids of capacity pools
    Sessions,    \* requests handled at once
    Limits,      \* values an administrator gives max_users
    NoUser, NoSub, NoPool

ASSUME SubsAssumption == IsFiniteSet(Subs)
ASSUME PoolsAssumption == Pools \subseteq Nat /\ NoPool \notin Pools
ASSUME LimitsAssumption == Limits \subseteq Nat
ASSUME NobodyAssumption == NoUser \notin Users /\ NoSub \notin Subs

VARIABLES
    pool,        \* capacity_pools
    sub,         \* user_subscriptions
    registered,  \* user_preferences that exist
    trialUsed,   \* users with trial_used
    session      \* what each session has read

vars == <<pool, sub, registered, trialUsed, session>>

PoolRow == [status : {"absent", "active", "disabled"}, count : Nat, max : Nat]

(* live: expires_at is in the future.  A row keeps status "active" when it *)
(* expires.  A deleted row is kept as a record of what has been: no code   *)
(* reads it, and its id is not given again (SQLite may, to a later row).   *)
SubRow == [status : {"none", "active", "cancelled", "deleted"}, live : BOOLEAN,
           pool : Pools \cup {NoPool}, user : Users \cup {NoUser}, trial : BOOLEAN]

NoRow == [status |-> "none", live |-> FALSE, pool |-> NoPool, user |-> NoUser,
          trial |-> FALSE]

(* "bulk": between two users of a bulk grant, left to serve, seen by the   *)
(* query as having a used trial; "granting", "buying": checked, the INSERT *)
(* to come; "reviewing": subscription row and pool row are loaded;         *)
(* "counted": the subscription was not changed and the count is taken      *)
(* without the lock; "deleting": no subscription of pool was found;        *)
(* "removing": rows are the loaded subscriptions of a plan.                *)
PCs == {"idle", "bulk", "granting", "buying", "reviewing", "counted", "deleting", "removing"}

SessionRow ==
    [pc : PCs, user : Users \cup {NoUser}, left : SUBSET Users, seen : SUBSET Users,
     bulk : BOOLEAN, sub : Subs \cup {NoSub}, row : SubRow, to : {"active", "cancelled"},
     pool : Pools \cup {NoPool}, loaded : Nat, counted : Nat, rows : SUBSET Subs]

Idle == [pc |-> "idle", user |-> NoUser, left |-> {}, seen |-> {}, bulk |-> FALSE,
         sub |-> NoSub, row |-> NoRow, to |-> "active", pool |-> NoPool, loaded |-> 0,
         counted |-> 0, rows |-> {}]

TypeOK ==
    /\ pool \in [Pools -> PoolRow]
    /\ sub \in [Subs -> SubRow]
    /\ registered \subseteq Users
    /\ trialUsed \subseteq Users
    /\ session \in [Sessions -> SessionRow]

-----------------------------------------------------------------------------
Exists(x) == sub[x].status \in {"active", "cancelled"}

(* recalculate_pool_active_users counts active and unexpired rows.         *)
Live(x) == sub[x].status = "active" /\ sub[x].live
LiveIn(p) == {x \in Subs : sub[x].pool = p /\ Live(x)}

Counted(p) == Cardinality(LiveIn(p))

(* TrialService looks at the status only: a row that has expired counts.   *)
HasActive(u) == \E x \in Subs : sub[x].user = u /\ sub[x].status = "active"
HasLive(u) == \E x \in Subs : sub[x].user = u /\ Live(x)

FullToo == {p \in Pools : pool[p].status = "active" /\ pool[p].count <= pool[p].max}
Free == {p \in Pools : pool[p].status = "active" /\ pool[p].count < pool[p].max}

Inserted(x, u, p, trial) ==
    sub' = [sub EXCEPT ![x] = [status |-> "active", live |-> TRUE, pool |-> p,
                               user |-> u, trial |-> trial]]

(* assign_subscription_pool, under the write lock of the INSERT.           *)
Assign(p) ==
    pool' = [pool EXCEPT ![p].count = IF @ < pool[p].max THEN @ + 1 ELSE pool[p].max]

Attach(x, u, trial) ==
    \E p \in Free :
        /\ \A q \in Free : p <= q
        /\ Inserted(x, u, p, trial)
        /\ Assign(p)

FreshRows == {x \in Subs : sub[x].status = "none"}

Close(s) == session' = [session EXCEPT ![s] = Idle]

(* After a grant: the bulk route goes on, the single one is done.          *)
Granted(s) ==
    session' = [session EXCEPT ![s] = IF @.bulk
                                      THEN [@ EXCEPT !.pc = "bulk", !.user = NoUser]
                                      ELSE Idle]

-----------------------------------------------------------------------------
Init ==
    /\ pool = [p \in Pools |-> [status |-> "absent", count |-> 0, max |-> 0]]
    /\ sub = [x \in Subs |-> NoRow]
    /\ registered = {}
    /\ trialUsed = {}
    /\ session = [s \in Sessions |-> Idle]

CreatePool(s, p, max) ==
    /\ session[s].pc = "idle"
    /\ pool[p].status = "absent"
    /\ pool' = [pool EXCEPT ![p] = [status |-> "active", count |-> 0, max |-> max]]
    /\ UNCHANGED <<sub, registered, trialUsed, session>>

(* An administrator changes max_users or the status (active_users too, by  *)
(* hand: that overwrite is left out).                                      *)
UpdatePool(s, p, status, max) ==
    /\ session[s].pc = "idle"
    /\ pool[p].status # "absent"
    /\ pool' = [pool EXCEPT ![p].status = status, ![p].max = max]
    /\ UNCHANGED <<sub, registered, trialUsed, session>>

(* The route asks without a lock whether a subscription refers to the      *)
(* pool.  (A pool with Codex accounts is refused as well: a request that   *)
(* does nothing.)                                                          *)
BeginDeletePool(s, p) ==
    /\ session[s].pc = "idle"
    /\ pool[p].status # "absent"
    /\ \A x \in Subs : Exists(x) => sub[x].pool # p
    /\ session' = [session EXCEPT ![s].pc = "deleting", ![s].pool = p]
    /\ UNCHANGED <<pool, sub, registered, trialUsed>>

(* The INSERT of the admin action takes the lock; the flush of the delete  *)
(* sets pool_id to NULL in the rows that refer to the pool by then.        *)
CommitDeletePool(s) ==
    LET p == session[s].pool
    IN  /\ session[s].pc = "deleting"
        /\ pool' = [pool EXCEPT ![p] = [status |-> "absent", count |-> 0, max |-> 0]]
        /\ sub' = [x \in Subs |-> IF Exists(x) /\ sub[x].pool = p
                                  THEN [sub[x] EXCEPT !.pool = NoPool] ELSE sub[x]]
        /\ Close(s)
        /\ UNCHANGED <<registered, trialUsed>>

(* DELETE /plans/{id}: the delete cascades to the subscriptions of the     *)
(* plan, loaded without the lock.  Plans are not told apart here: the rows *)
(* of one are any rows (of a plan without any, nothing is deleted here).   *)
BeginDeletePlan(s, rows) ==
    /\ session[s].pc = "idle"
    /\ rows # {} /\ \A x \in rows : Exists(x)
    /\ session' = [session EXCEPT ![s].pc = "removing", ![s].rows = rows]
    /\ UNCHANGED <<pool, sub, registered, trialUsed>>

(* No count is taken: the counters of the pools stay as they are.          *)
CommitDeletePlan(s) ==
    /\ session[s].pc = "removing"
    /\ sub' = [x \in Subs |-> IF x \in session[s].rows
                              THEN [sub[x] EXCEPT !.status = "deleted", !.live = FALSE]
                              ELSE sub[x]]
    /\ Close(s)
    /\ UNCHANGED <<pool, registered, trialUsed>>

(* create_or_restore_user: the flushed user row holds the lock while the   *)
(* trial is granted, when it is enabled and automatic; what fails in it is *)
(* swallowed and the rest committed.                                       *)
RegisterBurningTrial(s, u, x, automatic) ==
    /\ session[s].pc = "idle"
    /\ u \notin registered
    /\ registered' = registered \cup {u}
    /\ \/ ~automatic /\ UNCHANGED <<pool, sub, trialUsed>>
       \/ automatic /\ Attach(x, u, TRUE) /\ trialUsed' = trialUsed \cup {u}
       \/ /\ automatic /\ Free = {}
          /\ Inserted(x, u, NoPool, TRUE)
          /\ trialUsed' = trialUsed \cup {u} /\ UNCHANGED pool
    /\ UNCHANGED session

Register(s, u, x, automatic) ==
    /\ session[s].pc = "idle"
    /\ u \notin registered
    /\ registered' = registered \cup {u}
    /\ \/ ~automatic /\ UNCHANGED <<pool, sub, trialUsed>>
       \/ automatic /\ Attach(x, u, TRUE) /\ trialUsed' = trialUsed \cup {u}
       \/ automatic /\ Free = {} /\ Inserted(x, u, NoPool, TRUE) /\ UNCHANGED <<pool, trialUsed>>
    /\ UNCHANGED session

-----------------------------------------------------------------------------
(* grant_trial_subscription by an administrator, alone or in bulk.         *)
ReadGrant(s, u) ==
    /\ session[s].pc = "idle"
    /\ u \in registered \ trialUsed
    /\ ~HasActive(u)
    /\ session' = [session EXCEPT ![s].pc = "granting", ![s].user = u]
    /\ UNCHANGED <<pool, sub, registered, trialUsed>>

ReadBulk(s) ==
    /\ session[s].pc = "idle"
    /\ session' = [session EXCEPT ![s] = [Idle EXCEPT !.pc = "bulk", !.bulk = TRUE,
                                                      !.left = registered,
                                                      !.seen = trialUsed]]
    /\ UNCHANGED <<pool, sub, registered, trialUsed>>

(* The user's trial_used is the one the query at the start has loaded.     *)
ReadBulkGrant(s, u) ==
    /\ session[s].pc = "bulk"
    /\ u \in session[s].left
    /\ session' = [session EXCEPT
          ![s].left = @ \ {u},
          ![s].pc = IF u \in session[s].seen \/ HasActive(u) THEN "bulk" ELSE "granting",
          ![s].user = IF u \in session[s].seen \/ HasActive(u) THEN NoUser ELSE u]
    /\ UNCHANGED <<pool, sub, registered, trialUsed>>

(* skip_if_used = false: clearing trial_used takes the lock, the checks of *)
(* the grant are made under it.                                            *)
BulkRegrant(s, u, x) ==
    /\ session[s].pc = "bulk"
    /\ u \in session[s].left \cap session[s].seen
    /\ ~HasActive(u)
    /\ \/ Attach(x, u, TRUE) /\ trialUsed' = trialUsed \cup {u}
       \/ /\ Free = {} /\ Inserted(x, u, NoPool, TRUE)
          /\ trialUsed' = trialUsed \ {u} /\ UNCHANGED pool
    /\ session' = [session EXCEPT ![s].left = @ \ {u}]
    /\ UNCHANGED registered

CommitGrant(s, x) ==
    /\ session[s].pc = "granting"
    /\ Attach(x, session[s].user, TRUE)
    /\ trialUsed' = trialUsed \cup {session[s].user}
    /\ Granted(s)
    /\ UNCHANGED registered

(* No pool has room: rolled back with the request, or committed with the   *)
(* rest of the bulk grant, which holds the lock until then (when it fails  *)
(* before, that is an Abort in front of this step).                        *)
GrantWithoutPool(s, x) ==
    /\ session[s].pc = "granting"
    /\ Free = {}
    /\ \/ session[s].bulk /\ Inserted(x, session[s].user, NoPool, TRUE)
       \/ ~session[s].bulk /\ UNCHANGED sub
    /\ Granted(s)
    /\ UNCHANGED <<pool, registered, trialUsed>>

EndBulk(s) ==
    /\ session[s].pc = "bulk"
    /\ session[s].left = {}
    /\ Close(s)
    /\ UNCHANGED <<pool, sub, registered, trialUsed>>

(* purchase_toman_subscription, as far as the pool is concerned.           *)
ReadPurchase(s, u) ==
    /\ session[s].pc = "idle"
    /\ u \in registered
    /\ ~HasLive(u)
    /\ session' = [session EXCEPT ![s].pc = "buying", ![s].user = u]
    /\ UNCHANGED <<pool, sub, registered, trialUsed>>

PurchaseUnassigned(s, x) ==
    /\ session[s].pc = "buying"
    /\ \/ Attach(x, session[s].user, FALSE)
       \/ Free = {} /\ Inserted(x, session[s].user, NoPool, FALSE) /\ UNCHANGED pool
    /\ Close(s)
    /\ UNCHANGED <<registered, trialUsed>>

CommitPurchase(s, x) ==
    /\ session[s].pc = "buying"
    /\ Attach(x, session[s].user, FALSE)
    /\ Close(s)
    /\ UNCHANGED <<registered, trialUsed>>

-----------------------------------------------------------------------------
(* cancel_user_subscription and reactivate_user_subscription.              *)
Review(s, x, to) ==
    LET p == sub[x].pool
    IN  /\ session[s].pc = "idle"
        /\ Exists(x)
        /\ session' = [session EXCEPT
              ![s].pc = "reviewing", ![s].sub = x, ![s].row = sub[x], ![s].to = to,
              ![s].pool = p, ![s].loaded = IF p = NoPool THEN 0 ELSE pool[p].count]
        /\ UNCHANGED <<pool, sub, registered, trialUsed>>

(* What is written is decided on the row that was loaded: a column whose   *)
(* value does not change is left out, the date is set when the row had     *)
(* expired.                                                                *)
Extends(s) == session[s].to = "active" /\ ~session[s].row.live

Changes(s) == session[s].row.status # session[s].to \/ Extends(s)

(* The UPDATE of a row that is gone fails: then there is only the Abort.   *)
Reviewed(s) ==
    LET x == session[s].sub
        r == session[s]
    IN  /\ Exists(x)
        /\ sub' = [sub EXCEPT ![x].status = IF r.row.status = r.to THEN @ ELSE r.to,
                              ![x].live = @ \/ Extends(s)]

(* The flush of the changed pool row: nothing when the value is the loaded *)
(* one, an error when the pool is gone.                                    *)
Written(s, p, count) ==
    \/ count = session[s].loaded /\ UNCHANGED pool
    \/ /\ count # session[s].loaded /\ pool[p].status # "absent"
       /\ pool' = [pool EXCEPT ![p].count = count]

CommitWithoutRecount(s) ==
    /\ session[s].pc = "reviewing"
    /\ Changes(s)
    /\ Reviewed(s)
    /\ Close(s)
    /\ UNCHANGED <<pool, registered, trialUsed>>

ReviewByOne(s) ==
    LET p == session[s].pool
    IN  /\ session[s].pc = "reviewing"
        /\ Changes(s)
        /\ Reviewed(s)
        /\ IF p = NoPool \/ session[s].to = "active" THEN UNCHANGED pool
           ELSE Written(s, p, pool[p].count - 1)
        /\ Close(s)
        /\ UNCHANGED <<registered, trialUsed>>

(* The change is flushed in front of the count, which sees it, locked.     *)
CommitReview(s) ==
    LET p == session[s].pool
    IN  /\ session[s].pc = "reviewing"
        /\ Changes(s)
        /\ Reviewed(s)
        /\ IF p = NoPool THEN UNCHANGED pool
           ELSE Written(s, p, Cardinality({x \in Subs : Live(x)' /\ sub[x].pool = p}))
        /\ Close(s)
        /\ UNCHANGED <<registered, trialUsed>>

(* A second click: nothing to flush, so the count is taken unlocked.       *)
CountUnlocked(s) ==
    LET p == session[s].pool
    IN  /\ session[s].pc = "reviewing"
        /\ ~Changes(s)
        /\ session' = [session EXCEPT
              ![s].pc = "counted", ![s].sub = NoSub, ![s].row = NoRow,
              ![s].counted = IF p = NoPool THEN @ ELSE Counted(p)]
        /\ UNCHANGED <<pool, sub, registered, trialUsed>>

CommitCount(s) ==
    LET p == session[s].pool
    IN  /\ session[s].pc = "counted"
        /\ IF p = NoPool THEN UNCHANGED pool ELSE Written(s, p, session[s].counted)
        /\ Close(s)
        /\ UNCHANGED <<sub, registered, trialUsed>>

(* An exception, a cancelled request, or the end of the process.           *)
Abort(s) ==
    /\ session[s].pc # "idle"
    /\ Close(s)
    /\ UNCHANGED <<pool, sub, registered, trialUsed>>

(* Time passes; no code runs.                                              *)
Expire(x) ==
    /\ Live(x)
    /\ sub' = [sub EXCEPT ![x].live = FALSE]
    /\ UNCHANGED <<pool, registered, trialUsed, session>>

Admit(s, x) == CommitGrant(s, x) \/ CommitPurchase(s, x)

Next ==
    \/ \E s \in Sessions, p \in Pools, max \in Limits : CreatePool(s, p, max)
    \/ \E s \in Sessions, p \in Pools, status \in {"active", "disabled"}, max \in Limits :
          UpdatePool(s, p, status, max)
    \/ \E s \in Sessions, p \in Pools : BeginDeletePool(s, p)
    \/ \E s \in Sessions, rows \in SUBSET Subs : BeginDeletePlan(s, rows)
    \/ \E s \in Sessions : CommitDeletePool(s) \/ CommitDeletePlan(s)
    \/ \E s \in Sessions, u \in Users, x \in FreshRows, automatic \in BOOLEAN :
          Register(s, u, x, automatic)
    \/ \E s \in Sessions, u \in Users :
          ReadGrant(s, u) \/ ReadBulkGrant(s, u) \/ ReadPurchase(s, u)
    \/ \E s \in Sessions : ReadBulk(s) \/ EndBulk(s)
    \/ \E s \in Sessions, u \in Users, x \in FreshRows : BulkRegrant(s, u, x)
    \/ \E s \in Sessions, x \in FreshRows : Admit(s, x) \/ GrantWithoutPool(s, x)
    \/ \E s \in Sessions, x \in Subs, to \in {"active", "cancelled"} : Review(s, x, to)
    \/ \E s \in Sessions : CommitReview(s) \/ CountUnlocked(s) \/ CommitCount(s)
    \/ \E s \in Sessions : Abort(s)
    \/ \E x \in Subs : Expire(x)

Spec == Init /\ [][Next]_vars

-----------------------------------------------------------------------------
(* Properties of executions with one session at a time.  With several, a   *)
(* pool can be deleted under a grant or a purchase that has just entered   *)
(* it.                                                                     *)

(* A trial is spent only with a place: a user whose trial counts as used   *)
(* was given a trial subscription in a pool, whatever failed halfway; it   *)
(* may have been deleted with its plan since.                              *)
TrialSpentWithPlace ==
    \A u \in trialUsed :
        \E x \in Subs : sub[x].user = u /\ sub[x].trial /\ sub[x].pool # NoPool

(* Only a trial can be left without a pool; what is bought never is, in    *)
(* whatever order purchases, limits, reviews and deletions come.           *)
BoughtHasPool ==
    \A x \in Subs : sub[x].status # "none" /\ ~sub[x].trial => sub[x].pool # NoPool

(* The counter never falls below the live subscriptions of its pool,       *)
(* through expiries, reactivations, limits that change and second clicks:  *)
(* a place that is taken is never offered again.                           *)
CountCoversLive ==
    \A p \in Pools : pool[p].status # "absent" => Counted(p) <= pool[p].count

(* A new subscription enters a pool only while, with it, the pool's live   *)
(* subscriptions still fit max_users: the counter does not mislead the     *)
(* admission, even after a reactivation that did not look at max_users.    *)
AdmissionsFit ==
    [][\A x \in Subs : (sub[x].status = "none" /\ sub'[x].pool # NoPool)
          => Cardinality({y \in Subs : Live(y)' /\ sub'[y].pool = sub'[x].pool})
                <= pool[sub'[x].pool].max]_vars
=============================================================================
