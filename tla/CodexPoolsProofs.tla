-------------------------- MODULE CodexPoolsProofs --------------------------
(***************************************************************************)
(* Proofs about CodexPools, for every set of users, subscriptions, pools,  *)
(* limits and sessions.                                                    *)
(***************************************************************************)
EXTENDS CodexPools, FiniteSetTheorems, TLAPS

-----------------------------------------------------------------------------
(* A request past its first read has a user, or a subscription; a row that *)
(* does not exist yet is blank.                                            *)
Serves(r) ==
    /\ r.pc \in {"granting", "buying"} => r.user \in Users
    /\ r.pc = "reviewing" => r.sub \in Subs
    /\ r.pc = "deleting" => r.pool \in Pools

Blank == \A x \in Subs : sub[x].status = "none" => sub[x].pool = NoPool

(* A reviewed row has the pool it was loaded with, or none; the rows that  *)
(* the deletion of a plan has loaded are not blank.                        *)
KnownTo(r) ==
    /\ r.pc = "reviewing" => /\ sub[r.sub].status # "none"
                             /\ sub[r.sub].pool \in {r.pool, NoPool}
    /\ \A x \in r.rows : sub[x].status # "none"

Known == \A s \in Sessions : KnownTo(session[s])

(* A pool that a subscription names exists: a deletion leaves no reference *)
(* to it, whatever has entered the pool meanwhile.                         *)
Placed ==
    \A x \in Subs : Exists(x) /\ sub[x].pool # NoPool => pool[sub[x].pool].status # "absent"

TInv == TypeOK /\ \A s \in Sessions : Serves(session[s])

IInv == TInv /\ Known /\ Blank /\ Placed

(* What trials and purchases promise as long as no pool is deleted under a *)
(* subscription that has entered it since the route looked.                *)
Held == TrialSpentWithPlace /\ BoughtHasPool

NoStaleDelete ==
    \A s \in Sessions : session[s].pc = "deleting" =>
        \A x \in Subs : Exists(x) => sub[x].pool # session[s].pool

(* Of a step: no row disappears or moves to another pool.                  *)
Kept ==
    \A x \in Subs : sub[x].status # "none" => /\ sub'[x].status # "none"
                                             /\ sub'[x].pool \in {sub[x].pool, NoPool}

(* Of a step: what it does to the subscriptions and trials is in order.    *)
Sound ==
    /\ sub' \in [Subs -> SubRow] /\ trialUsed' \subseteq Users
    /\ Blank' /\ Kept /\ (Held => Held')

Fits(r) == r \in SessionRow /\ Serves(r)

LEMMA Replaced ==
    ASSUME TInv, NEW s \in Sessions, NEW r, Fits(r), session' = [session EXCEPT ![s] = r]
    PROVE  session' \in [Sessions -> SessionRow] /\ \A t \in Sessions : Serves(session'[t])
  BY DEF TInv, TypeOK, Fits

LEMMA IdleFits == Fits(Idle) /\ Idle.pc = "idle" /\ Idle.rows = {}
  BY DEF Fits, Serves, Idle, SessionRow, PCs, NoRow, SubRow

(* A session that is done, or goes on with a bulk grant.                   *)
Rest(s) == IF session[s].bulk THEN [session[s] EXCEPT !.pc = "bulk", !.user = NoUser]
           ELSE Idle

LEMMA Rests ==
    ASSUME IInv, NEW s \in Sessions, Granted(s) \/ Close(s)
    PROVE  \E r : /\ Fits(r) /\ r.pc \in {"idle", "bulk"} /\ r.rows \subseteq session[s].rows
                  /\ session' = [session EXCEPT ![s] = r]
  <1>1. session[s] \in SessionRow
    BY DEF IInv, TInv, TypeOK
  <1>. DEFINE b == [session[s] EXCEPT !.pc = "bulk", !.user = NoUser]
  <1>2. Fits(b) /\ b.pc = "bulk" /\ b.rows = session[s].rows
    BY <1>1 DEF Fits, Serves, SessionRow, PCs
  <1>. HIDE DEF b
  <1>3. Fits(Rest(s)) /\ Rest(s).pc \in {"idle", "bulk"} /\ Rest(s).rows \subseteq session[s].rows
    BY <1>2, IdleFits DEF Rest, b
  <1>4. CASE Granted(s)
    <2>1. session' = [session EXCEPT ![s] = Rest(s)]
      BY <1>4 DEF Granted, Rest
    <2>. QED
      BY <1>3, <2>1
  <1>5. CASE Close(s)
    BY <1>5, IdleFits DEF Close
  <1>. QED
    BY <1>4, <1>5

(* Session s is replaced by one that is not reviewing, and rows stay.      *)
LEMMA KnownStays ==
    ASSUME IInv, NEW s \in Sessions, NEW r, session' = [session EXCEPT ![s] = r], Kept,
           r.pc # "reviewing", r.rows \subseteq session[s].rows
    PROVE  Known'
  <1>. SUFFICES ASSUME NEW t \in Sessions
                PROVE  KnownTo(session[t])'
    BY DEF Known
  <1>1. session[t] \in SessionRow /\ session[s] \in SessionRow /\ KnownTo(session[t])
        /\ KnownTo(session[s]) /\ Serves(session[t])
    BY DEF IInv, TInv, TypeOK, Known
  <1>2. CASE t = s
    <2>1. session'[t] = r
      BY <1>2 DEF IInv, TInv, TypeOK
    <2>. QED
      BY <1>1, <2>1 DEF KnownTo, Kept, SessionRow
  <1>3. CASE t # s
    <2>1. session'[t] = session[t]
      BY <1>3 DEF IInv, TInv, TypeOK
    <2>. QED
      BY <1>1, <2>1 DEF KnownTo, Kept, SessionRow, Serves
  <1>. QED
    BY <1>2, <1>3

LEMMA RestsKnown ==
    ASSUME IInv, NEW s \in Sessions, Granted(s) \/ Close(s), Kept
    PROVE  /\ session' \in [Sessions -> SessionRow] /\ \A t \in Sessions : Serves(session'[t])
           /\ Known'
  <1>1. PICK r : /\ Fits(r) /\ r.pc \in {"idle", "bulk"} /\ r.rows \subseteq session[s].rows
                 /\ session' = [session EXCEPT ![s] = r]
    BY Rests
  <1>2. Known'
    BY <1>1, KnownStays
  <1>3. TInv
    BY DEF IInv
  <1>. QED
    BY <1>1, <1>2, <1>3, Replaced

(* No session moves.                                                       *)
LEMMA SessionsStay ==
    ASSUME IInv, session' = session, Kept
    PROVE  /\ session' \in [Sessions -> SessionRow] /\ \A t \in Sessions : Serves(session'[t])
           /\ Known'
  BY DEF IInv, TInv, TypeOK, Known, KnownTo, Kept, Serves, SessionRow

-----------------------------------------------------------------------------
(* The effect of an INSERT on the subscriptions.                           *)
LEMMA InsertedRow ==
    ASSUME IInv, NEW x \in FreshRows, NEW u \in Users, NEW p \in Pools \cup {NoPool},
           NEW trial \in BOOLEAN, Inserted(x, u, p, trial)
    PROVE  /\ sub' \in [Subs -> SubRow]
           /\ x \in Subs /\ sub[x].pool = NoPool
           /\ sub'[x].user = u /\ sub'[x].trial = trial /\ sub'[x].pool = p
           /\ sub'[x].status = "active"
           /\ \A y \in Subs \ {x} : sub'[y] = sub[y]
  <1>. DEFINE r == [status |-> "active", live |-> TRUE, pool |-> p, user |-> u,
                    trial |-> trial]
  <1>1. x \in Subs /\ sub[x].status = "none" /\ sub[x].pool = NoPool
    BY DEF FreshRows, IInv, Blank
  <1>2. r \in SubRow
    BY DEF SubRow
  <1>3. sub' = [sub EXCEPT ![x] = r]
    BY DEF Inserted
  <1>4. sub \in [Subs -> SubRow]
    BY DEF IInv, TInv, TypeOK
  <1>5. r.user = u /\ r.trial = trial /\ r.pool = p /\ r.status = "active"
    OBVIOUS
  <1>. HIDE DEF r
  <1>. QED
    BY <1>1, <1>2, <1>3, <1>4, <1>5

(* It keeps what subscriptions and trials promise when a subscription that *)
(* is bought has a pool, and no trial is marked used but one in a pool.    *)
LEMMA InsertKeeps ==
    ASSUME IInv, NEW x \in FreshRows, NEW u \in Users, NEW p \in Pools \cup {NoPool},
           NEW trial \in BOOLEAN, Inserted(x, u, p, trial), trial \/ p # NoPool,
           \/ trialUsed' \subseteq trialUsed
           \/ trial /\ p # NoPool /\ trialUsed' = trialUsed \cup {u}
    PROVE  Sound
  <1>1. /\ sub' \in [Subs -> SubRow]
        /\ x \in Subs /\ sub[x].pool = NoPool
        /\ sub'[x].user = u /\ sub'[x].trial = trial /\ sub'[x].pool = p
        /\ sub'[x].status = "active"
        /\ \A y \in Subs \ {x} : sub'[y] = sub[y]
    BY InsertedRow
  <1>2. trialUsed' \subseteq Users
    BY DEF IInv, TInv, TypeOK
  <1>3. Blank' /\ Kept
    BY <1>1 DEF IInv, Blank, Kept, FreshRows
  <1>4. ASSUME Held
        PROVE  Held'
    <2>1. BoughtHasPool'
      BY <1>1, <1>4 DEF Held, BoughtHasPool
    <2>2. ASSUME NEW v \in trialUsed
          PROVE  \E y \in Subs : sub'[y].user = v /\ sub'[y].trial /\ sub'[y].pool # NoPool
      <3>1. PICK y \in Subs : sub[y].user = v /\ sub[y].trial /\ sub[y].pool # NoPool
        BY <1>4, <2>2 DEF Held, TrialSpentWithPlace
      <3>. QED
        BY <1>1, <3>1
    <2>. QED
      BY <1>1, <2>1, <2>2 DEF Held, TrialSpentWithPlace
  <1>. QED
    BY <1>1, <1>2, <1>3, <1>4 DEF Sound

(* References stay good when pools stay and a new row's pool exists.       *)
LEMMA InsertPlaced ==
    ASSUME IInv, NEW x \in FreshRows, NEW u \in Users, NEW p \in Pools \cup {NoPool},
           NEW trial \in BOOLEAN, Inserted(x, u, p, trial),
           p # NoPool => pool[p].status # "absent",
           \A q \in Pools : pool'[q].status = pool[q].status
    PROVE  Placed'
  <1>1. /\ x \in Subs /\ sub'[x].pool = p
        /\ \A y \in Subs \ {x} : sub'[y] = sub[y]
    BY InsertedRow
  <1>2. \A y \in Subs : sub[y].pool \in Pools \cup {NoPool}
    BY DEF IInv, TInv, TypeOK, SubRow
  <1>. QED
    BY <1>1, <1>2 DEF IInv, Placed, Exists

LEMMA AttachKeeps ==
    ASSUME IInv, NEW x \in FreshRows, NEW u \in Users, NEW trial \in BOOLEAN,
           Attach(x, u, trial),
           \/ trialUsed' \subseteq trialUsed
           \/ trial /\ trialUsed' = trialUsed \cup {u}
    PROVE  Sound /\ pool' \in [Pools -> PoolRow] /\ Placed'
  <1>1. PICK p \in Free : Inserted(x, u, p, trial) /\ Assign(p)
    BY DEF Attach
  <1>2. p \in Pools /\ p # NoPool /\ pool[p].status = "active"
    BY <1>1, PoolsAssumption DEF Free
  <1>3. pool' \in [Pools -> PoolRow] /\ \A q \in Pools : pool'[q].status = pool[q].status
    <2>1. pool[p] \in PoolRow
      BY <1>2 DEF IInv, TInv, TypeOK
    <2>2. PICK n \in Nat : n = IF pool[p].count < pool[p].max THEN pool[p].count + 1
                               ELSE pool[p].max
      BY <2>1 DEF PoolRow
    <2>3. pool' = [pool EXCEPT ![p] = [pool[p] EXCEPT !.count = n]]
      BY <1>1, <2>2 DEF Assign, IInv, TInv, TypeOK
    <2>. QED
      BY <1>2, <2>1, <2>2, <2>3 DEF IInv, TInv, TypeOK, PoolRow
  <1>4. Placed'
    BY <1>1, <1>2, <1>3, InsertPlaced
  <1>5. Sound
    BY <1>1, <1>2, InsertKeeps
  <1>. QED
    BY <1>3, <1>4, <1>5

(* An INSERT without a pool.                                               *)
LEMMA PoollessKeeps ==
    ASSUME IInv, NEW x \in FreshRows, NEW u \in Users, Inserted(x, u, NoPool, TRUE),
           UNCHANGED pool, trialUsed' \subseteq trialUsed
    PROVE  Sound /\ pool' \in [Pools -> PoolRow] /\ Placed'
  <1>1. Sound
    BY InsertKeeps
  <1>2. Placed'
    BY InsertPlaced
  <1>. QED
    BY <1>1, <1>2 DEF IInv, TInv, TypeOK

LEMMA CardinalityOfSubs ==
    ASSUME NEW S \in SUBSET Subs
    PROVE  Cardinality(S) \in Nat
  BY SubsAssumption, FS_Subset, FS_CardinalityType

(* A count written to a pool is a number, and the pool is there.           *)
LEMMA WrittenType ==
    ASSUME IInv, NEW s, NEW p \in Pools, NEW count \in Nat, Written(s, p, count)
    PROVE  /\ pool' \in [Pools -> PoolRow]
           /\ \A q \in Pools : pool'[q].status = pool[q].status
  BY DEF Written, IInv, TInv, TypeOK, PoolRow

(* A step that leaves subscriptions and trials alone keeps what they       *)
(* promise.                                                                *)
LEMMA SubsKept ==
    ASSUME IInv, sub' = sub, trialUsed' = trialUsed
    PROVE  /\ Sound
           /\ (\A q \in Pools : pool[q].status # "absent" => pool'[q].status # "absent") => Placed'
  <1>1. Blank' /\ Kept /\ (Held => Held')
    BY DEF IInv, Blank, Kept, Held, BoughtHasPool, TrialSpentWithPlace
  <1>2. \A y \in Subs : sub[y].pool \in Pools \cup {NoPool}
    BY DEF IInv, TInv, TypeOK, SubRow
  <1>3. (\A q \in Pools : pool[q].status # "absent" => pool'[q].status # "absent") => Placed'
    BY <1>2 DEF IInv, Placed, Exists
  <1>. QED
    BY <1>1, <1>3 DEF Sound, IInv, TInv, TypeOK

(* What a step has to show.                                                *)
Holds == IInv' /\ (Held => Held')

LEMMA Together ==
    ASSUME IInv, Sound, Placed', Known', pool' \in [Pools -> PoolRow],
           registered' \subseteq Users, session' \in [Sessions -> SessionRow],
           \A t \in Sessions : Serves(session'[t])
    PROVE  Holds
  BY DEF IInv, TInv, TypeOK, Sound, Holds

(* A step that only replaces what a session has read.                      *)
LEMMA OnlyReads ==
    ASSUME IInv, NEW s \in Sessions, NEW r, Fits(r), session' = [session EXCEPT ![s] = r],
           KnownTo(r), UNCHANGED <<pool, sub, registered, trialUsed>>
    PROVE  Holds
  <1>1. session' \in [Sessions -> SessionRow] /\ \A t \in Sessions : Serves(session'[t])
    BY Replaced DEF IInv
  <1>2. Known'
    BY DEF IInv, TInv, TypeOK, Known, KnownTo
  <1>3. Sound /\ Placed'
    BY SubsKept
  <1>. QED
    BY <1>1, <1>2, <1>3, Together DEF IInv, TInv, TypeOK

LEMMA InitIInv == Init => IInv /\ Held
  <1>. SUFFICES ASSUME Init
                PROVE  IInv /\ Held
    OBVIOUS
  <1>1. pool \in [Pools -> PoolRow] /\ sub \in [Subs -> SubRow]
    BY DEF Init, PoolRow, SubRow, NoRow
  <1>2. session \in [Sessions -> SessionRow] /\ \A s \in Sessions : Serves(session[s])
    BY IdleFits DEF Init, Fits
  <1>3. TInv
    BY <1>1, <1>2 DEF Init, TInv, TypeOK
  <1>4. Known
    BY IdleFits DEF Init, Known, KnownTo
  <1>5. Blank /\ Placed /\ Held
    BY DEF Init, Blank, Placed, Exists, Held, TrialSpentWithPlace, BoughtHasPool, NoRow
  <1>. QED
    BY <1>3, <1>4, <1>5 DEF IInv

(* The administrator's routes that create and change a pool.               *)
LEMMA PoolStep ==
    ASSUME IInv, UNCHANGED <<sub, registered, trialUsed, session>>,
           pool' \in [Pools -> PoolRow],
           \A q \in Pools : pool[q].status # "absent" => pool'[q].status # "absent"
    PROVE  Holds
  <1>1. Sound /\ Placed'
    BY SubsKept
  <1>2. /\ session' \in [Sessions -> SessionRow] /\ \A t \in Sessions : Serves(session'[t])
        /\ Known'
    BY <1>1, SessionsStay DEF Sound
  <1>. QED
    BY <1>1, <1>2, Together DEF IInv, TInv, TypeOK

LEMMA BeginDeleteStep ==
    ASSUME IInv, NEW s \in Sessions,
           \/ \E p \in Pools : BeginDeletePool(s, p)
           \/ \E rows \in SUBSET Subs : BeginDeletePlan(s, rows)
    PROVE  Holds
  <1>1. session[s] \in SessionRow /\ KnownTo(session[s])
    BY DEF IInv, TInv, TypeOK, Known
  <1>2. ASSUME NEW p \in Pools, BeginDeletePool(s, p)
        PROVE  Holds
    <2>. DEFINE r == [session[s] EXCEPT !.pc = "deleting", !.pool = p]
    <2>1. Fits(r) /\ KnownTo(r)
      BY <1>1 DEF Fits, Serves, SessionRow, PCs, KnownTo
    <2>2. session' = [session EXCEPT ![s] = r]
      BY <1>2 DEF BeginDeletePool, IInv, TInv, TypeOK
    <2>. HIDE DEF r
    <2>. QED
      BY <1>2, <2>1, <2>2, OnlyReads DEF BeginDeletePool
  <1>3. ASSUME NEW rows \in SUBSET Subs, BeginDeletePlan(s, rows)
        PROVE  Holds
    <2>. DEFINE r == [session[s] EXCEPT !.pc = "removing", !.rows = rows]
    <2>1. Fits(r) /\ KnownTo(r)
      BY <1>1, <1>3 DEF Fits, Serves, SessionRow, PCs, KnownTo, BeginDeletePlan, Exists
    <2>2. session' = [session EXCEPT ![s] = r]
      BY <1>3 DEF BeginDeletePlan, IInv, TInv, TypeOK
    <2>. HIDE DEF r
    <2>. QED
      BY <1>3, <2>1, <2>2, OnlyReads DEF BeginDeletePlan
  <1>. QED
    BY <1>2, <1>3

(* The rows that refer to the pool lose it; without such a row nothing of  *)
(* what trials and purchases promise is lost.                              *)
LEMMA DeletePoolStep ==
    ASSUME IInv, NEW s \in Sessions, CommitDeletePool(s)
    PROVE  IInv' /\ (NoStaleDelete /\ Held => Held')
  <1>1. PICK p \in Pools : p = session[s].pool
    BY DEF CommitDeletePool, IInv, TInv, Serves
  <1>2. p # NoPool
    BY PoolsAssumption
  <1>3. /\ sub' = [x \in Subs |-> IF Exists(x) /\ sub[x].pool = p
                                  THEN [sub[x] EXCEPT !.pool = NoPool] ELSE sub[x]]
        /\ pool' = [pool EXCEPT ![p] = [status |-> "absent", count |-> 0, max |-> 0]]
    BY <1>1 DEF CommitDeletePool
  <1>4. \A x \in Subs : sub[x] \in SubRow
    BY DEF IInv, TInv, TypeOK
  <1>5. \A x \in Subs : /\ sub'[x] \in SubRow
                        /\ sub'[x].status = sub[x].status /\ sub'[x].user = sub[x].user
                        /\ sub'[x].trial = sub[x].trial
                        /\ sub'[x].pool = IF Exists(x) /\ sub[x].pool = p THEN NoPool
                                          ELSE sub[x].pool
    BY <1>3, <1>4 DEF SubRow
  <1>6. sub' \in [Subs -> SubRow]
    BY <1>3, <1>5
  <1>7. pool' \in [Pools -> PoolRow] /\ \A q \in Pools : q # p => pool'[q] = pool[q]
    BY <1>3 DEF IInv, TInv, TypeOK, PoolRow
  <1>8. Blank' /\ Kept
    BY <1>5 DEF IInv, Blank, Kept
  <1>9. Placed'
    BY <1>4, <1>5, <1>7 DEF IInv, Placed, Exists, SubRow
  <1>10. /\ session' \in [Sessions -> SessionRow] /\ \A t \in Sessions : Serves(session'[t])
         /\ Known'
    BY <1>8, RestsKnown DEF CommitDeletePool
  <1>11. IInv'
    BY <1>6, <1>7, <1>8, <1>9, <1>10 DEF IInv, TInv, TypeOK, CommitDeletePool
  <1>12. ASSUME NoStaleDelete, Held
         PROVE  Held'
    <2>1. \A x \in Subs : sub'[x] = sub[x]
      BY <1>1, <1>3, <1>12 DEF NoStaleDelete, CommitDeletePool
    <2>. QED
      <3>1. trialUsed' = trialUsed
        BY DEF CommitDeletePool
      <3>. QED
        BY <1>12, <2>1, <3>1 DEF Held, TrialSpentWithPlace, BoughtHasPool
  <1>. QED
    BY <1>11, <1>12

(* No row changes its user, its pool, or whether it is a trial.            *)
LEMMA Unmoved ==
    ASSUME IInv, sub' \in [Subs -> SubRow], trialUsed' = trialUsed,
           \A x \in Subs :
              /\ sub'[x].user = sub[x].user /\ sub'[x].trial = sub[x].trial
              /\ sub'[x].pool = sub[x].pool
              /\ sub'[x].status = "none" <=> sub[x].status = "none"
    PROVE  Sound
  <1>1. Blank' /\ Kept
    BY DEF IInv, Blank, Kept
  <1>2. Held => Held'
    BY DEF Held, TrialSpentWithPlace, BoughtHasPool
  <1>. QED
    BY <1>1, <1>2 DEF Sound, IInv, TInv, TypeOK

LEMMA DeletePlanStep ==
    ASSUME IInv, NEW s \in Sessions, CommitDeletePlan(s)
    PROVE  Holds
  <1>1. \A x \in Subs : sub[x] \in SubRow
    BY DEF IInv, TInv, TypeOK
  <1>2. \A x \in session[s].rows : sub[x].status # "none"
    BY DEF IInv, Known, KnownTo
  <1>3. \A x \in Subs :
           /\ sub'[x] \in SubRow
           /\ sub'[x].user = sub[x].user /\ sub'[x].trial = sub[x].trial
           /\ sub'[x].pool = sub[x].pool
           /\ sub'[x].status = "none" <=> sub[x].status = "none"
           /\ sub'[x].status = sub[x].status \/ sub'[x].status = "deleted"
    BY <1>1, <1>2 DEF CommitDeletePlan, SubRow
  <1>4. sub' \in [Subs -> SubRow]
    BY <1>3 DEF CommitDeletePlan
  <1>5. Sound
    BY <1>3, <1>4, Unmoved DEF CommitDeletePlan
  <1>6. Placed'
    <2>1. pool' = pool
      BY DEF CommitDeletePlan
    <2>. QED
      BY <1>3, <2>1 DEF IInv, Placed, Exists
  <1>7. /\ session' \in [Sessions -> SessionRow] /\ \A t \in Sessions : Serves(session'[t])
        /\ Known'
    BY <1>5, RestsKnown DEF CommitDeletePlan, Sound
  <1>. QED
    BY <1>5, <1>6, <1>7, Together DEF CommitDeletePlan, IInv, TInv, TypeOK

LEMMA RegisterStep ==
    ASSUME IInv, NEW s \in Sessions, NEW u \in Users, NEW x \in FreshRows,
           NEW automatic \in BOOLEAN, Register(s, u, x, automatic)
    PROVE  Holds
  <1>1. Sound /\ pool' \in [Pools -> PoolRow] /\ Placed'
    <2>1. CASE UNCHANGED <<pool, sub, trialUsed>>
      BY <2>1, SubsKept DEF IInv, TInv, TypeOK
    <2>2. CASE Attach(x, u, TRUE) /\ trialUsed' = trialUsed \cup {u}
      BY <2>2, AttachKeeps
    <2>3. CASE Inserted(x, u, NoPool, TRUE) /\ UNCHANGED <<pool, trialUsed>>
      BY <2>3, PoollessKeeps
    <2>. QED
      BY <2>1, <2>2, <2>3 DEF Register
  <1>2. /\ session' \in [Sessions -> SessionRow] /\ \A t \in Sessions : Serves(session'[t])
        /\ Known'
    BY <1>1, SessionsStay DEF Sound, Register
  <1>. QED
    BY <1>1, <1>2, Together DEF Register, IInv, TInv, TypeOK

LEMMA ReadStep ==
    ASSUME IInv, NEW s \in Sessions, NEW u \in Users,
           ReadGrant(s, u) \/ ReadBulkGrant(s, u) \/ ReadPurchase(s, u)
    PROVE  Holds
  <1>1. session[s] \in SessionRow /\ KnownTo(session[s])
    BY DEF IInv, TInv, TypeOK, Known
  <1>2. CASE ReadGrant(s, u)
    <2>. DEFINE r == [session[s] EXCEPT !.pc = "granting", !.user = u]
    <2>1. Fits(r) /\ KnownTo(r)
      BY <1>1 DEF Fits, Serves, SessionRow, PCs, KnownTo
    <2>2. session' = [session EXCEPT ![s] = r]
      BY <1>2 DEF ReadGrant, IInv, TInv, TypeOK
    <2>. HIDE DEF r
    <2>. QED
      BY <1>2, <2>1, <2>2, OnlyReads DEF ReadGrant
  <1>3. CASE ReadPurchase(s, u)
    <2>. DEFINE r == [session[s] EXCEPT !.pc = "buying", !.user = u]
    <2>1. Fits(r) /\ KnownTo(r)
      BY <1>1 DEF Fits, Serves, SessionRow, PCs, KnownTo
    <2>2. session' = [session EXCEPT ![s] = r]
      BY <1>3 DEF ReadPurchase, IInv, TInv, TypeOK
    <2>. HIDE DEF r
    <2>. QED
      BY <1>3, <2>1, <2>2, OnlyReads DEF ReadPurchase
  <1>4. CASE ReadBulkGrant(s, u)
    <2>. DEFINE skip == u \in session[s].seen \/ HasActive(u)
                r == [session[s] EXCEPT !.left = session[s].left \ {u},
                                        !.pc = IF skip THEN "bulk" ELSE "granting",
                                        !.user = IF skip THEN NoUser ELSE u]
    <2>1. skip \in BOOLEAN
      OBVIOUS
    <2>2. session' = [session EXCEPT ![s] = r]
      BY <1>4 DEF ReadBulkGrant, IInv, TInv, TypeOK
    <2>. HIDE DEF skip
    <2>3. Fits(r) /\ KnownTo(r)
      BY <1>1, <2>1 DEF Fits, Serves, SessionRow, PCs, KnownTo
    <2>. HIDE DEF r
    <2>. QED
      BY <1>4, <2>2, <2>3, OnlyReads DEF ReadBulkGrant
  <1>. QED
    BY <1>2, <1>3, <1>4

LEMMA ClosedKnown == KnownTo(Idle)
  BY IdleFits DEF KnownTo

LEMMA BulkStep ==
    ASSUME IInv, NEW s \in Sessions, ReadBulk(s) \/ EndBulk(s)
    PROVE  Holds
  <1>1. CASE ReadBulk(s)
    <2>. DEFINE r == [Idle EXCEPT !.pc = "bulk", !.bulk = TRUE, !.left = registered,
                                  !.seen = trialUsed]
    <2>1. Fits(r) /\ KnownTo(r)
      BY IdleFits DEF Fits, Serves, SessionRow, PCs, Idle, IInv, TInv, TypeOK, KnownTo
    <2>2. session' = [session EXCEPT ![s] = r]
      BY <1>1 DEF ReadBulk
    <2>. HIDE DEF r
    <2>. QED
      BY <1>1, <2>1, <2>2, OnlyReads DEF ReadBulk
  <1>2. CASE EndBulk(s)
    BY <1>2, IdleFits, ClosedKnown, OnlyReads DEF EndBulk, Close
  <1>. QED
    BY <1>1, <1>2

LEMMA RegrantStep ==
    ASSUME IInv, NEW s \in Sessions, NEW u \in Users, NEW x \in FreshRows,
           BulkRegrant(s, u, x)
    PROVE  Holds
  <1>. DEFINE r == [session[s] EXCEPT !.left = session[s].left \ {u}]
  <1>1. Fits(r) /\ r.pc = "bulk" /\ r.rows = session[s].rows
    <2>1. session[s] \in SessionRow /\ session[s].pc = "bulk"
      BY DEF BulkRegrant, IInv, TInv, TypeOK
    <2>. QED
      BY <2>1 DEF Fits, Serves, SessionRow
  <1>2. session' = [session EXCEPT ![s] = r]
    BY DEF BulkRegrant, IInv, TInv, TypeOK
  <1>. HIDE DEF r
  <1>3. session' \in [Sessions -> SessionRow] /\ \A t \in Sessions : Serves(session'[t])
    BY <1>1, <1>2, Replaced DEF IInv
  <1>4. Sound /\ pool' \in [Pools -> PoolRow] /\ Placed'
    <2>1. CASE Attach(x, u, TRUE) /\ trialUsed' = trialUsed \cup {u}
      BY <2>1, AttachKeeps
    <2>2. CASE Inserted(x, u, NoPool, TRUE) /\ trialUsed' = trialUsed \ {u} /\ UNCHANGED pool
      BY <2>2, PoollessKeeps
    <2>. QED
      BY <2>1, <2>2 DEF BulkRegrant
  <1>5. Known'
    BY <1>1, <1>2, <1>4, KnownStays DEF Sound
  <1>. QED
    BY <1>3, <1>4, <1>5, Together DEF BulkRegrant, IInv, TInv, TypeOK

LEMMA AdmitStep ==
    ASSUME IInv, NEW s \in Sessions, NEW x \in FreshRows, Admit(s, x)
    PROVE  Holds
  <1>1. session[s].user \in Users
    BY DEF Admit, CommitGrant, CommitPurchase, IInv, TInv, Serves
  <1>2. Sound /\ pool' \in [Pools -> PoolRow] /\ Placed'
    <2>. DEFINE u == session[s].user
    <2>1. CASE CommitGrant(s, x)
      <3>1. Attach(x, u, TRUE) /\ trialUsed' = trialUsed \cup {u}
        BY <2>1 DEF CommitGrant
      <3>. HIDE DEF u
      <3>. QED
        BY <1>1, <3>1, AttachKeeps DEF u
    <2>2. CASE CommitPurchase(s, x)
      <3>1. Attach(x, u, FALSE) /\ trialUsed' \subseteq trialUsed
        BY <2>2 DEF CommitPurchase
      <3>. QED
        BY <1>1, <3>1, AttachKeeps
    <2>. QED
      BY <2>1, <2>2 DEF Admit
  <1>3. /\ session' \in [Sessions -> SessionRow] /\ \A t \in Sessions : Serves(session'[t])
        /\ Known'
    BY <1>2, RestsKnown DEF Sound, Admit, CommitGrant, CommitPurchase
  <1>. QED
    BY <1>2, <1>3, Together DEF Admit, CommitGrant, CommitPurchase, IInv, TInv, TypeOK

LEMMA PoollessStep ==
    ASSUME IInv, NEW s \in Sessions, NEW x \in FreshRows, GrantWithoutPool(s, x)
    PROVE  Holds
  <1>1. session[s].user \in Users
    BY DEF GrantWithoutPool, IInv, TInv, Serves
  <1>2. Sound /\ pool' \in [Pools -> PoolRow] /\ Placed'
    <2>1. CASE Inserted(x, session[s].user, NoPool, TRUE)
      BY <1>1, <2>1, PoollessKeeps DEF GrantWithoutPool
    <2>2. CASE UNCHANGED sub
      BY <2>2, SubsKept DEF GrantWithoutPool, IInv, TInv, TypeOK
    <2>. QED
      BY <2>1, <2>2 DEF GrantWithoutPool
  <1>3. /\ session' \in [Sessions -> SessionRow] /\ \A t \in Sessions : Serves(session'[t])
        /\ Known'
    BY <1>2, RestsKnown DEF Sound, GrantWithoutPool
  <1>. QED
    BY <1>2, <1>3, Together DEF GrantWithoutPool, IInv, TInv, TypeOK

LEMMA ReviewStep ==
    ASSUME IInv, NEW s \in Sessions, NEW x \in Subs, NEW to \in {"active", "cancelled"},
           Review(s, x, to)
    PROVE  Holds
  <1>1. PICK p \in Pools \cup {NoPool} : p = sub[x].pool
    BY DEF IInv, TInv, TypeOK, SubRow
  <1>2. PICK n \in Nat : n = IF p = NoPool THEN 0 ELSE pool[p].count
    BY DEF IInv, TInv, TypeOK, PoolRow
  <1>. DEFINE r == [session[s] EXCEPT !.pc = "reviewing", !.sub = x, !.row = sub[x],
                                      !.to = to, !.pool = p, !.loaded = n]
  <1>3. session[s] \in SessionRow /\ sub[x] \in SubRow /\ KnownTo(session[s])
    BY DEF IInv, TInv, TypeOK, Known
  <1>4. session' = [session EXCEPT ![s] = r]
    BY <1>1, <1>2, <1>3 DEF Review, IInv, TInv, TypeOK, SessionRow
  <1>5. Fits(r)
    BY <1>3 DEF Fits, Serves, SessionRow, PCs
  <1>6. KnownTo(r)
    BY <1>1, <1>3 DEF KnownTo, SessionRow, Review, Exists
  <1>. HIDE DEF r
  <1>. QED
    BY <1>4, <1>5, <1>6, OnlyReads DEF Review

(* Cancel and reactivate change the status and the date of a subscription  *)
(* that exists, never its user, its pool or whether it is a trial.         *)
LEMMA ReviewedRow ==
    ASSUME IInv, NEW s \in Sessions, CommitReview(s)
    PROVE  /\ session[s].sub \in Subs /\ Exists(session[s].sub)
           /\ sub[session[s].sub].pool \in {session[s].pool, NoPool}
           /\ session[s].pool \in Pools \cup {NoPool}
           /\ sub' \in [Subs -> SubRow]
           /\ \A y \in Subs : /\ sub'[y].user = sub[y].user /\ sub'[y].trial = sub[y].trial
                              /\ sub'[y].pool = sub[y].pool
                              /\ Exists(y)' <=> Exists(y)
                              /\ sub'[y].status = "none" <=> sub[y].status = "none"
                              /\ y # session[s].sub => sub'[y] = sub[y]
  <1>. DEFINE x == session[s].sub
  <1>1. /\ x \in Subs /\ sub[x] \in SubRow /\ session[s] \in SessionRow /\ Exists(x)
        /\ sub[x].pool \in {session[s].pool, NoPool}
    BY DEF CommitReview, Reviewed, IInv, TInv, TypeOK, Serves, Known, KnownTo
  <1>2. PICK status \in {"active", "cancelled"} :
           status = IF session[s].row.status = session[s].to THEN sub[x].status
                    ELSE session[s].to
    BY <1>1 DEF Exists, SessionRow
  <1>3. PICK live \in BOOLEAN : live = (sub[x].live \/ Extends(s))
    BY <1>1 DEF SubRow, Extends
  <1>. DEFINE r == [sub[x] EXCEPT !.status = status, !.live = live]
  <1>4. sub' = [sub EXCEPT ![x] = r]
    BY <1>1, <1>2, <1>3 DEF CommitReview, Reviewed, IInv, TInv, TypeOK
  <1>5. /\ r \in SubRow /\ r.status = status
        /\ r.user = sub[x].user /\ r.trial = sub[x].trial /\ r.pool = sub[x].pool
    BY <1>1 DEF SubRow
  <1>. HIDE DEF r
  <1>. QED
    BY <1>1, <1>2, <1>4, <1>5 DEF IInv, TInv, TypeOK, Exists, SessionRow

LEMMA CommitReviewStep ==
    ASSUME IInv, NEW s \in Sessions, CommitReview(s)
    PROVE  Holds
  <1>. DEFINE count == Cardinality({y \in Subs : Live(y)' /\ sub[y].pool = session[s].pool})
  <1>1. pool' \in [Pools -> PoolRow] /\ \A q \in Pools : pool'[q].status = pool[q].status
    <2>1. CASE session[s].pool = NoPool
      BY <2>1 DEF CommitReview, IInv, TInv, TypeOK
    <2>2. CASE session[s].pool # NoPool
      <3>1. PICK p \in Pools : p = session[s].pool
        BY <2>2, ReviewedRow
      <3>2. PICK n \in Nat : n = count
        BY CardinalityOfSubs
      <3>3. Written(s, p, n)
        BY <2>2, <3>1, <3>2 DEF CommitReview
      <3>. QED
        BY <3>3, WrittenType
    <2>. QED
      BY <2>1, <2>2
  <1>. HIDE DEF count
  <1>2. Sound
    BY ReviewedRow, Unmoved DEF CommitReview
  <1>3. Placed'
    <2>1. \A y \in Subs : sub[y].pool \in Pools \cup {NoPool}
      BY DEF IInv, TInv, TypeOK, SubRow
    <2>. QED
      BY <1>1, <2>1, ReviewedRow DEF IInv, Placed
  <1>4. /\ session' \in [Sessions -> SessionRow] /\ \A t \in Sessions : Serves(session'[t])
        /\ Known'
    BY <1>2, RestsKnown DEF Sound, CommitReview
  <1>. QED
    BY <1>1, <1>2, <1>3, <1>4, Together DEF CommitReview, IInv, TInv, TypeOK

LEMMA CountUnlockedStep ==
    ASSUME IInv, NEW s \in Sessions, CountUnlocked(s)
    PROVE  Holds
  <1>1. session[s] \in SessionRow /\ KnownTo(session[s])
    BY DEF IInv, TInv, TypeOK, Known
  <1>2. PICK n \in Nat : n = IF session[s].pool = NoPool THEN session[s].counted
                             ELSE Counted(session[s].pool)
    <2>1. Counted(session[s].pool) \in Nat
      BY CardinalityOfSubs DEF Counted, LiveIn
    <2>. QED
      BY <1>1, <2>1 DEF SessionRow
  <1>. DEFINE r == [session[s] EXCEPT !.pc = "counted", !.sub = NoSub, !.row = NoRow,
                                      !.counted = n]
  <1>3. Fits(r) /\ KnownTo(r)
    BY <1>1 DEF Fits, Serves, SessionRow, PCs, KnownTo, NoRow, SubRow
  <1>4. session' = [session EXCEPT ![s] = r]
    BY <1>2 DEF CountUnlocked, IInv, TInv, TypeOK
  <1>. HIDE DEF r
  <1>. QED
    BY <1>3, <1>4, OnlyReads DEF CountUnlocked

LEMMA CommitCountStep ==
    ASSUME IInv, NEW s \in Sessions, CommitCount(s)
    PROVE  Holds
  <1>1. session[s] \in SessionRow
    BY DEF IInv, TInv, TypeOK
  <1>2. pool' \in [Pools -> PoolRow] /\ \A q \in Pools : pool'[q].status = pool[q].status
    <2>1. CASE session[s].pool = NoPool
      BY <2>1 DEF CommitCount, IInv, TInv, TypeOK
    <2>2. CASE session[s].pool # NoPool
      <3>1. PICK p \in Pools : p = session[s].pool
        BY <1>1, <2>2 DEF SessionRow
      <3>2. PICK n \in Nat : n = session[s].counted
        BY <1>1 DEF SessionRow
      <3>3. Written(s, p, n)
        BY <2>2, <3>1, <3>2 DEF CommitCount
      <3>. QED
        BY <3>3, WrittenType
    <2>. QED
      BY <2>1, <2>2
  <1>3. Sound /\ Placed'
    BY <1>2, SubsKept DEF CommitCount
  <1>4. /\ session' \in [Sessions -> SessionRow] /\ \A t \in Sessions : Serves(session'[t])
        /\ Known'
    BY <1>3, RestsKnown DEF Sound, CommitCount
  <1>. QED
    BY <1>2, <1>3, <1>4, Together DEF CommitCount, IInv, TInv, TypeOK

LEMMA ExpireStep ==
    ASSUME IInv, NEW x \in Subs, Expire(x)
    PROVE  Holds
  <1>1. /\ sub' \in [Subs -> SubRow]
        /\ \A y \in Subs : /\ sub'[y].user = sub[y].user /\ sub'[y].pool = sub[y].pool
                           /\ sub'[y].trial = sub[y].trial /\ sub'[y].status = sub[y].status
    BY DEF Expire, IInv, TInv, TypeOK, SubRow
  <1>2. Sound
    BY <1>1, Unmoved DEF Expire
  <1>3. Placed'
    BY <1>1 DEF IInv, Placed, Exists, Expire
  <1>4. /\ session' \in [Sessions -> SessionRow] /\ \A t \in Sessions : Serves(session'[t])
        /\ Known'
    BY <1>2, SessionsStay DEF Sound, Expire
  <1>. QED
    BY <1>2, <1>3, <1>4, Together DEF Expire, IInv, TInv, TypeOK

LEMMA IInvStep ==
    ASSUME IInv, [Next]_vars
    PROVE  IInv' /\ (NoStaleDelete /\ Held => Held')
  <1>. SUFFICES ASSUME \A s \in Sessions : ~CommitDeletePool(s)
                PROVE  Holds
    BY DeletePoolStep DEF Holds
  <1>1. ASSUME NEW s \in Sessions, NEW p \in Pools, NEW max \in Limits, CreatePool(s, p, max)
        PROVE  Holds
    <2>1. /\ pool' \in [Pools -> PoolRow]
          /\ \A q \in Pools : pool[q].status # "absent" => pool'[q].status # "absent"
      BY <1>1, LimitsAssumption DEF CreatePool, IInv, TInv, TypeOK, PoolRow
    <2>. QED
      BY <1>1, <2>1, PoolStep DEF CreatePool
  <1>2. ASSUME NEW s \in Sessions, NEW p \in Pools, NEW status \in {"active", "disabled"},
               NEW max \in Limits, UpdatePool(s, p, status, max)
        PROVE  Holds
    <2>1. /\ pool' \in [Pools -> PoolRow]
          /\ \A q \in Pools : pool[q].status # "absent" => pool'[q].status # "absent"
      BY <1>2, LimitsAssumption DEF UpdatePool, IInv, TInv, TypeOK, PoolRow
    <2>. QED
      BY <1>2, <2>1, PoolStep DEF UpdatePool
  <1>3. ASSUME NEW s \in Sessions, Abort(s)
        PROVE  Holds
    BY <1>3, IdleFits, ClosedKnown, OnlyReads DEF Abort, Close
  <1>4. CASE UNCHANGED vars
    BY <1>4, PoolStep DEF vars, IInv, TInv, TypeOK
  <1>. QED
    BY <1>1, <1>2, <1>3, <1>4, BeginDeleteStep, DeletePlanStep, RegisterStep, ReadStep, BulkStep,
       RegrantStep, AdmitStep, PoollessStep, ReviewStep, CommitReviewStep, CountUnlockedStep,
       CommitCountStep, ExpireStep DEF Next

LEMMA IInvHolds == Spec => []IInv
  <1>1. IInv /\ [Next]_vars => IInv'
    BY IInvStep
  <1>2. Init => IInv
    BY InitIInv
  <1>. QED
    BY <1>1, <1>2, PTL DEF Spec

(* Every state of pools, subscriptions and requests is well typed.         *)
THEOREM TypeCorrect == Spec => []TypeOK
  <1>1. IInv => TypeOK
    BY DEF IInv, TInv
  <1>. QED
    BY <1>1, IInvHolds, PTL

(* Whatever grants, purchases, reviews and deletions run at once, no       *)
(* subscription refers to a pool that is not there: the rows that entered  *)
(* one while it was being deleted lose the reference with it.              *)
THEOREM NoDanglingPool == Spec => []Placed
  <1>1. IInv => Placed
    BY DEF IInv
  <1>. QED
    BY <1>1, IInvHolds, PTL

LEMMA FreshHeld == Spec /\ []NoStaleDelete => []Held
  <1>1. IInv /\ NoStaleDelete /\ Held /\ [Next]_vars => Held'
    BY IInvStep
  <1>2. Init => Held
    BY InitIInv
  <1>. QED
    BY <1>1, <1>2, IInvHolds, PTL DEF Spec

(* Whoever has trial_used set was given a trial in a pool, in executions   *)
(* in which no pool is deleted under a row that has just entered it: the   *)
(* grants that swallow a pool without room commit a subscription, never    *)
(* the mark.                                                               *)
THEOREM FreshTrialPlaced == Spec /\ []NoStaleDelete => []TrialSpentWithPlace
  <1>1. Held => TrialSpentWithPlace
    BY DEF Held
  <1>. QED
    BY <1>1, FreshHeld, PTL

(* In the same executions what is bought has a pool, whatever              *)
(* registrations, bulk grants, reviews and purchases run at once.          *)
THEOREM FreshBoughtPlaced == Spec /\ []NoStaleDelete => []BoughtHasPool
  <1>1. Held => BoughtHasPool
    BY DEF Held
  <1>. QED
    BY <1>1, FreshHeld, PTL

-----------------------------------------------------------------------------
(* The counters.  A handler that is about to write a count has read the    *)
(* pool row as it is, and what it has counted covers the live              *)
(* subscriptions still.                                                    *)
NoStaleCount ==
    \A s \in Sessions :
        session[s].pc \in {"reviewing", "counted"} /\ session[s].pool # NoPool =>
            /\ session[s].loaded = pool[session[s].pool].count
            /\ session[s].pc = "counted" => Counted(session[s].pool) <= session[s].counted

(* What AdmissionsFit says of a step.                                      *)
AdmissionFits ==
    \A x \in Subs : (sub[x].status = "none" /\ sub'[x].pool # NoPool)
          => Cardinality({y \in Subs : Live(y)' /\ sub'[y].pool = sub'[x].pool})
                <= pool[sub'[x].pool].max

LEMMA Fewer ==
    ASSUME NEW T \in SUBSET Subs, NEW S \in SUBSET T
    PROVE  Cardinality(S) \in Nat /\ Cardinality(T) \in Nat /\ Cardinality(S) <= Cardinality(T)
  BY SubsAssumption, FS_Subset, FS_CardinalityType

LEMMA OneMore ==
    ASSUME NEW T \in SUBSET Subs, NEW x, NEW S \in SUBSET (T \cup {x})
    PROVE  Cardinality(S) \in Nat /\ Cardinality(T) \in Nat
           /\ Cardinality(S) <= Cardinality(T) + 1
  <1>1. IsFiniteSet(T) /\ Cardinality(T) \in Nat
    BY SubsAssumption, FS_Subset, FS_CardinalityType
  <1>2. /\ IsFiniteSet(T \cup {x})
        /\ Cardinality(T \cup {x}) = IF x \in T THEN Cardinality(T) ELSE Cardinality(T) + 1
    BY <1>1, FS_AddElement
  <1>3. /\ Cardinality(S) <= Cardinality(T \cup {x}) /\ Cardinality(S) \in Nat
        /\ Cardinality(T \cup {x}) \in Nat
    BY <1>2, FS_Subset, FS_CardinalityType
  <1>. QED
    BY <1>1, <1>2, <1>3

LEMMA PoolTypes ==
    ASSUME IInv
    PROVE  /\ \A p \in Pools : pool[p] \in PoolRow /\ pool[p].count \in Nat /\ pool[p].max \in Nat
           /\ \A x \in Subs : sub[x].pool \in Pools \cup {NoPool} /\ sub[x] \in SubRow
           /\ \A p \in Pools : p # NoPool
           /\ \A p : LiveIn(p) \subseteq Subs /\ Counted(p) \in Nat
  <1>1. \A p \in Pools : pool[p] \in PoolRow /\ pool[p].count \in Nat /\ pool[p].max \in Nat
    BY DEF IInv, TInv, TypeOK, PoolRow
  <1>2. \A x \in Subs : sub[x].pool \in Pools \cup {NoPool} /\ sub[x] \in SubRow
    BY DEF IInv, TInv, TypeOK, SubRow
  <1>3. \A p : LiveIn(p) \subseteq Subs /\ Counted(p) \in Nat
    BY Fewer DEF LiveIn, Counted
  <1>. QED
    BY <1>1, <1>2, <1>3, PoolsAssumption

(* No row enters a pool, and no pool loses its count.                      *)
LEMMA NobodyEnters ==
    ASSUME IInv, CountCoversLive,
           \A q \in Pools : /\ LiveIn(q)' \subseteq LiveIn(q)
                            /\ pool'[q].status # "absent" =>
                                  /\ pool[q].status # "absent"
                                  /\ pool'[q].count = pool[q].count
    PROVE  CountCoversLive'
  <1>. SUFFICES ASSUME NEW q \in Pools, pool'[q].status # "absent"
                PROVE  Counted(q)' <= pool'[q].count
    BY DEF CountCoversLive
  <1>1. Counted(q) <= pool[q].count /\ pool'[q].count = pool[q].count
    BY DEF CountCoversLive
  <1>2. /\ Cardinality(LiveIn(q)') \in Nat /\ Cardinality(LiveIn(q)) \in Nat
        /\ Cardinality(LiveIn(q)') <= Cardinality(LiveIn(q))
    BY PoolTypes, Fewer
  <1>. QED
    BY <1>1, <1>2, PoolTypes DEF Counted

LEMMA AttachCounted ==
    ASSUME IInv, CountCoversLive, NEW x \in FreshRows, NEW u \in Users, NEW trial \in BOOLEAN,
           Attach(x, u, trial)
    PROVE  CountCoversLive' /\ AdmissionFits
  <1>1. PICK p \in Free : Inserted(x, u, p, trial) /\ Assign(p)
    BY DEF Attach
  <1>2. /\ p \in Pools /\ p # NoPool /\ pool[p].status = "active"
        /\ pool[p].count < pool[p].max
    BY <1>1, PoolTypes DEF Free
  <1>3. /\ x \in Subs /\ sub[x].pool = NoPool /\ sub[x].status = "none"
        /\ sub'[x].pool = p /\ sub'[x].status = "active"
        /\ \A y \in Subs \ {x} : sub'[y] = sub[y]
    BY <1>1, <1>2, InsertedRow DEF FreshRows
  <1>4. /\ pool'[p].count = pool[p].count + 1
        /\ \A q \in Pools : /\ pool'[q].status = pool[q].status
                            /\ q # p => pool'[q] = pool[q]
    <2>1. pool' = [pool EXCEPT ![p] = [pool[p] EXCEPT !.count = pool[p].count + 1]]
      BY <1>1, <1>2 DEF Assign, IInv, TInv, TypeOK
    <2>. QED
      BY <1>2, <2>1, PoolTypes DEF PoolRow, IInv, TInv, TypeOK
  <1>5. LiveIn(p)' \subseteq LiveIn(p) \cup {x}
    BY <1>3 DEF LiveIn, Live
  <1>6. \A q \in Pools : q # p => LiveIn(q)' = LiveIn(q)
    BY <1>2, <1>3, PoolTypes DEF LiveIn, Live
  <1>7. /\ Counted(p) <= pool[p].count
        /\ Counted(p)' \in Nat /\ Counted(p)' <= Counted(p) + 1
    BY <1>2, <1>5, PoolTypes, OneMore DEF CountCoversLive, Counted
  <1>8. Counted(p)' <= pool'[p].count /\ Counted(p)' <= pool[p].max
    BY <1>2, <1>4, <1>7, PoolTypes
  <1>9. CountCoversLive'
    BY <1>4, <1>6, <1>8 DEF CountCoversLive, Counted
  <1>10. AdmissionFits
    <2>. SUFFICES ASSUME NEW y \in Subs, sub[y].status = "none", sub'[y].pool # NoPool
                  PROVE  Cardinality({z \in Subs : Live(z)' /\ sub'[z].pool = sub'[y].pool})
                            <= pool[sub'[y].pool].max
      BY DEF AdmissionFits
    <2>1. y = x
      BY <1>3 DEF IInv, Blank
    <2>2. {z \in Subs : Live(z)' /\ sub'[z].pool = p} = LiveIn(p)'
      BY DEF LiveIn
    <2>. QED
      BY <1>3, <1>8, <2>1, <2>2 DEF Counted
  <1>. QED
    BY <1>9, <1>10

LEMMA PoollessCounted ==
    ASSUME IInv, CountCoversLive, NEW x \in FreshRows, NEW u \in Users,
           Inserted(x, u, NoPool, TRUE), UNCHANGED pool
    PROVE  CountCoversLive' /\ AdmissionFits
  <1>1. /\ x \in Subs /\ sub'[x].pool = NoPool
        /\ \A y \in Subs \ {x} : sub'[y] = sub[y]
    BY InsertedRow
  <1>2. \A q \in Pools : LiveIn(q)' \subseteq LiveIn(q)
    BY <1>1, PoolTypes DEF LiveIn, Live
  <1>3. AdmissionFits
    BY <1>1 DEF AdmissionFits, IInv, Blank
  <1>. QED
    BY <1>2, <1>3, NobodyEnters

(* Pools are created empty: no row refers to one that is not there.        *)
LEMMA PoolCounted ==
    ASSUME IInv, CountCoversLive, UNCHANGED sub,
           \/ UNCHANGED pool
           \/ \E s \in Sessions, p \in Pools, max \in Limits : CreatePool(s, p, max)
           \/ \E s \in Sessions, p \in Pools, status \in {"active", "disabled"}, max \in Limits :
                 UpdatePool(s, p, status, max)
    PROVE  CountCoversLive' /\ AdmissionFits
  <1>1. AdmissionFits
    BY DEF AdmissionFits, IInv, Blank
  <1>2. \A q : LiveIn(q)' = LiveIn(q)
    BY DEF LiveIn, Live
  <1>3. CASE UNCHANGED pool
    BY <1>1, <1>2, <1>3 DEF CountCoversLive, Counted
  <1>4. ASSUME NEW s \in Sessions, NEW p \in Pools, NEW max \in Limits, CreatePool(s, p, max)
        PROVE  CountCoversLive'
    <2>1. /\ pool[p].status = "absent" /\ pool'[p].status = "active" /\ pool'[p].count = 0
          /\ \A q \in Pools \ {p} : pool'[q] = pool[q]
      BY <1>4 DEF CreatePool, IInv, TInv, TypeOK
    <2>2. LiveIn(p) = {}
      BY <2>1, PoolTypes DEF IInv, Placed, Exists, LiveIn, Live
    <2>3. Counted(p)' = 0
      BY <1>2, <2>2, FS_EmptySet DEF Counted
    <2>. QED
      BY <1>2, <2>1, <2>3 DEF CountCoversLive, Counted
  <1>5. ASSUME NEW s \in Sessions, NEW p \in Pools, NEW status \in {"active", "disabled"},
               NEW max \in Limits, UpdatePool(s, p, status, max)
        PROVE  CountCoversLive'
    <2>1. \A q \in Pools : /\ pool'[q].count = pool[q].count
                           /\ pool'[q].status # "absent" <=> pool[q].status # "absent"
      BY <1>5, PoolTypes DEF UpdatePool, IInv, TInv, TypeOK, PoolRow
    <2>. QED
      BY <1>2, <2>1, NobodyEnters
  <1>. QED
    BY <1>1, <1>3, <1>4, <1>5

(* A deletion only takes rows out of pools, and a pool.                    *)
LEMMA DeleteCounted ==
    ASSUME IInv, CountCoversLive, NEW s \in Sessions,
           CommitDeletePool(s) \/ CommitDeletePlan(s)
    PROVE  CountCoversLive' /\ AdmissionFits
  <1>1. \A x \in Subs : /\ sub'[x].pool \in {sub[x].pool, NoPool}
                        /\ Live(x)' => Live(x)
    <2>. SUFFICES ASSUME NEW x \in Subs
                  PROVE  /\ sub'[x].pool \in {sub[x].pool, NoPool}
                         /\ Live(x)' => Live(x)
      OBVIOUS
    <2>1. sub[x] \in SubRow
      BY PoolTypes
    <2>2. CASE CommitDeletePool(s)
      <3>1. sub'[x] \in {sub[x], [sub[x] EXCEPT !.pool = NoPool]}
        BY <2>2 DEF CommitDeletePool
      <3>. QED
        BY <2>1, <3>1 DEF Live, SubRow
    <2>3. CASE CommitDeletePlan(s)
      <3>1. sub'[x] \in {sub[x], [sub[x] EXCEPT !.status = "deleted", !.live = FALSE]}
        BY <2>3 DEF CommitDeletePlan
      <3>. QED
        BY <2>1, <3>1 DEF Live, SubRow
    <2>. QED
      BY <2>2, <2>3
  <1>2. \A q \in Pools : LiveIn(q)' \subseteq LiveIn(q)
    BY <1>1, PoolTypes DEF LiveIn
  <1>3. \A q \in Pools : pool'[q].status # "absent" => pool'[q] = pool[q]
    <2>1. CASE CommitDeletePool(s)
      <3>1. PICK p \in Pools : p = session[s].pool
        BY <2>1 DEF CommitDeletePool, IInv, TInv, Serves
      <3>2. pool' = [pool EXCEPT ![p] = [status |-> "absent", count |-> 0, max |-> 0]]
        BY <2>1, <3>1 DEF CommitDeletePool
      <3>. QED
        BY <3>2 DEF IInv, TInv, TypeOK
    <2>2. CASE CommitDeletePlan(s)
      BY <2>2 DEF CommitDeletePlan
    <2>. QED
      BY <2>1, <2>2
  <1>4. AdmissionFits
    BY <1>1 DEF AdmissionFits, IInv, Blank
  <1>. QED
    BY <1>2, <1>3, <1>4, NobodyEnters

LEMMA ExpireCounted ==
    ASSUME IInv, CountCoversLive, NEW x \in Subs, Expire(x)
    PROVE  CountCoversLive' /\ AdmissionFits /\ \A q : LiveIn(q)' \subseteq LiveIn(q)
  <1>1. \A y \in Subs : /\ sub'[y].pool = sub[y].pool /\ sub'[y].status = sub[y].status
                        /\ sub'[y].live => sub[y].live
    BY PoolTypes DEF Expire, Live, IInv, TInv, TypeOK, SubRow
  <1>2. \A q : LiveIn(q)' \subseteq LiveIn(q)
    BY <1>1 DEF LiveIn, Live
  <1>3. AdmissionFits
    BY <1>1 DEF AdmissionFits, IInv, Blank, Expire
  <1>. QED
    BY <1>2, <1>3, NobodyEnters DEF Expire

(* A count that is written covers the live subscriptions of its pool.      *)
LEMMA WrittenCovers ==
    ASSUME IInv, CountCoversLive, NEW s \in Sessions, NEW p \in Pools, NEW count \in Nat,
           Written(s, p, count), session[s].loaded = pool[p].count,
           Counted(p)' <= count,
           \A q \in Pools : q # p => LiveIn(q)' = LiveIn(q)
    PROVE  CountCoversLive'
  <1>1. /\ pool'[p].count = count
        /\ \A q \in Pools : /\ pool'[q].status = pool[q].status
                            /\ q # p => pool'[q] = pool[q]
    BY PoolTypes DEF Written, IInv, TInv, TypeOK, PoolRow
  <1>. QED
    BY <1>1 DEF CountCoversLive, Counted

LEMMA ReviewCounted ==
    ASSUME IInv, CountCoversLive, NoStaleCount, NEW s \in Sessions, CommitReview(s)
    PROVE  CountCoversLive' /\ AdmissionFits
  <1>. DEFINE x == session[s].sub
  <1>1. /\ x \in Subs /\ sub[x].pool \in {session[s].pool, NoPool}
        /\ \A y \in Subs : /\ sub'[y].pool = sub[y].pool
                           /\ y # x => sub'[y] = sub[y]
                           /\ sub'[y].status = "none" <=> sub[y].status = "none"
        /\ session[s].pool \in Pools \cup {NoPool}
    BY ReviewedRow
  <1>2. AdmissionFits
    BY <1>1 DEF AdmissionFits, IInv, Blank
  <1>3. \A q \in Pools : q # session[s].pool => LiveIn(q)' = LiveIn(q)
    BY <1>1, PoolTypes DEF LiveIn, Live
  <1>4. CASE session[s].pool = NoPool
    <2>1. UNCHANGED pool
      BY <1>4 DEF CommitReview
    <2>2. \A q \in Pools : LiveIn(q)' = LiveIn(q)
      BY <1>3, <1>4, PoolTypes
    <2>. QED
      BY <1>2, <2>1, <2>2, NobodyEnters
  <1>5. CASE session[s].pool # NoPool
    <2>1. PICK p \in Pools : p = session[s].pool
      BY <1>1, <1>5
    <2>2. session[s].loaded = pool[p].count
      BY <1>5, <2>1 DEF NoStaleCount, CommitReview
    <2>3. {y \in Subs : Live(y)' /\ sub[y].pool = p} = LiveIn(p)'
      BY <1>1 DEF LiveIn
    <2>4. Written(s, p, Cardinality({y \in Subs : Live(y)' /\ sub[y].pool = p}))
      BY <1>5, <2>1 DEF CommitReview
    <2>5. PICK count : count = Counted(p)'
      OBVIOUS
    <2>6. Written(s, p, count)
      BY <2>3, <2>4, <2>5 DEF Counted
    <2>7. count \in Nat
      <3>1. LiveIn(p)' \in SUBSET Subs
        BY DEF LiveIn
      <3>. QED
        BY <2>5, <3>1, Fewer DEF Counted
    <2>8. \A q \in Pools : q # p => LiveIn(q)' = LiveIn(q)
      BY <1>3, <2>1
    <2>9. Counted(p)' <= count
      BY <2>5, <2>7
    <2>. QED
      BY <1>2, <2>2, <2>6, <2>7, <2>8, <2>9, WrittenCovers
  <1>. QED
    BY <1>4, <1>5

LEMMA CommitCountCounted ==
    ASSUME IInv, CountCoversLive, NoStaleCount, NEW s \in Sessions, CommitCount(s)
    PROVE  CountCoversLive' /\ AdmissionFits
  <1>1. session[s] \in SessionRow /\ UNCHANGED sub
    BY DEF CommitCount, IInv, TInv, TypeOK
  <1>2. \A q : LiveIn(q)' = LiveIn(q)
    BY <1>1 DEF LiveIn, Live
  <1>3. CASE session[s].pool = NoPool
    BY <1>1, <1>3, PoolCounted DEF CommitCount
  <1>4. CASE session[s].pool # NoPool
    <2>1. PICK p \in Pools : p = session[s].pool
      BY <1>1, <1>4 DEF SessionRow
    <2>2. /\ session[s].loaded = pool[p].count /\ Counted(p) <= session[s].counted
          /\ Written(s, p, session[s].counted)
      BY <1>4, <2>1 DEF NoStaleCount, CommitCount
    <2>3. Counted(p)' = Counted(p)
      BY <1>2 DEF Counted
    <2>4. PICK count \in Nat : count = session[s].counted
      BY <1>1 DEF SessionRow
    <2>5. CountCoversLive'
      BY <1>2, <2>2, <2>3, <2>4, WrittenCovers
    <2>6. AdmissionFits
      BY <1>1 DEF AdmissionFits, IInv, Blank
    <2>. QED
      BY <2>5, <2>6
  <1>. QED
    BY <1>3, <1>4

LEMMA CountedStep ==
    ASSUME IInv, CountCoversLive, NoStaleCount, [Next]_vars
    PROVE  CountCoversLive' /\ AdmissionFits
  <1>1. ASSUME NEW s \in Sessions, NEW u \in Users, NEW x \in FreshRows,
               NEW automatic \in BOOLEAN, Register(s, u, x, automatic)
        PROVE  CountCoversLive' /\ AdmissionFits
    BY <1>1, AttachCounted, PoollessCounted, PoolCounted DEF Register
  <1>2. ASSUME NEW s \in Sessions, NEW u \in Users, NEW x \in FreshRows, BulkRegrant(s, u, x)
        PROVE  CountCoversLive' /\ AdmissionFits
    BY <1>2, AttachCounted, PoollessCounted DEF BulkRegrant
  <1>3. ASSUME NEW s \in Sessions, NEW x \in FreshRows, Admit(s, x) \/ GrantWithoutPool(s, x)
        PROVE  CountCoversLive' /\ AdmissionFits
    <2>1. session[s].user \in Users
      BY <1>3 DEF Admit, CommitGrant, CommitPurchase, GrantWithoutPool, IInv, TInv, Serves
    <2>2. CASE Admit(s, x)
      BY <2>1, <2>2, AttachCounted DEF Admit, CommitGrant, CommitPurchase
    <2>3. CASE GrantWithoutPool(s, x)
      BY <2>1, <2>3, PoollessCounted, PoolCounted DEF GrantWithoutPool
    <2>. QED
      BY <1>3, <2>2, <2>3
  <1>4. ASSUME NEW s \in Sessions, NEW u \in Users,
               ReadGrant(s, u) \/ ReadBulkGrant(s, u) \/ ReadPurchase(s, u)
        PROVE  UNCHANGED <<pool, sub>>
    BY <1>4 DEF ReadGrant, ReadBulkGrant, ReadPurchase
  <1>5. ASSUME NEW s \in Sessions, ReadBulk(s) \/ EndBulk(s) \/ CountUnlocked(s) \/ Abort(s)
        PROVE  UNCHANGED <<pool, sub>>
    BY <1>5 DEF ReadBulk, EndBulk, CountUnlocked, Abort
  <1>6. ASSUME NEW s \in Sessions,
               \/ \E x \in Subs, to \in {"active", "cancelled"} : Review(s, x, to)
               \/ \E p \in Pools : BeginDeletePool(s, p)
               \/ \E rows \in SUBSET Subs : BeginDeletePlan(s, rows)
        PROVE  UNCHANGED <<pool, sub>>
    BY <1>6 DEF Review, BeginDeletePool, BeginDeletePlan
  <1>7. CASE UNCHANGED <<pool, sub>>
    BY <1>7, PoolCounted
  <1>8. CASE \/ \E s \in Sessions, p \in Pools, max \in Limits : CreatePool(s, p, max)
             \/ \E s \in Sessions, p \in Pools, status \in {"active", "disabled"},
                   max \in Limits : UpdatePool(s, p, status, max)
    <2>1. UNCHANGED sub
      BY <1>8 DEF CreatePool, UpdatePool
    <2>. QED
      BY <1>8, <2>1, PoolCounted
  <1>. QED
    BY <1>1, <1>2, <1>3, <1>4, <1>5, <1>6, <1>7, <1>8, DeleteCounted, ReviewCounted,
       CommitCountCounted, ExpireCounted DEF Next, vars

LEMMA InitCounted == Init => CountCoversLive
  <1>. SUFFICES ASSUME Init
                PROVE  CountCoversLive
    OBVIOUS
  <1>. QED
    BY DEF Init, CountCoversLive

(* Whatever expires, is reactivated, cancelled, limited or clicked twice,  *)
(* a pool's counter is not below its live subscriptions, in executions in  *)
(* which no handler writes a count over one that has changed since.        *)
THEOREM FreshCountCovers == Spec /\ []NoStaleCount => []CountCoversLive
  <1>1. IInv /\ CountCoversLive /\ NoStaleCount /\ [Next]_vars => CountCoversLive'
    BY CountedStep
  <1>. QED
    BY <1>1, InitCounted, IInvHolds, PTL DEF Spec

(* In the same executions whoever is admitted to a pool fits into it.      *)
THEOREM FreshAdmissionsFit == Spec /\ []NoStaleCount => AdmissionsFit
  <1>1. IInv /\ CountCoversLive /\ NoStaleCount /\ [Next]_vars
           => CountCoversLive' /\ [AdmissionFits]_vars
    BY CountedStep
  <1>. QED
    BY <1>1, InitCounted, IInvHolds, PTL DEF Spec, AdmissionsFit, AdmissionFits

-----------------------------------------------------------------------------
(* One session at a time: what it has read is never stale.                 *)
OneSession == \A s, t \in Sessions : s = t

Fresh == NoStaleCount /\ NoStaleDelete

LEMMA OneSessionStep ==
    ASSUME OneSession, IInv, CountCoversLive, Fresh, [Next]_vars
    PROVE  Fresh'
  <1>1. ASSUME NEW s \in Sessions, session'[s].pc \notin {"reviewing", "counted", "deleting"}
        PROVE  Fresh'
    BY <1>1 DEF Fresh, NoStaleCount, NoStaleDelete, OneSession
  <1>2. ASSUME NEW s \in Sessions, Close(s) \/ Granted(s)
        PROVE  Fresh'
    <2>1. PICK r : r.pc \in {"idle", "bulk"} /\ session' = [session EXCEPT ![s] = r]
      BY <1>2, Rests
    <2>2. session'[s] = r
      BY <2>1 DEF IInv, TInv, TypeOK
    <2>. QED
      BY <1>1, <2>1, <2>2
  <1>3. ASSUME NEW s \in Sessions, session[s].pc \in {"idle", "bulk"},
               session'[s].pc = session[s].pc
        PROVE  Fresh'
    BY <1>1, <1>3
  <1>4. CASE \/ \E s \in Sessions, p \in Pools, max \in Limits : CreatePool(s, p, max)
             \/ \E s \in Sessions, p \in Pools, status \in {"active", "disabled"},
                   max \in Limits : UpdatePool(s, p, status, max)
             \/ \E s \in Sessions, u \in Users, x \in FreshRows, automatic \in BOOLEAN :
                   Register(s, u, x, automatic)
    <2>1. \E s \in Sessions : session[s].pc = "idle" /\ session' = session
      BY <1>4 DEF CreatePool, UpdatePool, Register
    <2>. QED
      BY <1>3, <2>1
  <1>5. ASSUME NEW s \in Sessions, NEW u \in Users, NEW x \in FreshRows, BulkRegrant(s, u, x)
        PROVE  Fresh'
    <2>1. session[s] \in SessionRow
      BY DEF IInv, TInv, TypeOK
    <2>2. session'[s].pc = session[s].pc
      BY <1>5, <2>1 DEF BulkRegrant, IInv, TInv, TypeOK, SessionRow
    <2>. QED
      BY <1>3, <1>5, <2>2 DEF BulkRegrant
  <1>6. ASSUME NEW s \in Sessions, NEW u \in Users,
               ReadGrant(s, u) \/ ReadBulkGrant(s, u) \/ ReadPurchase(s, u)
        PROVE  Fresh'
    <2>1. session[s] \in SessionRow
      BY DEF IInv, TInv, TypeOK
    <2>2. session'[s].pc \in {"granting", "bulk", "buying"}
      BY <1>6, <2>1 DEF ReadGrant, ReadBulkGrant, ReadPurchase, IInv, TInv, TypeOK, SessionRow
    <2>. QED
      BY <1>1, <2>2
  <1>7. ASSUME NEW s \in Sessions, NEW rows \in SUBSET Subs,
               ReadBulk(s) \/ BeginDeletePlan(s, rows)
        PROVE  Fresh'
    <2>1. session[s] \in SessionRow
      BY DEF IInv, TInv, TypeOK
    <2>2. session'[s].pc \in {"bulk", "removing"}
      <3>1. CASE ReadBulk(s)
        BY <3>1 DEF ReadBulk, Idle, IInv, TInv, TypeOK
      <3>2. CASE BeginDeletePlan(s, rows)
        BY <2>1, <3>2 DEF BeginDeletePlan, IInv, TInv, TypeOK, SessionRow
      <3>. QED
        BY <1>7, <3>1, <3>2
    <2>. QED
      BY <1>1, <2>2
  <1>8. ASSUME NEW s \in Sessions,
               \/ EndBulk(s) \/ Abort(s) \/ CommitReview(s) \/ CommitCount(s)
               \/ CommitDeletePool(s) \/ CommitDeletePlan(s)
               \/ \E x \in FreshRows : Admit(s, x) \/ GrantWithoutPool(s, x)
        PROVE  Fresh'
    BY <1>2, <1>8 DEF EndBulk, Abort, CommitReview, CommitCount, CommitDeletePool,
                      CommitDeletePlan, Admit, CommitGrant, CommitPurchase, GrantWithoutPool
  <1>9. ASSUME NEW s \in Sessions, NEW p \in Pools, BeginDeletePool(s, p)
        PROVE  Fresh'
    <2>1. session[s] \in SessionRow
      BY DEF IInv, TInv, TypeOK
    <2>2. session'[s].pc = "deleting" /\ session'[s].pool = p /\ UNCHANGED sub
      BY <1>9, <2>1 DEF BeginDeletePool, IInv, TInv, TypeOK, SessionRow
    <2>3. \A x \in Subs : Exists(x)' => sub'[x].pool # p
      BY <1>9, <2>2 DEF BeginDeletePool, Exists
    <2>. QED
      BY <2>2, <2>3 DEF Fresh, NoStaleCount, NoStaleDelete, OneSession
  <1>10. ASSUME NEW s \in Sessions, NEW x \in Subs, NEW to \in {"active", "cancelled"},
                Review(s, x, to)
         PROVE  Fresh'
    <2>1. session[s] \in SessionRow
      BY DEF IInv, TInv, TypeOK
    <2>2. /\ session'[s].pc = "reviewing" /\ session'[s].pool = sub[x].pool
          /\ UNCHANGED <<pool, sub>>
          /\ sub[x].pool # NoPool => session'[s].loaded = pool[sub[x].pool].count
      BY <1>10, <2>1 DEF Review, IInv, TInv, TypeOK, SessionRow
    <2>. QED
      BY <2>2 DEF Fresh, NoStaleCount, NoStaleDelete, OneSession
  <1>11. ASSUME NEW s \in Sessions, CountUnlocked(s)
         PROVE  Fresh'
    <2>1. session[s] \in SessionRow /\ session[s].pc = "reviewing"
      BY <1>11 DEF IInv, TInv, TypeOK, CountUnlocked
    <2>. DEFINE p == session[s].pool
    <2>2. /\ session'[s].pc = "counted"
          /\ session'[s].pool = p /\ session'[s].loaded = session[s].loaded
          /\ p # NoPool => session'[s].counted = Counted(p)
          /\ UNCHANGED <<pool, sub>>
      BY <1>11, <2>1 DEF CountUnlocked, IInv, TInv, TypeOK, SessionRow
    <2>3. \A q : Counted(q)' = Counted(q)
      BY <2>2 DEF Counted, LiveIn, Live
    <2>4. Counted(p) \in Nat
      BY PoolTypes
    <2>. QED
      BY <2>1, <2>2, <2>3, <2>4 DEF Fresh, NoStaleCount, NoStaleDelete, OneSession
  <1>12. ASSUME NEW x \in Subs, Expire(x)
         PROVE  Fresh'
    <2>1. \A q : LiveIn(q)' \subseteq LiveIn(q) /\ LiveIn(q) \subseteq Subs
      BY <1>12, ExpireCounted, PoolTypes
    <2>2. \A q : Counted(q)' <= Counted(q) /\ Counted(q)' \in Nat /\ Counted(q) \in Nat
      BY <2>1, Fewer DEF Counted
    <2>3. /\ UNCHANGED <<pool, session>>
          /\ \A y \in Subs : sub'[y].pool = sub[y].pool /\ sub'[y].status = sub[y].status
      BY <1>12, PoolTypes DEF Expire, IInv, TInv, TypeOK, SubRow
    <2>4. ASSUME NEW s \in Sessions, session[s].pc \in {"reviewing", "counted"},
                 session[s].pool # NoPool
          PROVE  /\ session[s].loaded = pool[session[s].pool].count
                 /\ session[s].pc = "counted" => Counted(session[s].pool)' <= session[s].counted
      <3>1. session[s].counted \in Nat
        BY <2>4 DEF IInv, TInv, TypeOK, SessionRow
      <3>2. PICK p : p = session[s].pool
        OBVIOUS
      <3>3. /\ session[s].loaded = pool[p].count
            /\ session[s].pc = "counted" => Counted(p) <= session[s].counted
        BY <2>4, <3>2 DEF Fresh, NoStaleCount
      <3>4. Counted(session[s].pool)' = Counted(p)'
        BY <2>3, <3>2 DEF Counted, LiveIn
      <3>. QED
        BY <2>2, <3>1, <3>2, <3>3, <3>4
    <2>5. NoStaleCount'
      BY <2>3, <2>4 DEF NoStaleCount
    <2>6. NoStaleDelete'
      BY <2>3 DEF Fresh, NoStaleDelete, Exists
    <2>. QED
      BY <2>5, <2>6 DEF Fresh
  <1>13. CASE UNCHANGED vars
    BY <1>13 DEF vars, Fresh, NoStaleCount, NoStaleDelete, Counted, LiveIn, Live, Exists
  <1>. QED
    BY <1>4, <1>5, <1>6, <1>7, <1>8, <1>9, <1>10, <1>11, <1>12, <1>13 DEF Next

LEMMA OneSessionFresh ==
    ASSUME OneSession
    PROVE  Spec => []NoStaleCount /\ []NoStaleDelete
  <1>1. IInv /\ CountCoversLive /\ Fresh /\ [Next]_vars => Fresh' /\ CountCoversLive'
    BY OneSessionStep, CountedStep DEF Fresh
  <1>2. Init => Fresh
    BY IdleFits DEF Init, Fresh, NoStaleCount, NoStaleDelete
  <1>3. Fresh => NoStaleCount /\ NoStaleDelete
    BY DEF Fresh
  <1>. QED
    BY <1>1, <1>2, <1>3, InitCounted, IInvHolds, PTL DEF Spec

(* While the bot serves one request at a time, a spent trial was given a   *)
(* place in a pool.                                                        *)
THEOREM SerialTrialPlaced ==
    ASSUME OneSession
    PROVE  Spec => []TrialSpentWithPlace
  <1>. QED
    BY OneSessionFresh, FreshTrialPlaced, PTL

(* And what is bought has a pool.                                          *)
THEOREM SerialBoughtPlaced ==
    ASSUME OneSession
    PROVE  Spec => []BoughtHasPool
  <1>. QED
    BY OneSessionFresh, FreshBoughtPlaced, PTL

(* And active_users never falls below the live subscriptions: a place that *)
(* is taken is not offered.                                                *)
THEOREM SerialCountCovers ==
    ASSUME OneSession
    PROVE  Spec => []CountCoversLive
  <1>. QED
    BY OneSessionFresh, FreshCountCovers, PTL

(* And nobody is admitted beyond max_users.                                *)
THEOREM SerialAdmissionsFit ==
    ASSUME OneSession
    PROVE  Spec => AdmissionsFit
  <1>. QED
    BY OneSessionFresh, FreshAdmissionsFit, PTL
=============================================================================
