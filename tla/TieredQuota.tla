----------------------------- MODULE TieredQuota -----------------------------
(***************************************************************************)
(* The quota of a "tiered_cooldown" subscription (check_chat_usage_        *)
(* permission_toman and charge_chat_usage_toman in toman_billing_service,  *)
(* and the chat of bot.py that calls the one before the model answers and  *)
(* the other after it).                                                    *)
(*                                                                         *)
(* A subscription row counts what it covered in the running week and in    *)
(* the running cooldown window.  Nothing runs when a deadline passes: the  *)
(* next check, charge or usage report finds it passed and resets the       *)
(* counter.  A chat keeps the row object its check returned (user_sub) and *)
(* the session does not expire it on commit, so the charge after the       *)
(* answer works on the values the check has read, and writes the columns   *)
(* that differ from them.                                                  *)
(*                                                                         *)
(* One user with one subscription at a time; a model without a price is    *)
(* not metered and is left out.  The button that would let a user beyond   *)
(* the quota pay from the balance ("payg_confirm") has no handler: such a  *)
(* chat is refused whatever the balance.                                   *)
(***************************************************************************)
EXTENDS Integers

CONSTANTS
    Turns,          \* chats of the user handled at once
    NoTurn,
    Costs,          \* what a completion may be quoted or cost
    Week,           \* timedelta(days=7)
    Cooldown,       \* cooldown_hours of the plan
    WeeklyLimit,
    CooldownLimit,
    Balance,        \* what the account holds at the start
    MaxNow,         \* bound: instants
    MaxSubs         \* bound: subscriptions bought

ASSUME CostsAssumption == Costs \subseteq Nat \ {0}
ASSUME PlanAssumption ==
    /\ Week \in Nat \ {0} /\ MaxNow \in Nat \ {0}
    /\ {Cooldown, WeeklyLimit, CooldownLimit, Balance, MaxSubs} \subseteq Nat
ASSUME TurnAssumption == NoTurn \notin Turns

VARIABLES
    now,
    sub,        \* the row of user_subscriptions
    live,       \* it is active and has not expired
    balance,    \* gift and paid balance together
    turn,       \* what each chat has read
    writer,     \* the chat whose transaction is open for writing
    history     \* what was really covered, and whether chats overlapped

vars == <<now, sub, live, balance, turn, writer, history>>

Unset == 0
Instants == 0 .. (MaxNow + Week + Cooldown)

(* id: which purchase; the two counters and their deadlines.               *)
Row == [id : 0 .. MaxSubs, weekly : Nat, resets : Instants, spent : Nat, ends : Instants]

FreshRow(i) == [id |-> i, weekly |-> 0, resets |-> Unset, spent |-> 0, ends |-> Unset]

(* "checked": admitted, the usage event to be written; "answering": the    *)
(* model is called, no lock held; "generating": without tools, lock held;  *)
(* "refused": the pending action to be committed; "reporting": a usage     *)
(* report that found an expired window.                                    *)
TurnRow == [pc : {"idle", "checked", "answering", "generating", "refused", "reporting"},
            covered : BOOLEAN, base : Row, row : Row]

Idle == [pc |-> "idle", covered |-> FALSE, base |-> FreshRow(0), row |-> FreshRow(0)]

TypeOK ==
    /\ now \in 1 .. MaxNow
    /\ sub \in Row
    /\ live \in BOOLEAN
    /\ balance \in Nat
    /\ turn \in [Turns -> TurnRow]
    /\ writer \in Turns \cup {NoTurn}
    /\ history \in [weekly : Nat, window : Nat, overlapped : BOOLEAN]

-----------------------------------------------------------------------------
WeekOver(r) == r.resets = Unset \/ now >= r.resets
WindowOver(r) == r.ends # Unset /\ now >= r.ends

InCooldown(r) == r.ends # Unset /\ now < r.ends /\ r.spent >= CooldownLimit
WeekSpentAbove(r) == WeeklyLimit > 0 /\ r.weekly > WeeklyLimit
WeekSpent(r) == WeeklyLimit > 0 /\ r.weekly >= WeeklyLimit
Exhausted(r) == InCooldown(r) \/ WeekSpent(r)

DeadlineOnly(r) == IF WeekOver(r) THEN [r EXCEPT !.resets = now + Week] ELSE r
WeekReset(r) == IF WeekOver(r) THEN [r EXCEPT !.weekly = 0, !.resets = now + Week] ELSE r
WindowReset(r) == IF WindowOver(r) THEN [r EXCEPT !.spent = 0, !.ends = Unset] ELSE r

WindowStarted(r) ==
    IF r.ends = Unset /\ Cooldown > 0
    THEN [r EXCEPT !.ends = now + Cooldown, !.spent = 0] ELSE r

MeteredDown(r, cost) ==
    LET w == WindowStarted(WindowReset(WeekReset(r)))
    IN  [w EXCEPT !.spent = @ - cost, !.weekly = @ - cost]

(* The covered branch of charge_chat_usage_toman.                          *)
Metered(r, cost) ==
    LET w == WindowStarted(WindowReset(WeekReset(r)))
    IN  [w EXCEPT !.spent = @ + cost, !.weekly = @ + cost]

(* The UPDATE the session emits: only the columns that differ from what it *)
(* has loaded or last written.                                             *)
Flushed(base, row) ==
    [sub EXCEPT !.weekly = IF row.weekly = base.weekly THEN @ ELSE row.weekly,
                !.resets = IF row.resets = base.resets THEN @ ELSE row.resets,
                !.spent = IF row.spent = base.spent THEN @ ELSE row.spent,
                !.ends = IF row.ends = base.ends THEN @ ELSE row.ends]

(* The row a turn works on: its own object as long as the subscription is  *)
(* the one it has loaded, else the row in the database.                    *)
Held(t) == IF turn[t].row.id = sub.id THEN turn[t] ELSE [turn[t] EXCEPT !.base = sub, !.row = sub]

(* History: what the week and the window that are now on the row covered.  *)
Remember(cost) ==
    history' = [history EXCEPT
        !.weekly = (IF sub'.resets = sub.resets THEN @ ELSE 0) + cost,
        !.window = (IF sub'.ends = sub.ends THEN @ ELSE 0) + cost]

Quiet(t) == \A o \in Turns \ {t} : turn[o].pc = "idle"
Overlap(t) == history' = [history EXCEPT !.overlapped = @ \/ ~Quiet(t)]

Free(t) == writer \in {NoTurn, t}
Close(t) == turn' = [turn EXCEPT ![t] = Idle]
Released(t) == writer' = IF writer = t THEN NoTurn ELSE writer

-----------------------------------------------------------------------------
Init ==
    /\ now = 1
    /\ sub = FreshRow(0)
    /\ live = FALSE
    /\ balance = Balance
    /\ turn = [t \in Turns |-> Idle]
    /\ writer = NoTurn
    /\ history = [weekly |-> 0, window |-> 0, overlapped |-> FALSE]

(* A purchase, once the previous subscription is over.                     *)
Buy ==
    /\ ~live
    /\ writer = NoTurn
    /\ sub.id < MaxSubs
    /\ sub' = FreshRow(sub.id + 1)
    /\ live' = TRUE
    /\ history' = [history EXCEPT !.weekly = 0, !.window = 0]
    /\ UNCHANGED <<now, balance, turn, writer>>

(* The subscription expires, which waits for no lock, or is cancelled.     *)
End ==
    /\ live
    /\ live' = FALSE
    /\ UNCHANGED <<now, sub, balance, turn, writer, history>>

Tick ==
    /\ now < MaxNow
    /\ now' = now + 1
    /\ UNCHANGED <<sub, live, balance, turn, writer, history>>

(* check_chat_usage_permission_toman: the resets are made on the object    *)
(* and wait for the next flush.                                            *)
Check(t) ==
    LET row == WindowReset(WeekReset(sub))
    IN  /\ turn[t].pc = "idle"
        /\ live
        /\ turn' = [turn EXCEPT ![t] =
              [pc |-> IF Exhausted(row) THEN "refused" ELSE "checked",
               covered |-> TRUE, base |-> sub, row |-> row]]
        /\ Overlap(t)
        /\ UNCHANGED <<now, sub, live, balance, writer>>

(* Without a subscription the estimate is compared with the balance; what  *)
(* is refused then changes nothing here.                                   *)
CheckBalance(t, estimate) ==
    /\ turn[t].pc = "idle"
    /\ ~live
    /\ balance >= estimate
    /\ turn' = [turn EXCEPT ![t] = [Idle EXCEPT !.pc = "checked", !.row = FreshRow(0)]]
    /\ Overlap(t)
    /\ UNCHANGED <<now, sub, live, balance, writer>>

(* The refused chat is stored as the pending action, the resets with it.   *)
Refuse(t) ==
    /\ turn[t].pc = "refused"
    /\ writer = NoTurn
    /\ sub' = IF turn[t].row.id = sub.id THEN Flushed(turn[t].base, turn[t].row) ELSE sub
    /\ Remember(0)
    /\ Close(t)
    /\ UNCHANGED <<now, live, balance, writer>>

(* The usage event: committed while the tools are collected, ...           *)
Authorize(t) ==
    /\ turn[t].pc = "checked"
    /\ writer = NoTurn
    /\ sub' = IF turn[t].row.id = sub.id THEN Flushed(turn[t].base, turn[t].row) ELSE sub
    /\ Remember(0)
    /\ turn' = [turn EXCEPT ![t].pc = "answering", ![t].base = turn[t].row]
    /\ UNCHANGED <<now, live, balance, writer>>

(* ... or flushed only, for a chat without tools.                          *)
AuthorizeLocked(t) ==
    /\ turn[t].pc = "checked"
    /\ writer = NoTurn
    /\ writer' = t
    /\ turn' = [turn EXCEPT ![t].pc = "generating"]
    /\ UNCHANGED <<now, sub, live, balance, history>>

Answered(t) == turn[t].pc \in {"answering", "generating"} /\ Free(t)

(* charge_chat_usage_toman.                                                *)
CoveredByDatabase(t) == live /\ ~Exhausted(WeekReset(sub))
Covered(t) == live /\ ~Exhausted(WeekReset(Held(t).row))

Meter(t, cost) ==
    /\ Answered(t)
    /\ Covered(t)
    /\ sub' = Flushed(Held(t).base, Metered(Held(t).row, cost))
    /\ Remember(cost)
    /\ Close(t)
    /\ Released(t)
    /\ UNCHANGED <<now, live, balance>>

(* The balance pays, or the usage is marked billing_failed; a weekly reset *)
(* made on the way is committed with it.                                   *)
ChargeBalance(t, cost) ==
    /\ Answered(t)
    /\ ~Covered(t)
    /\ sub' = IF live THEN Flushed(Held(t).base, WeekReset(Held(t).row)) ELSE sub
    /\ balance' = IF balance >= cost THEN balance - cost ELSE balance
    /\ Remember(0)
    /\ Close(t)
    /\ Released(t)
    /\ UNCHANGED <<now, live>>

(* The model fails: the failed usage event is committed, and with it what  *)
(* the check has reset.                                                    *)
Fail(t) ==
    /\ Answered(t)
    /\ sub' = IF turn[t].row.id = sub.id THEN Flushed(turn[t].base, turn[t].row) ELSE sub
    /\ Remember(0)
    /\ Close(t)
    /\ Released(t)
    /\ UNCHANGED <<now, live, balance>>

(* _account_usage_text: an expired window is cleared.                       *)
Report(t) ==
    /\ turn[t].pc = "idle"
    /\ live
    /\ WindowOver(sub)
    /\ turn' = [turn EXCEPT ![t] = [pc |-> "reporting", covered |-> FALSE,
                                    base |-> sub, row |-> WindowReset(sub)]]
    /\ Overlap(t)
    /\ UNCHANGED <<now, sub, live, balance, writer>>

CommitReport(t) ==
    /\ turn[t].pc = "reporting"
    /\ writer = NoTurn
    /\ sub' = IF turn[t].row.id = sub.id THEN Flushed(turn[t].base, turn[t].row) ELSE sub
    /\ Remember(0)
    /\ Close(t)
    /\ UNCHANGED <<now, live, balance, writer>>

(* A refused lock, a cancelled task or the end of the process.             *)
Abort(t) ==
    /\ turn[t].pc # "idle"
    /\ Close(t)
    /\ Released(t)
    /\ UNCHANGED <<now, sub, live, balance, history>>

Next ==
    \/ Buy
    \/ End
    \/ Tick
    \/ \E t \in Turns : Check(t) \/ Refuse(t) \/ Authorize(t) \/ AuthorizeLocked(t)
    \/ \E t \in Turns, cost \in Costs :
          CheckBalance(t, cost) \/ Meter(t, cost) \/ ChargeBalance(t, cost)
    \/ \E t \in Turns : Fail(t) \/ Report(t) \/ CommitReport(t) \/ Abort(t)

Spec == Init /\ [][Next]_vars

-----------------------------------------------------------------------------
(* While chats do not overlap, the counters are exact: they hold what the  *)
(* running week and the running window have covered, although the resets   *)
(* are made in three places and written by whichever flush comes next.     *)
QuotaExact ==
    ~history.overlapped => sub.weekly = history.weekly /\ sub.spent = history.window

(* Overlapping chats may lose each other's counts, but no interleaving     *)
(* writes a week above its limit by more than one completion.              *)
WithinOneCompletion ==
    WeeklyLimit > 0 =>
        \/ sub.weekly < WeeklyLimit
        \/ \E cost \in Costs : sub.weekly < WeeklyLimit + cost

(* A chat admitted by the quota is not charged to the balance while the    *)
(* subscription that admitted it lasts, though other chats exhaust the     *)
(* quota and deadlines pass before its answer.                             *)
NoSurpriseCharge ==
    [][\A t \in Turns :
          turn[t].covered /\ turn[t].row.id = sub.id /\ live /\ turn'[t] # turn[t]
              => balance' = balance]_vars
=============================================================================
