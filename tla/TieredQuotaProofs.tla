-------------------------- MODULE TieredQuotaProofs --------------------------
(***************************************************************************)
(* Proofs about TieredQuota, for every set of chats and every cost, limit, *)
(* week, cooldown and balance.                                             *)
(***************************************************************************)
EXTENDS TieredQuota, TLAPS

-----------------------------------------------------------------------------
(* What a check has admitted it stays able to cover: no later instant and  *)
(* no other chat makes the row it holds exhausted.                         *)
Allowed(r) ==
    /\ ~WeekSpent(r)
    /\ r.ends = Unset \/ r.spent < CooldownLimit

Admitted(x) == x.covered /\ x.pc \in {"checked", "answering", "generating"} => Allowed(x.row)

(* A weekly counter passes the limit by less than a completion.            *)
Bounded(w) ==
    WeeklyLimit > 0 => \/ w < WeeklyLimit
                       \/ \E cost \in Costs : w < WeeklyLimit + cost

(* A row a chat holds, and the one it was loaded from.  Its weekly counter *)
(* is the loaded one, or was reset.                                        *)
Sound(x) == Bounded(x.row.weekly) /\ Admitted(x)

IInv == TypeOK /\ Bounded(sub.weekly) /\ \A t \in Turns : Sound(turn[t])

Fits(x) == x \in TurnRow /\ Sound(x)

LEMMA Numbers ==
    /\ Week \in Nat /\ Cooldown \in Nat /\ WeeklyLimit \in Nat /\ CooldownLimit \in Nat
    /\ Balance \in Nat /\ MaxNow \in Nat /\ MaxSubs \in Nat
    /\ \A cost \in Costs : cost \in Nat /\ cost > 0
  BY PlanAssumption, CostsAssumption

LEMMA FreshFacts ==
    ASSUME NEW i \in 0 .. MaxSubs
    PROVE  FreshRow(i) \in Row /\ FreshRow(i).weekly = 0 /\ Bounded(0)
  <1>1. 0 \in Instants
    BY Numbers DEF Instants
  <1>. QED
    BY <1>1, Numbers DEF FreshRow, Row, Unset, Bounded

LEMMA IdleFits == Fits(Idle)
  <1>1. FreshRow(0) \in Row /\ FreshRow(0).weekly = 0 /\ Bounded(0)
    BY FreshFacts, Numbers
  <1>. QED
    BY <1>1 DEF Fits, Sound, Admitted, Idle, TurnRow

LEMMA Replaced ==
    ASSUME IInv, NEW t \in Turns, NEW x, Fits(x), turn' = [turn EXCEPT ![t] = x]
    PROVE  turn' \in [Turns -> TurnRow] /\ \A o \in Turns : Sound(turn'[o])
  BY DEF IInv, TypeOK, Fits

LEMMA CloseFits ==
    ASSUME IInv, NEW t \in Turns, Close(t)
    PROVE  turn' \in [Turns -> TurnRow] /\ \A o \in Turns : Sound(turn'[o])
  BY IdleFits, Replaced DEF Close

-----------------------------------------------------------------------------
(* The resets and the metering, on a row.                                  *)
LEMMA ResetFacts ==
    ASSUME IInv, NEW r \in Row
    PROVE  /\ WeekReset(r) \in Row /\ WindowReset(r) \in Row
           /\ WeekReset(r).weekly \in {0, r.weekly} /\ WindowReset(r).weekly = r.weekly
           /\ WeekReset(r).id = r.id /\ WindowReset(r).id = r.id
           /\ WeekReset(r).spent = r.spent /\ WeekReset(r).ends = r.ends
  <1>1. now \in 1 .. MaxNow
    BY DEF IInv, TypeOK
  <1>2. now + Week \in Instants /\ 0 \in Instants
    BY <1>1, Numbers DEF Instants
  <1>. QED
    BY <1>2 DEF WeekReset, WindowReset, Row, Unset

LEMMA StartedFacts ==
    ASSUME IInv, NEW r \in Row
    PROVE  WindowStarted(r) \in Row /\ WindowStarted(r).weekly = r.weekly
           /\ WindowStarted(r).id = r.id
  <1>1. now \in 1 .. MaxNow
    BY DEF IInv, TypeOK
  <1>2. now + Cooldown \in Instants
    BY <1>1, Numbers DEF Instants
  <1>. QED
    BY <1>2 DEF WindowStarted, Row

LEMMA MeteredFacts ==
    ASSUME IInv, NEW r \in Row, NEW cost \in Costs
    PROVE  /\ Metered(r, cost) \in Row
           /\ Metered(r, cost).weekly = WeekReset(r).weekly + cost
  <1>. DEFINE w == WindowStarted(WindowReset(WeekReset(r)))
  <1>1. w \in Row /\ w.weekly = WeekReset(r).weekly
    BY ResetFacts, StartedFacts
  <1>2. w.spent + cost \in Nat /\ w.weekly + cost \in Nat
    BY <1>1, Numbers DEF Row
  <1>3. Metered(r, cost) = [w EXCEPT !.spent = w.spent + cost, !.weekly = w.weekly + cost]
    BY DEF Metered
  <1>. HIDE DEF w
  <1>. QED
    BY <1>1, <1>2, <1>3 DEF Row

(* A row the check does not find exhausted covers the chat from then on.   *)
LEMMA CheckAllows ==
    ASSUME IInv, NEW r \in Row
    PROVE  LET row == WindowReset(WeekReset(r))
           IN  ~Exhausted(row) => Allowed(row)
  <1>. DEFINE w == WeekReset(r)
              row == WindowReset(w)
  <1>1. w \in Row /\ row \in Row
    BY ResetFacts
  <1>2. now \in Nat /\ row.ends \in Int /\ row.spent \in Nat
    BY <1>1, Numbers DEF IInv, TypeOK, Row, Instants
  <1>3. ~WindowOver(row)
    <2>1. CASE WindowOver(w)
      BY <1>1, <2>1 DEF WindowReset, WindowOver, Row, Unset
    <2>2. CASE ~WindowOver(w)
      BY <2>2 DEF WindowReset
    <2>. QED
      BY <2>1, <2>2
  <1>. HIDE DEF row
  <1>4. ~Exhausted(row) => Allowed(row)
    BY <1>2, <1>3, Numbers DEF Exhausted, InCooldown, Allowed, WindowOver
  <1>. QED
    BY <1>4 DEF row

LEMMA AllowedCovers ==
    ASSUME IInv, NEW r \in Row, Allowed(r)
    PROVE  ~Exhausted(WeekReset(r))
  <1>. DEFINE w == WeekReset(r)
  <1>1. w \in Row /\ w.weekly \in {0, r.weekly} /\ w.spent = r.spent /\ w.ends = r.ends
    BY ResetFacts
  <1>. HIDE DEF w
  <1>2. ~WeekSpent(w)
    BY <1>1, Numbers DEF Allowed, WeekSpent, Row
  <1>3. ~InCooldown(w)
    BY <1>1, Numbers DEF Allowed, InCooldown, Row
  <1>. QED
    BY <1>2, <1>3 DEF Exhausted, w

(* A flush leaves each column as it is or sets it to the row's.            *)
LEMMA FlushedFacts ==
    ASSUME IInv, NEW base \in Row, NEW row \in Row
    PROVE  /\ Flushed(base, row) \in Row
           /\ Flushed(base, row).weekly \in {sub.weekly, row.weekly}
  <1>1. sub \in Row
    BY DEF IInv, TypeOK
  <1>. QED
    BY <1>1 DEF Flushed, Row

LEMMA HeldFacts ==
    ASSUME IInv, NEW t \in Turns
    PROVE  Held(t).base \in Row /\ Held(t).row \in Row /\ Bounded(Held(t).row.weekly)
  <1>1. turn[t] \in TurnRow /\ Bounded(turn[t].row.weekly) /\ sub \in Row /\ Bounded(sub.weekly)
    BY DEF IInv, TypeOK, Sound
  <1>. QED
    BY <1>1 DEF Held, TurnRow

LEMMA HistoryType ==
    ASSUME IInv, NEW t \in Turns, NEW cost \in Nat, Remember(cost) \/ Overlap(t)
    PROVE  history' \in [weekly : Nat, window : Nat, overlapped : BOOLEAN]
  <1>1. history \in [weekly : Nat, window : Nat, overlapped : BOOLEAN]
    BY DEF IInv, TypeOK
  <1>2. CASE Remember(cost)
    <2>. DEFINE w == (IF sub'.resets = sub.resets THEN history.weekly ELSE 0) + cost
                n == (IF sub'.ends = sub.ends THEN history.window ELSE 0) + cost
    <2>1. w \in Nat /\ n \in Nat
      BY <1>1
    <2>2. history' = [history EXCEPT !.weekly = w, !.window = n]
      BY <1>1, <1>2 DEF Remember
    <2>. HIDE DEF w, n
    <2>. QED
      BY <1>1, <2>1, <2>2
  <1>3. CASE Overlap(t)
    <2>1. Quiet(t) \in BOOLEAN
      BY DEF Quiet
    <2>. QED
      BY <1>1, <1>3, <2>1 DEF Overlap
  <1>. QED
    BY <1>2, <1>3

LEMMA ReleasedType ==
    ASSUME IInv, NEW t \in Turns, Released(t)
    PROVE  writer' \in Turns \cup {NoTurn}
  BY DEF Released, IInv, TypeOK

-----------------------------------------------------------------------------
LEMMA InitIInv == Init => IInv
  <1>. SUFFICES ASSUME Init
                PROVE  IInv
    OBVIOUS
  <1>1. sub \in Row /\ sub.weekly = 0 /\ Bounded(0)
    BY FreshFacts, Numbers DEF Init
  <1>2. turn \in [Turns -> TurnRow] /\ \A t \in Turns : Sound(turn[t])
    BY IdleFits DEF Init, Fits
  <1>3. now \in 1 .. MaxNow
    BY PlanAssumption DEF Init
  <1>. QED
    BY <1>1, <1>2, <1>3, Numbers DEF Init, IInv, TypeOK

(* A commit that writes what the chat has reset, and nothing else.         *)
LEMMA ResetsWritten ==
    ASSUME IInv, NEW t \in Turns,
           sub' = IF turn[t].row.id = sub.id THEN Flushed(turn[t].base, turn[t].row) ELSE sub
    PROVE  sub' \in Row /\ Bounded(sub'.weekly)
  <1>1. turn[t].base \in Row /\ turn[t].row \in Row /\ Bounded(turn[t].row.weekly)
        /\ sub \in Row /\ Bounded(sub.weekly)
    BY DEF IInv, TypeOK, TurnRow, Sound
  <1>. QED
    BY <1>1, FlushedFacts

LEMMA PurchaseStep ==
    ASSUME IInv, Buy
    PROVE  IInv'
  <1>1. sub.id + 1 \in 0 .. MaxSubs
    BY Numbers DEF Buy, IInv, TypeOK, Row
  <1>2. sub' \in Row /\ sub'.weekly = 0 /\ Bounded(0)
    BY <1>1, FreshFacts DEF Buy
  <1>3. history' \in [weekly : Nat, window : Nat, overlapped : BOOLEAN]
    BY DEF Buy, IInv, TypeOK
  <1>. QED
    BY <1>2, <1>3 DEF Buy, IInv, TypeOK

LEMMA CheckStep ==
    ASSUME IInv, NEW t \in Turns, Check(t)
    PROVE  IInv'
  <1>. DEFINE row == WindowReset(WeekReset(sub))
              x == [pc |-> IF Exhausted(row) THEN "refused" ELSE "checked",
                    covered |-> TRUE, base |-> sub, row |-> row]
  <1>1. sub \in Row /\ Bounded(sub.weekly) /\ Bounded(0)
    BY FreshFacts, Numbers DEF IInv, TypeOK
  <1>2. row \in Row /\ row.weekly \in {0, sub.weekly}
    BY <1>1, ResetFacts
  <1>3. ~Exhausted(row) => Allowed(row)
    BY <1>1, CheckAllows
  <1>4. turn' = [turn EXCEPT ![t] = x]
    BY DEF Check
  <1>. HIDE DEF row
  <1>5. Fits(x)
    BY <1>1, <1>2, <1>3 DEF Fits, Sound, Admitted, TurnRow
  <1>. HIDE DEF x
  <1>6. turn' \in [Turns -> TurnRow] /\ \A o \in Turns : Sound(turn'[o])
    BY <1>4, <1>5, Replaced
  <1>7. history' \in [weekly : Nat, window : Nat, overlapped : BOOLEAN]
    BY HistoryType DEF Check
  <1>. QED
    BY <1>6, <1>7 DEF Check, IInv, TypeOK

LEMMA CheckBalanceStep ==
    ASSUME IInv, NEW t \in Turns, NEW cost \in Costs, CheckBalance(t, cost)
    PROVE  IInv'
  <1>. DEFINE x == [Idle EXCEPT !.pc = "checked", !.row = FreshRow(0)]
  <1>1. FreshRow(0) \in Row /\ FreshRow(0).weekly = 0 /\ Bounded(0)
    BY FreshFacts, Numbers
  <1>2. Fits(x)
    BY <1>1 DEF Fits, Sound, Admitted, TurnRow, Idle
  <1>3. turn' = [turn EXCEPT ![t] = x]
    BY DEF CheckBalance
  <1>. HIDE DEF x
  <1>4. turn' \in [Turns -> TurnRow] /\ \A o \in Turns : Sound(turn'[o])
    BY <1>2, <1>3, Replaced
  <1>5. history' \in [weekly : Nat, window : Nat, overlapped : BOOLEAN]
    BY HistoryType DEF CheckBalance
  <1>. QED
    BY <1>4, <1>5 DEF CheckBalance, IInv, TypeOK

LEMMA AuthorizeStep ==
    ASSUME IInv, NEW t \in Turns, Authorize(t)
    PROVE  IInv'
  <1>. DEFINE x == [turn[t] EXCEPT !.pc = "answering", !.base = turn[t].row]
  <1>1. turn[t] \in TurnRow /\ Sound(turn[t]) /\ turn[t].pc = "checked"
    BY DEF Authorize, IInv, TypeOK
  <1>2. Fits(x)
    BY <1>1 DEF Fits, Sound, Admitted, TurnRow
  <1>3. turn' = [turn EXCEPT ![t] = x]
    BY <1>1 DEF Authorize, IInv, TypeOK, TurnRow
  <1>. HIDE DEF x
  <1>4. turn' \in [Turns -> TurnRow] /\ \A o \in Turns : Sound(turn'[o])
    BY <1>2, <1>3, Replaced
  <1>5. history' \in [weekly : Nat, window : Nat, overlapped : BOOLEAN]
    BY HistoryType DEF Authorize
  <1>6. sub' \in Row /\ Bounded(sub'.weekly)
    BY ResetsWritten DEF Authorize
  <1>. QED
    BY <1>4, <1>5, <1>6 DEF Authorize, IInv, TypeOK

LEMMA AuthorizeLockedStep ==
    ASSUME IInv, NEW t \in Turns, AuthorizeLocked(t)
    PROVE  IInv'
  <1>. DEFINE x == [turn[t] EXCEPT !.pc = "generating"]
  <1>1. turn[t] \in TurnRow /\ Sound(turn[t]) /\ turn[t].pc = "checked"
    BY DEF AuthorizeLocked, IInv, TypeOK
  <1>2. Fits(x)
    BY <1>1 DEF Fits, Sound, Admitted, TurnRow
  <1>3. turn' = [turn EXCEPT ![t] = x]
    BY <1>1 DEF AuthorizeLocked, IInv, TypeOK, TurnRow
  <1>. HIDE DEF x
  <1>4. turn' \in [Turns -> TurnRow] /\ \A o \in Turns : Sound(turn'[o])
    BY <1>2, <1>3, Replaced
  <1>. QED
    BY <1>4 DEF AuthorizeLocked, IInv, TypeOK

(* Refuse, Fail and CommitReport end a chat that has counted nothing.      *)
LEMMA EndStep ==
    ASSUME IInv, NEW t \in Turns, Refuse(t) \/ Fail(t) \/ CommitReport(t)
    PROVE  IInv'
  <1>1. sub' \in Row /\ Bounded(sub'.weekly)
    BY ResetsWritten DEF Refuse, Fail, CommitReport
  <1>2. turn' \in [Turns -> TurnRow] /\ \A o \in Turns : Sound(turn'[o])
    BY CloseFits DEF Refuse, Fail, CommitReport
  <1>3. history' \in [weekly : Nat, window : Nat, overlapped : BOOLEAN]
    BY HistoryType DEF Refuse, Fail, CommitReport
  <1>4. writer' \in Turns \cup {NoTurn}
    BY ReleasedType DEF Refuse, Fail, CommitReport, IInv, TypeOK
  <1>. QED
    BY <1>1, <1>2, <1>3, <1>4 DEF Refuse, Fail, CommitReport, IInv, TypeOK

LEMMA MeterStep ==
    ASSUME IInv, NEW t \in Turns, NEW cost \in Costs, Meter(t, cost)
    PROVE  IInv'
  <1>. DEFINE held == Held(t).row
              row == Metered(held, cost)
  <1>1. Held(t).base \in Row /\ held \in Row
    BY HeldFacts
  <1>2. row \in Row /\ row.weekly = WeekReset(held).weekly + cost
    BY <1>1, MeteredFacts
  <1>3. Bounded(row.weekly)
    <2>1. ~WeekSpent(WeekReset(held)) /\ WeekReset(held).weekly \in Nat
      BY <1>1, ResetFacts DEF Meter, Covered, Exhausted, Row
    <2>. HIDE DEF held, row
    <2>2. WeeklyLimit > 0 => WeekReset(held).weekly < WeeklyLimit
      BY <2>1, Numbers DEF WeekSpent
    <2>3. WeeklyLimit > 0 => row.weekly < WeeklyLimit + cost
      BY <1>2, <2>1, <2>2, Numbers
    <2>. QED
      BY <2>3 DEF Bounded
  <1>4. sub' = Flushed(Held(t).base, row)
    BY DEF Meter
  <1>. HIDE DEF row
  <1>5. sub' \in Row /\ Bounded(sub'.weekly)
    BY <1>1, <1>2, <1>3, <1>4, FlushedFacts DEF IInv
  <1>6. turn' \in [Turns -> TurnRow] /\ \A o \in Turns : Sound(turn'[o])
    BY CloseFits DEF Meter
  <1>7. history' \in [weekly : Nat, window : Nat, overlapped : BOOLEAN]
    BY HistoryType, Numbers DEF Meter
  <1>8. writer' \in Turns \cup {NoTurn}
    BY ReleasedType DEF Meter
  <1>. QED
    BY <1>5, <1>6, <1>7, <1>8 DEF Meter, IInv, TypeOK

LEMMA ChargeBalanceStep ==
    ASSUME IInv, NEW t \in Turns, NEW cost \in Costs, ChargeBalance(t, cost)
    PROVE  IInv'
  <1>. DEFINE row == WeekReset(Held(t).row)
  <1>1. Held(t).base \in Row /\ Held(t).row \in Row /\ Bounded(Held(t).row.weekly)
        /\ Bounded(0) /\ sub \in Row /\ Bounded(sub.weekly)
    BY HeldFacts, FreshFacts, Numbers DEF IInv, TypeOK
  <1>2. row \in Row /\ row.weekly \in {0, Held(t).row.weekly}
    BY <1>1, ResetFacts
  <1>3. sub' = IF live THEN Flushed(Held(t).base, row) ELSE sub
    BY DEF ChargeBalance
  <1>. HIDE DEF row
  <1>4. sub' \in Row /\ Bounded(sub'.weekly)
    BY <1>1, <1>2, <1>3, FlushedFacts
  <1>5. turn' \in [Turns -> TurnRow] /\ \A o \in Turns : Sound(turn'[o])
    BY CloseFits DEF ChargeBalance
  <1>6. history' \in [weekly : Nat, window : Nat, overlapped : BOOLEAN]
    BY HistoryType DEF ChargeBalance
  <1>7. writer' \in Turns \cup {NoTurn}
    BY ReleasedType DEF ChargeBalance
  <1>8. balance' \in Nat
    BY Numbers DEF ChargeBalance, IInv, TypeOK
  <1>. QED
    BY <1>4, <1>5, <1>6, <1>7, <1>8 DEF ChargeBalance, IInv, TypeOK

LEMMA ReportStep ==
    ASSUME IInv, NEW t \in Turns, Report(t)
    PROVE  IInv'
  <1>. DEFINE row == WindowReset(sub)
              x == [pc |-> "reporting", covered |-> FALSE, base |-> sub, row |-> row]
  <1>1. sub \in Row /\ Bounded(sub.weekly)
    BY DEF IInv, TypeOK
  <1>2. row \in Row /\ row.weekly = sub.weekly
    BY <1>1, ResetFacts
  <1>3. turn' = [turn EXCEPT ![t] = x]
    BY DEF Report
  <1>. HIDE DEF row
  <1>4. Fits(x)
    BY <1>1, <1>2 DEF Fits, Sound, Admitted, TurnRow
  <1>. HIDE DEF x
  <1>5. turn' \in [Turns -> TurnRow] /\ \A o \in Turns : Sound(turn'[o])
    BY <1>3, <1>4, Replaced
  <1>6. history' \in [weekly : Nat, window : Nat, overlapped : BOOLEAN]
    BY HistoryType DEF Report
  <1>. QED
    BY <1>5, <1>6 DEF Report, IInv, TypeOK

LEMMA IInvStep == IInv /\ [Next]_vars => IInv'
  <1>. SUFFICES ASSUME IInv, [Next]_vars
                PROVE  IInv'
    OBVIOUS
  <1>1. CASE End
    BY <1>1 DEF End, IInv, TypeOK
  <1>2. CASE Tick
    BY <1>2, Numbers DEF Tick, IInv, TypeOK
  <1>3. ASSUME NEW t \in Turns, Abort(t)
        PROVE  IInv'
    <2>1. turn' \in [Turns -> TurnRow] /\ \A o \in Turns : Sound(turn'[o])
      BY <1>3, CloseFits DEF Abort
    <2>2. writer' \in Turns \cup {NoTurn}
      BY <1>3, ReleasedType DEF Abort
    <2>. QED
      BY <1>3, <2>1, <2>2 DEF Abort, IInv, TypeOK
  <1>4. CASE UNCHANGED vars
    BY <1>4 DEF vars, IInv, TypeOK
  <1>. QED
    BY <1>1, <1>2, <1>3, <1>4, PurchaseStep, CheckStep, CheckBalanceStep, AuthorizeStep,
       AuthorizeLockedStep, EndStep, MeterStep, ChargeBalanceStep, ReportStep DEF Next

LEMMA IInvHolds == Spec => []IInv
  <1>. QED
    BY InitIInv, IInvStep, PTL DEF Spec

-----------------------------------------------------------------------------
(* Every state of the quota, its rows, deadlines and chats is well typed.  *)
THEOREM TypeCorrect == Spec => []TypeOK
  <1>1. IInv => TypeOK
    BY DEF IInv
  <1>. QED
    BY <1>1, IInvHolds, PTL

(* However many chats overlap, and whichever columns their flushes leave   *)
(* out, a week is never written above its limit by more than a completion. *)
THEOREM OneCompletionOver == Spec => []WithinOneCompletion
  <1>1. IInv => WithinOneCompletion
    BY DEF IInv, Bounded, WithinOneCompletion
  <1>. QED
    BY <1>1, IInvHolds, PTL

(* A step of one chat leaves the others' rows alone.                       *)
Spared == \A t \in Turns :
             turn[t].covered /\ turn[t].row.id = sub.id /\ live /\ turn'[t] # turn[t]
                => balance' = balance

LEMMA StepSpares == IInv /\ [Next]_vars => Spared
  <1>. SUFFICES ASSUME IInv, [Next]_vars, NEW t \in Turns, turn[t].covered,
                       turn[t].row.id = sub.id, live, turn'[t] # turn[t],
                       balance' # balance
                PROVE  FALSE
    BY DEF Spared
  <1>1. PICK o \in Turns, cost \in Costs : ChargeBalance(o, cost)
    BY DEF Next, vars, Buy, End, Tick, Check, Refuse, Authorize, AuthorizeLocked,
           CheckBalance, Meter, Fail, Report, CommitReport, Abort
  <1>2. o = t
    BY <1>1 DEF ChargeBalance, Close, IInv, TypeOK
  <1>3. turn[t].pc \in {"answering", "generating"} /\ turn[t].row \in Row
    BY <1>1, <1>2 DEF ChargeBalance, Answered, IInv, TypeOK, TurnRow
  <1>4. Allowed(turn[t].row)
    BY <1>3 DEF IInv, Sound, Admitted
  <1>5. ~Exhausted(WeekReset(turn[t].row))
    BY <1>3, <1>4, AllowedCovers
  <1>6. Covered(t)
    BY <1>5 DEF Covered, Held
  <1>. QED
    BY <1>1, <1>2, <1>6 DEF ChargeBalance

(* The answer of a chat the quota admitted is not charged to the balance   *)
(* while its subscription lasts: its own row object, not what other chats  *)
(* have written, decides.                                                  *)
THEOREM Spares == Spec => NoSurpriseCharge
  <1>. QED
    BY IInvHolds, StepSpares, PTL DEF Spec, NoSurpriseCharge, Spared

-----------------------------------------------------------------------------
(* The counters are exact.  The strengthening: as long as chats do not     *)
(* overlap there is at most one, and if the subscription is the one it has *)
(* loaded, what it has loaded is on the row still; the row it holds        *)
(* differs in what was reset since, a counter and its deadline together.   *)

WeekSince(b, r) ==
    \/ r.resets = b.resets /\ r.weekly = b.weekly
    \/ r.resets > b.resets /\ r.weekly = 0

WindowSince(b, r) ==
    \/ r.ends = b.ends /\ r.spent = b.spent
    \/ r.ends = Unset /\ r.spent = 0 /\ b.ends # Unset /\ b.ends <= now

(* What may be flushed: a deadline that is as it was keeps its counter.    *)
Moved(b, r, cost) ==
    /\ r.weekly = (IF r.resets = b.resets THEN b.weekly ELSE 0) + cost
    /\ r.spent = (IF r.ends = b.ends THEN b.spent ELSE 0) + cost

Since(x) ==
    x.pc # "idle" /\ x.row.id = sub.id =>
        x.base = sub /\ WeekSince(x.base, x.row) /\ WindowSince(x.base, x.row)

(* Row 0, before the first purchase, is never written.                     *)
Blank ==
    /\ sub.id = 0 => sub = FreshRow(0) /\ ~live
    /\ \A t \in Turns : turn[t].row.id = 0 => /\ turn[t].row = FreshRow(0)
                                              /\ turn[t].base = FreshRow(0)
Older == \A t \in Turns : turn[t].row.id <= sub.id

Lone == \A t, o \in Turns : turn[t].pc # "idle" /\ turn[o].pc # "idle" => t = o

Exact == sub.weekly = history.weekly /\ sub.spent = history.window

QInv == /\ Blank /\ Older
        /\ ~history.overlapped => Lone /\ (\A t \in Turns : Since(turn[t])) /\ Exact

LEMMA IdleRow == Idle.pc = "idle" /\ Idle.row.id = 0 /\ Idle.row = FreshRow(0)
                 /\ Idle.base = FreshRow(0) /\ FreshRow(0).id = 0
  BY DEF Idle, FreshRow

LEMMA Typed ==
    ASSUME IInv
    PROVE  /\ sub \in Row /\ now \in Nat /\ now > 0 /\ turn \in [Turns -> TurnRow]
           /\ \A t \in Turns : turn[t] \in TurnRow /\ turn[t].row \in Row /\ turn[t].base \in Row
           /\ \A r \in Row : /\ r.id \in Nat /\ r.weekly \in Nat /\ r.resets \in Nat
                             /\ r.spent \in Nat /\ r.ends \in Nat
           /\ history.weekly \in Nat /\ history.window \in Nat
  BY DEF IInv, TypeOK, TurnRow, Row, Instants

-----------------------------------------------------------------------------
(* Resets.                                                                 *)
LEMMA WeekResetSince ==
    ASSUME IInv, NEW b \in Row, NEW r \in Row, WeekSince(b, r)
    PROVE  WeekSince(b, WeekReset(r))
  <1>1. /\ now \in Nat /\ now > 0 /\ Week \in Nat /\ Week > 0
        /\ r.resets \in Nat /\ b.resets \in Nat
    BY Typed, PlanAssumption
  <1>2. CASE WeekOver(r)
    <2>1. WeekReset(r).weekly = 0 /\ WeekReset(r).resets = now + Week
      BY <1>2 DEF WeekReset, Row
    <2>2. now + Week > r.resets
      BY <1>1, <1>2 DEF WeekOver, Unset
    <2>. QED
      BY <1>1, <2>1, <2>2 DEF WeekSince
  <1>3. CASE ~WeekOver(r)
    BY <1>3 DEF WeekReset
  <1>. QED
    BY <1>2, <1>3

LEMMA WindowResetSince ==
    ASSUME IInv, NEW b \in Row, NEW r \in Row, WindowSince(b, r)
    PROVE  WindowSince(b, WindowReset(r))
  <1>1. CASE WindowOver(r)
    <2>1. /\ WindowReset(r).spent = 0 /\ WindowReset(r).ends = Unset
          /\ r.ends # Unset /\ r.ends <= now
      BY <1>1, Typed DEF WindowReset, WindowOver, Row
    <2>. QED
      BY <2>1 DEF WindowSince
  <1>2. CASE ~WindowOver(r)
    BY <1>2 DEF WindowReset
  <1>. QED
    BY <1>1, <1>2

(* The two resets touch different columns.                                 *)
LEMMA OtherColumns ==
    ASSUME NEW r \in Row
    PROVE  /\ WeekReset(r).spent = r.spent /\ WeekReset(r).ends = r.ends
           /\ WeekReset(r).id = r.id
           /\ WindowReset(r).weekly = r.weekly /\ WindowReset(r).resets = r.resets
           /\ WindowReset(r).id = r.id
           /\ WindowStarted(r).weekly = r.weekly /\ WindowStarted(r).resets = r.resets
           /\ WindowStarted(r).id = r.id
  BY DEF WeekReset, WindowReset, WindowStarted, Row

LEMMA SinceSame == \A b : WeekSince(b, b) /\ WindowSince(b, b)
  BY DEF WeekSince, WindowSince

LEMMA SinceMoved ==
    ASSUME IInv, NEW b \in Row, NEW r \in Row, WeekSince(b, r), WindowSince(b, r)
    PROVE  Moved(b, r, 0)
  BY Typed DEF WeekSince, WindowSince, Moved

LEMMA MeteredMoved ==
    ASSUME IInv, NEW b \in Row, NEW r \in Row, WeekSince(b, r), WindowSince(b, r),
           NEW cost \in Costs
    PROVE  /\ Moved(b, Metered(r, cost), cost)
           /\ Metered(r, cost) \in Row /\ Metered(r, cost).id = r.id
  <1>1. PICK v : v = WindowReset(WeekReset(r))
    OBVIOUS
  <1>2. v \in Row /\ v.id = r.id /\ WeekReset(r) \in Row
    BY <1>1, ResetFacts
  <1>3. WeekSince(b, v) /\ WindowSince(b, v)
    <2>1. WeekSince(b, WeekReset(r)) /\ WindowSince(b, WeekReset(r))
      BY WeekResetSince, OtherColumns DEF WindowSince
    <2>2. WindowSince(b, v)
      BY <1>1, <1>2, <2>1, WindowResetSince
    <2>3. WeekSince(b, v)
      BY <1>1, <1>2, <2>1, OtherColumns DEF WeekSince
    <2>. QED
      BY <2>2, <2>3
  <1>4. PICK w : w = WindowStarted(v)
    OBVIOUS
  <1>5. w \in Row /\ w.id = v.id
    BY <1>2, <1>4, StartedFacts
  <1>6. w.weekly = IF w.resets = b.resets THEN b.weekly ELSE 0
    BY <1>2, <1>3, <1>4, OtherColumns, Typed DEF WeekSince
  <1>7. w.spent = IF w.ends = b.ends THEN b.spent ELSE 0
    <2>1. CASE v.ends = Unset /\ Cooldown > 0
      <3>1. w.ends = now + Cooldown /\ w.spent = 0
        BY <1>2, <1>4, <2>1 DEF WindowStarted, Row
      <3>2. w.ends # b.ends
        BY <1>2, <1>3, <2>1, <3>1, Numbers, Typed DEF WindowSince, Unset
      <3>. QED
        BY <3>1, <3>2
    <2>2. CASE ~(v.ends = Unset /\ Cooldown > 0)
      <3>1. w = v
        BY <1>4, <2>2 DEF WindowStarted
      <3>. QED
        BY <1>3, <3>1 DEF WindowSince
    <2>. QED
      BY <2>1, <2>2
  <1>8. Metered(r, cost) = [w EXCEPT !.spent = @ + cost, !.weekly = @ + cost]
    BY <1>1, <1>4 DEF Metered
  <1>9. PICK weekly \in Nat, spent \in Nat : weekly = w.weekly + cost /\ spent = w.spent + cost
    BY <1>5, Typed, Numbers
  <1>10. Metered(r, cost) = [w EXCEPT !.spent = spent, !.weekly = weekly]
    BY <1>8, <1>9
  <1>11. /\ Metered(r, cost).weekly = weekly /\ Metered(r, cost).spent = spent
         /\ Metered(r, cost).resets = w.resets /\ Metered(r, cost).ends = w.ends
         /\ Metered(r, cost).id = w.id /\ Metered(r, cost) \in Row
    BY <1>5, <1>10 DEF Row
  <1>. QED
    BY <1>2, <1>5, <1>6, <1>7, <1>9, <1>11 DEF Moved

-----------------------------------------------------------------------------
(* Flushes.                                                                *)
LEMMA FlushedFresh ==
    ASSUME IInv, NEW r \in Row, r.id = sub.id
    PROVE  Flushed(sub, r) = r
  <1>1. sub \in Row
    BY Typed
  <1>2. Flushed(sub, r) = [sub EXCEPT !.weekly = r.weekly, !.resets = r.resets,
                                      !.spent = r.spent, !.ends = r.ends]
    BY <1>1 DEF Flushed, Row
  <1>. QED
    BY <1>1, <1>2 DEF Row

LEMMA Remembered ==
    ASSUME IInv, Exact, NEW cost, Remember(cost), Moved(sub, sub', cost)
    PROVE  Exact'
  <1>1. history'.weekly = (IF sub'.resets = sub.resets THEN history.weekly ELSE 0) + cost
        /\ history'.window = (IF sub'.ends = sub.ends THEN history.window ELSE 0) + cost
    BY DEF Remember, IInv, TypeOK
  <1>. QED
    BY <1>1 DEF Exact, Moved

LEMMA Overlapping ==
    ASSUME IInv, NEW cost, Remember(cost)
    PROVE  history'.overlapped = history.overlapped
  BY DEF Remember, IInv, TypeOK

(* A row that was not loaded, and one that was: what is written when       *)
(* nothing is metered.                                                     *)
LEMMA ResetsMoved ==
    ASSUME IInv, QInv, NEW t \in Turns, turn[t].pc # "idle",
           sub' = IF turn[t].row.id = sub.id THEN Flushed(turn[t].base, turn[t].row) ELSE sub
    PROVE  /\ sub'.id = sub.id /\ (sub.id = 0 => sub' = sub)
           /\ ~history.overlapped =>
                 /\ Moved(sub, sub', 0)
                 /\ turn[t].row.id = sub.id => sub' = turn[t].row
  <1>1. /\ sub \in Row /\ turn[t].row \in Row /\ turn[t].base \in Row
    BY Typed
  <1>2. \A b, r : Flushed(b, r).id = sub.id
    BY <1>1 DEF Flushed, Row
  <1>3. \A r : Flushed(r, r) = sub
    BY <1>1 DEF Flushed, Row
  <1>4. sub.id = 0 => sub' = sub
    BY <1>3, FreshFacts, Numbers DEF QInv, Blank
  <1>5. ASSUME ~history.overlapped
        PROVE  /\ Moved(sub, sub', 0)
               /\ turn[t].row.id = sub.id => sub' = turn[t].row
    <2>1. CASE turn[t].row.id = sub.id
      <3>1. /\ turn[t].base = sub /\ WeekSince(sub, turn[t].row)
            /\ WindowSince(sub, turn[t].row)
        BY <1>5, <2>1 DEF QInv, Since
      <3>2. sub' = turn[t].row
        BY <1>1, <2>1, <3>1, FlushedFresh
      <3>. QED
        BY <1>1, <3>1, <3>2, SinceMoved
    <2>2. CASE turn[t].row.id # sub.id
      BY <1>1, <2>2, SinceSame, SinceMoved
    <2>. QED
      BY <2>1, <2>2
  <1>. QED
    BY <1>2, <1>4, <1>5

LEMMA HeldSince ==
    ASSUME IInv, QInv, NEW t \in Turns, turn[t].pc # "idle", ~history.overlapped,
           NEW b, NEW r, b = Held(t).base, r = Held(t).row
    PROVE  /\ b = sub /\ r \in Row /\ r.id = sub.id
           /\ WeekSince(b, r) /\ WindowSince(b, r)
  <1>1. sub \in Row /\ turn[t].row \in Row /\ turn[t] \in TurnRow
    BY Typed
  <1>2. CASE turn[t].row.id = sub.id
    BY <1>1, <1>2 DEF Held, QInv, Since
  <1>3. CASE turn[t].row.id # sub.id
    <2>1. b = sub /\ r = sub
      BY <1>1, <1>3 DEF Held, TurnRow
    <2>. QED
      BY <1>1, <2>1, SinceSame
  <1>. QED
    BY <1>2, <1>3

-----------------------------------------------------------------------------
(* The steps of a chat.                                                    *)
LEMMA OpenExact ==
    ASSUME IInv, QInv, NEW t \in Turns, turn[t].pc = "idle", Overlap(t),
           NEW x, turn' = [turn EXCEPT ![t] = x], x.row.id <= sub.id,
           x.row.id = 0 => x.row = FreshRow(0) /\ x.base = FreshRow(0),
           Since(x), UNCHANGED <<now, sub, live>>
    PROVE  QInv'
  <1>1. \A o \in Turns : turn'[o] = IF o = t THEN x ELSE turn[o]
    BY Typed
  <1>2. Blank' /\ Older'
    BY <1>1 DEF QInv, Blank, Older
  <1>3. /\ history'.weekly = history.weekly /\ history'.window = history.window
        /\ ~history'.overlapped => ~history.overlapped /\ Quiet(t)
    BY DEF Overlap, IInv, TypeOK
  <1>4. ASSUME ~history'.overlapped
        PROVE  Lone' /\ (\A o \in Turns : Since(turn[o])') /\ Exact'
    <2>1. \A o \in Turns : o # t => turn'[o].pc = "idle"
      BY <1>1, <1>3, <1>4 DEF Quiet
    <2>2. Since(turn[t])'
      BY <1>1 DEF Since, WindowSince, WeekSince
    <2>3. \A o \in Turns : Since(turn[o])'
      BY <2>1, <2>2 DEF Since
    <2>. QED
      BY <1>3, <1>4, <2>1, <2>3 DEF QInv, Lone, Exact
  <1>. QED
    BY <1>2, <1>4 DEF QInv

LEMMA CloseExact ==
    ASSUME IInv, QInv, NEW t \in Turns, turn[t].pc # "idle", Close(t),
           sub'.id = sub.id, sub.id = 0 => sub' = sub, live' = live,
           history'.overlapped = history.overlapped, ~history.overlapped => Exact'
    PROVE  QInv'
  <1>1. \A o \in Turns : turn'[o] = IF o = t THEN Idle ELSE turn[o]
    BY Typed DEF Close
  <1>2. sub.id \in Nat
    BY Typed
  <1>3. Blank' /\ Older'
    BY <1>1, <1>2, IdleRow DEF QInv, Blank, Older
  <1>4. ASSUME ~history.overlapped
        PROVE  \A o \in Turns : turn'[o].pc = "idle"
    BY <1>1, <1>4, IdleRow DEF QInv, Lone
  <1>. QED
    BY <1>3, <1>4 DEF QInv, Lone, Since

LEMMA CheckExact ==
    ASSUME IInv, QInv, NEW t \in Turns, Check(t)
    PROVE  QInv'
  <1>1. PICK row : row = WindowReset(WeekReset(sub))
    OBVIOUS
  <1>2. PICK x : x = [pc |-> IF Exhausted(row) THEN "refused" ELSE "checked",
                      covered |-> TRUE, base |-> sub, row |-> row]
    OBVIOUS
  <1>3. sub \in Row /\ WeekReset(sub) \in Row /\ row \in Row /\ row.id = sub.id
    BY <1>1, Typed, ResetFacts
  <1>4. WeekSince(sub, row) /\ WindowSince(sub, row)
    <2>1. WeekSince(sub, WeekReset(sub)) /\ WindowSince(sub, WeekReset(sub))
      BY <1>3, SinceSame, WeekResetSince, OtherColumns DEF WindowSince
    <2>2. WindowSince(sub, row)
      BY <1>1, <1>3, <2>1, WindowResetSince
    <2>3. WeekSince(sub, row)
      BY <1>1, <1>3, <2>1, OtherColumns DEF WeekSince
    <2>. QED
      BY <2>2, <2>3
  <1>5. sub.id # 0 /\ sub.id \in Nat
    BY <1>3, Typed DEF Check, QInv, Blank
  <1>6. x.row = row /\ x.base = sub /\ turn' = [turn EXCEPT ![t] = x]
    BY <1>1, <1>2 DEF Check
  <1>7. Since(x)
    BY <1>4, <1>6 DEF Since
  <1>8. x.row.id # 0 /\ x.row.id <= sub.id
    BY <1>3, <1>5, <1>6
  <1>9. turn[t].pc = "idle" /\ Overlap(t) /\ UNCHANGED <<now, sub, live>>
    BY DEF Check
  <1>. QED
    BY <1>6, <1>7, <1>8, <1>9, OpenExact

LEMMA ReportExact ==
    ASSUME IInv, QInv, NEW t \in Turns, Report(t)
    PROVE  QInv'
  <1>1. PICK row : row = WindowReset(sub)
    OBVIOUS
  <1>2. PICK x : x = [pc |-> "reporting", covered |-> FALSE, base |-> sub, row |-> row]
    OBVIOUS
  <1>3. sub \in Row /\ row \in Row /\ row.id = sub.id
    BY <1>1, Typed, ResetFacts
  <1>4. WeekSince(sub, row) /\ WindowSince(sub, row)
    BY <1>1, <1>3, SinceSame, WindowResetSince, OtherColumns DEF WeekSince
  <1>5. sub.id # 0 /\ sub.id \in Nat
    BY <1>3, Typed DEF Report, QInv, Blank
  <1>6. x.row = row /\ x.base = sub /\ turn' = [turn EXCEPT ![t] = x]
    BY <1>1, <1>2 DEF Report
  <1>7. Since(x)
    BY <1>4, <1>6 DEF Since
  <1>8. x.row.id # 0 /\ x.row.id <= sub.id
    BY <1>3, <1>5, <1>6
  <1>9. turn[t].pc = "idle" /\ Overlap(t) /\ UNCHANGED <<now, sub, live>>
    BY DEF Report
  <1>. QED
    BY <1>6, <1>7, <1>8, <1>9, OpenExact

LEMMA CheckBalanceExact ==
    ASSUME IInv, QInv, NEW t \in Turns, NEW cost \in Costs, CheckBalance(t, cost)
    PROVE  QInv'
  <1>1. PICK x : x = [Idle EXCEPT !.pc = "checked", !.row = FreshRow(0)]
    OBVIOUS
  <1>2. x.row = FreshRow(0) /\ x.base = FreshRow(0) /\ turn' = [turn EXCEPT ![t] = x]
    BY <1>1 DEF CheckBalance, Idle
  <1>3. FreshRow(0).id = 0 /\ sub.id \in Nat
    BY IdleRow, Typed
  <1>4. Since(x)
    BY <1>2, <1>3, SinceSame DEF Since, QInv, Blank
  <1>5. x.row.id <= sub.id
    BY <1>2, <1>3
  <1>6. turn[t].pc = "idle" /\ Overlap(t) /\ UNCHANGED <<now, sub, live>>
    BY DEF CheckBalance
  <1>. QED
    BY <1>2, <1>4, <1>5, <1>6, OpenExact

(* The usage event is committed, and with it the resets; the chat then     *)
(* holds the row as it was written.                                        *)
LEMMA AuthorizeExact ==
    ASSUME IInv, QInv, NEW t \in Turns, Authorize(t)
    PROVE  QInv'
  <1>. DEFINE x == [turn[t] EXCEPT !.pc = "answering", !.base = turn[t].row]
  <1>1. /\ turn[t] \in TurnRow /\ turn[t].pc = "checked"
        /\ turn' = [turn EXCEPT ![t] = x]
        /\ x.row = turn[t].row /\ x.base = turn[t].row /\ x.pc = "answering"
    BY Typed DEF Authorize, TurnRow
  <1>. HIDE DEF x
  <1>2. \A o \in Turns : turn'[o] = IF o = t THEN x ELSE turn[o]
    BY <1>1, Typed
  <1>3. /\ sub'.id = sub.id /\ (sub.id = 0 => sub' = sub)
        /\ ~history.overlapped =>
              /\ Moved(sub, sub', 0)
              /\ turn[t].row.id = sub.id => sub' = turn[t].row
    BY <1>1, ResetsMoved DEF Authorize
  <1>4. history'.overlapped = history.overlapped
    BY Overlapping DEF Authorize
  <1>5. Blank' /\ Older'
    BY <1>1, <1>2, <1>3 DEF QInv, Blank, Older, Authorize
  <1>6. ASSUME ~history.overlapped
        PROVE  Lone' /\ (\A o \in Turns : Since(turn[o])') /\ Exact'
    <2>1. Exact'
      BY <1>3, <1>6, Remembered DEF Authorize, QInv
    <2>2. \A o \in Turns : o # t => turn'[o].pc = "idle"
      BY <1>1, <1>2, <1>6 DEF QInv, Lone
    <2>3. Since(turn[t])'
      BY <1>1, <1>2, <1>3, <1>6 DEF Since, WeekSince, WindowSince
    <2>4. \A o \in Turns : Since(turn[o])'
      BY <2>2, <2>3 DEF Since
    <2>. QED
      BY <2>1, <2>2, <2>4 DEF Lone
  <1>. QED
    BY <1>4, <1>5, <1>6 DEF QInv

LEMMA AuthorizeLockedExact ==
    ASSUME IInv, QInv, NEW t \in Turns, AuthorizeLocked(t)
    PROVE  QInv'
  <1>. DEFINE x == [turn[t] EXCEPT !.pc = "generating"]
  <1>1. /\ turn[t].pc = "checked" /\ turn' = [turn EXCEPT ![t] = x]
        /\ x.row = turn[t].row /\ x.base = turn[t].base /\ x.pc = "generating"
        /\ UNCHANGED <<now, sub, live, history>>
    BY Typed DEF AuthorizeLocked, TurnRow
  <1>. HIDE DEF x
  <1>2. \A o \in Turns : turn'[o] = IF o = t THEN x ELSE turn[o]
    BY <1>1, Typed
  <1>3. Blank' /\ Older'
    BY <1>1, <1>2 DEF QInv, Blank, Older
  <1>4. ASSUME ~history.overlapped
        PROVE  Lone' /\ (\A o \in Turns : Since(turn[o])') /\ Exact'
    BY <1>1, <1>2, <1>4 DEF QInv, Lone, Since, WeekSince, WindowSince, Exact
  <1>. QED
    BY <1>1, <1>3, <1>4 DEF QInv

LEMMA EndExact ==
    ASSUME IInv, QInv, NEW t \in Turns, Refuse(t) \/ Fail(t) \/ CommitReport(t)
    PROVE  QInv'
  <1>1. /\ turn[t].pc # "idle" /\ Close(t) /\ Remember(0) /\ live' = live
        /\ sub' = IF turn[t].row.id = sub.id THEN Flushed(turn[t].base, turn[t].row) ELSE sub
    BY DEF Refuse, Fail, CommitReport, Answered
  <1>2. /\ sub'.id = sub.id /\ (sub.id = 0 => sub' = sub)
        /\ ~history.overlapped => Moved(sub, sub', 0)
    BY <1>1, ResetsMoved
  <1>3. ~history.overlapped => Exact'
    BY <1>1, <1>2, Remembered DEF QInv
  <1>. QED
    BY <1>1, <1>2, <1>3, Overlapping, CloseExact

(* The charge after the answer: it works on the row the chat holds, and    *)
(* finds what was reset and not written yet.                               *)
LEMMA ChargeExact ==
    ASSUME IInv, QInv, NEW t \in Turns, NEW cost \in Costs, Meter(t, cost) \/ ChargeBalance(t, cost)
    PROVE  QInv'
  <1>1. PICK b, r : b = Held(t).base /\ r = Held(t).row
    OBVIOUS
  <1>2. /\ turn[t].pc # "idle" /\ Close(t) /\ live' = live
        /\ sub.id = 0 => ~live
    BY DEF Meter, ChargeBalance, Answered, QInv, Blank
  <1>3. sub \in Row /\ \A x, y : Flushed(x, y).id = sub.id
    BY Typed DEF Flushed, Row
  <1>4. CASE Meter(t, cost)
    <2>1. /\ sub' = Flushed(b, Metered(r, cost)) /\ Remember(cost) /\ sub.id # 0
      BY <1>1, <1>2, <1>4 DEF Meter, Covered
    <2>2. ASSUME ~history.overlapped
          PROVE  Moved(sub, sub', cost)
      <3>1. b = sub /\ r \in Row /\ r.id = sub.id /\ WeekSince(b, r) /\ WindowSince(b, r)
        BY <1>1, <1>2, <2>2, HeldSince
      <3>2. /\ Moved(sub, Metered(r, cost), cost)
            /\ Metered(r, cost) \in Row /\ Metered(r, cost).id = sub.id
        BY <1>3, <3>1, MeteredMoved
      <3>3. sub' = Metered(r, cost)
        BY <2>1, <3>1, <3>2, FlushedFresh
      <3>. QED
        BY <3>2, <3>3
    <2>3. ~history.overlapped => Exact'
      BY <2>1, <2>2, Remembered DEF QInv
    <2>. QED
      BY <1>2, <1>3, <2>1, <2>3, Overlapping, CloseExact
  <1>5. CASE ChargeBalance(t, cost)
    <2>1. /\ sub' = IF live THEN Flushed(b, WeekReset(r)) ELSE sub
          /\ Remember(0)
      BY <1>1, <1>5 DEF ChargeBalance
    <2>2. ASSUME ~history.overlapped
          PROVE  Moved(sub, sub', 0)
      <3>1. CASE live
        <4>1. b = sub /\ r \in Row /\ r.id = sub.id /\ WeekSince(b, r) /\ WindowSince(b, r)
          BY <1>1, <1>2, <2>2, HeldSince
        <4>2. WeekReset(r) \in Row /\ WeekReset(r).id = sub.id
          BY <4>1, ResetFacts
        <4>3. WeekSince(sub, WeekReset(r)) /\ WindowSince(sub, WeekReset(r))
          BY <1>3, <4>1, WeekResetSince, OtherColumns DEF WindowSince
        <4>4. sub' = WeekReset(r)
          BY <2>1, <3>1, <4>1, <4>2, FlushedFresh
        <4>. QED
          BY <1>3, <4>2, <4>3, <4>4, SinceMoved
      <3>2. CASE ~live
        BY <1>3, <2>1, <3>2, SinceSame, SinceMoved
      <3>. QED
        BY <3>1, <3>2
    <2>3. ~history.overlapped => Exact'
      BY <2>1, <2>2, Remembered DEF QInv
    <2>. QED
      BY <1>2, <1>3, <2>1, <2>3, Overlapping, CloseExact
  <1>. QED
    BY <1>4, <1>5

(* A purchase: the row of the subscription before is held, but not live.   *)
LEMMA BuyExact ==
    ASSUME IInv, QInv, Buy
    PROVE  QInv'
  <1>1. /\ sub' = FreshRow(sub.id + 1) /\ turn' = turn /\ sub.id \in Nat
        /\ history'.weekly = 0 /\ history'.window = 0
        /\ history'.overlapped = history.overlapped
    BY Typed DEF Buy, IInv, TypeOK
  <1>2. sub'.id = sub.id + 1 /\ sub'.weekly = 0 /\ sub'.spent = 0
    BY <1>1 DEF FreshRow
  <1>3. \A t \in Turns : turn[t].row.id \in Nat /\ turn[t].row.id < sub'.id
    BY <1>1, <1>2, Typed DEF QInv, Older
  <1>4. Blank' /\ Older'
    BY <1>1, <1>2, <1>3 DEF QInv, Blank, Older
  <1>5. Exact' /\ \A t \in Turns : Since(turn[t])'
    BY <1>1, <1>2, <1>3 DEF Exact, Since
  <1>. QED
    BY <1>1, <1>4, <1>5 DEF QInv, Lone

LEMMA TickExact ==
    ASSUME IInv, QInv, Tick \/ End \/ UNCHANGED vars
    PROVE  QInv'
  <1>1. UNCHANGED <<sub, turn, history>> /\ now' >= now /\ now' \in Int /\ (live' => live)
    BY Typed DEF Tick, End, vars
  <1>2. Blank' /\ Older'
    BY <1>1 DEF QInv, Blank, Older
  <1>3. \A t \in Turns : Since(turn[t]) => Since(turn[t])'
    BY <1>1, Typed DEF Since, WeekSince, WindowSince
  <1>. QED
    BY <1>1, <1>2, <1>3 DEF QInv, Lone, Exact

LEMMA AbortExact ==
    ASSUME IInv, QInv, NEW t \in Turns, Abort(t)
    PROVE  QInv'
  BY CloseExact DEF Abort, QInv, Exact

LEMMA QInvInit == Init => QInv
  BY IdleRow DEF Init, QInv, Blank, Older, Lone, Since, Exact, FreshRow

LEMMA QInvStep == IInv /\ QInv /\ [Next]_vars => QInv'
  BY BuyExact, TickExact, CheckExact, CheckBalanceExact, ReportExact, AuthorizeExact,
     AuthorizeLockedExact, EndExact, ChargeExact, AbortExact DEF Next

(* The counters hold what the running week and window have covered, for    *)
(* every timing of the deadlines against check, commit and charge, as long *)
(* as chats of the user do not overlap.                                    *)
THEOREM CountersExact == Spec => []QuotaExact
  <1>1. QInv => QuotaExact
    BY DEF QInv, Exact, QuotaExact
  <1>. QED
    BY <1>1, QInvInit, QInvStep, IInvHolds, PTL DEF Spec
=============================================================================
