------------------------ MODULE InvoicePaymentsProofs ------------------------
(***************************************************************************)
(* Proofs about InvoicePayments, for every set of invoices and clicks and  *)
(* every price, balance and bound.                                         *)
(***************************************************************************)
EXTENDS InvoicePayments, FiniteSetTheorems, TLAPS

-----------------------------------------------------------------------------
Sources == Invoices \cup Clicks

(* A handler of an invoice posts under the invoice's key, a click under a  *)
(* day's.                                                                  *)
KeyFits(x, o) == IF x \in Invoices THEN o.key = x ELSE o.key \in Days

(* What is being handled, or was posted, has been sent as an invoice.      *)
Sent(i) == invoice[i].kind # "none"
Known == \A i \in Invoices :
            i \in posted \/ op[i].pc \in {"checked", "loaded"} => Sent(i)

(* A handler that is about to commit is the first for its invoice.         *)
First == \A i \in Invoices : op[i].pc = "loaded" => i \notin posted

(* As long as no row was written in between, what a handler has loaded is  *)
(* what the tables hold.                                                   *)
Holds(x, o) == IF IsTopup(x) THEN o.balance = account.balance ELSE live = 0
Steady == ~raced => \A x \in Sources : op[x].pc = "loaded" => Holds(x, op[x])

TInv == TypeOK /\ \A x \in Sources : KeyFits(x, op[x])
Sums == Known /\ First /\ Steady /\ BalanceExact /\ OneSubscription
IInv == TInv /\ Sums

Fits(x, o) == o \in Op /\ KeyFits(x, o)

LEMMA Numbers ==
    /\ Credit \in Nat /\ FullDue \in Nat /\ ReducedDue \in Nat /\ PlanPrice \in Nat
    /\ Start \in Nat /\ MaxSpent \in Nat /\ MaxDay \in Nat /\ MaxCrashes \in Nat
    /\ 0 \in Days /\ Invoices \cap Days = {} /\ Invoices \cap Clicks = {}
  BY PriceAssumption, BoundsAssumption, InvoicesAssumption DEF Days

LEMMA BegunFits ==
    ASSUME NEW k \in Keys
    PROVE  Begun(k) \in Op /\ Begun(k).key = k /\ Begun(k).pc = "checked"
  BY DEF Begun, Op

LEMMA IdleFits ==
    ASSUME NEW x \in Sources
    PROVE  Fits(x, Idle(x)) /\ Idle(x).pc = "idle"
  BY Numbers DEF Fits, KeyFits, Idle, Begun, Op, Keys, Sources

LEMMA Replaced ==
    ASSUME TInv, NEW x \in Sources, NEW o, Fits(x, o), op' = [op EXCEPT ![x] = o]
    PROVE  /\ op' \in [Sources -> Op] /\ \A y \in Sources : KeyFits(y, op'[y])
           /\ \A y \in Sources : op'[y] = IF y = x THEN o ELSE op[y]
  BY DEF TInv, TypeOK, Fits, Sources

LEMMA GotoFits ==
    ASSUME TInv, NEW x \in Sources,
           NEW pc \in {"idle", "checked", "loaded", "answering"}
    PROVE  LET o == [op[x] EXCEPT !.pc = pc]
           IN  /\ Fits(x, o) /\ o.pc = pc /\ o.balance = op[x].balance
               /\ Goto(x, pc) => op' = [op EXCEPT ![x] = o]
  <1>1. op \in [Sources -> Op] /\ KeyFits(x, op[x])
    BY DEF TInv, TypeOK, Sources
  <1>. QED
    BY <1>1 DEF Fits, KeyFits, Op, Goto

LEMMA ToldType ==
    ASSUME TInv, NEW x, NEW answer \in {"nothing", "done", "refused", "lost"}, Tell(x, answer)
    PROVE  told' \in [Invoices -> {"nothing", "done", "refused", "lost"}]
  BY DEF Tell, TInv, TypeOK

(* A step of one handler that writes no row.                               *)
LEMMA QuietStep ==
    ASSUME IInv, NEW x \in Sources, NEW o, Fits(x, o), op' = [op EXCEPT ![x] = o],
           o.pc \in {"checked", "loaded"} /\ x \in Invoices => Sent(x),
           o.pc = "loaded" /\ x \in Invoices => x \notin posted,
           o.pc = "loaded" /\ ~raced => Holds(x, o),
           UNCHANGED <<account, live, posted, invoice, raced>>
    PROVE  /\ op' \in [Sources -> Op] /\ \A y \in Sources : KeyFits(y, op'[y])
           /\ Sums'
  <1>1. /\ op' \in [Sources -> Op] /\ \A y \in Sources : KeyFits(y, op'[y])
        /\ \A y \in Sources : op'[y] = IF y = x THEN o ELSE op[y]
    BY Replaced DEF IInv
  <1>2. Known' /\ First'
    BY <1>1 DEF IInv, Sums, Known, First, Sent, Sources
  <1>3. Steady'
    BY <1>1 DEF IInv, Sums, Steady, Holds, IsTopup
  <1>4. BalanceExact' /\ OneSubscription'
    BY DEF IInv, Sums, BalanceExact, OneSubscription, IsTopup
  <1>. QED
    BY <1>1, <1>2, <1>3, <1>4 DEF Sums

LEMMA CloseStep ==
    ASSUME IInv, NEW x \in Sources, Close(x), UNCHANGED <<account, live, posted, invoice, raced>>
    PROVE  /\ op' \in [Sources -> Op] /\ \A y \in Sources : KeyFits(y, op'[y])
           /\ Sums'
  BY IdleFits, QuietStep DEF Close

LEMMA InitIInv == Init => IInv
  <1>. SUFFICES ASSUME Init
                PROVE  IInv
    OBVIOUS
  <1>1. account \in Account
    BY Numbers DEF Init, Account
  <1>2. invoice \in [Invoices -> Invoice]
    BY DEF Init, NoInvoice, Invoice
  <1>3. \A x \in Sources : op[x] = Idle(x)
    BY DEF Init, Sources
  <1>4. op \in [Sources -> Op] /\ \A x \in Sources : KeyFits(x, op[x]) /\ op[x].pc = "idle"
    <2>1. op = [x \in Sources |-> Idle(x)]
      BY DEF Init, Sources
    <2>2. \A x \in Sources : Idle(x) \in Op
      BY IdleFits DEF Fits
    <2>. QED
      BY <1>3, <2>1, <2>2, IdleFits DEF Fits
  <1>5. TInv
    <2>1. /\ plan \in BOOLEAN /\ live \in Nat /\ posted \subseteq Keys /\ raced \in BOOLEAN
          /\ queue \subseteq paid /\ taken \subseteq paid /\ paid \subseteq Invoices
          /\ crashes \in 0 .. MaxCrashes
      <3>1. /\ plan = TRUE /\ live = 0 /\ posted = {} /\ raced = FALSE /\ queue = {} /\ taken = {}
            /\ paid = {} /\ crashes = 0
        BY DEF Init
      <3>2. 0 \in 0 .. MaxCrashes
        BY Numbers
      <3>. QED
        BY <3>1, <3>2
    <2>2. told \in [Invoices -> {"nothing", "done", "refused", "lost"}]
      BY DEF Init
    <2>. QED
      BY <1>1, <1>2, <1>4, <2>1, <2>2 DEF TInv, TypeOK, Sources
  <1>6. Known /\ First /\ Steady
    <2>1. \A i \in Invoices : op[i].pc = "idle"
      BY <1>4 DEF Sources
    <2>. QED
      BY <1>4, <2>1 DEF Init, Known, First, Steady
  <1>7. BalanceExact /\ OneSubscription
    <2>1. {i \in posted : IsTopup(i)} = {}
      BY DEF Init
    <2>2. Cardinality({}) = 0
      BY FS_EmptySet
    <2>3. account.balance = Start /\ account.spent = 0 /\ live = 0
      BY DEF Init
    <2>4. Credit * 0 = 0
      BY Numbers
    <2>5. account.balance + account.spent = Start + Credit * Cardinality({i \in posted : IsTopup(i)})
      BY <2>1, <2>2, <2>3, <2>4, Numbers
    <2>. QED
      BY <2>3, <2>5 DEF BalanceExact, OneSubscription
  <1>. QED
    BY <1>5, <1>6, <1>7 DEF IInv, Sums

-----------------------------------------------------------------------------
(* An invoice is sent: nothing was posted or is being handled for it yet.  *)
LEMMA SendStep ==
    ASSUME IInv, NEW i \in Invoices, NEW v \in Invoice, v.kind # "none",
           invoice[i] = NoInvoice, invoice' = [invoice EXCEPT ![i] = v],
           UNCHANGED <<account, plan, live, posted, paid, queue, taken, op, told, crashes, raced>>
    PROVE  IInv'
  <1>1. ~Sent(i) /\ i \notin posted /\ op[i].pc \notin {"checked", "loaded"}
    BY DEF Sent, NoInvoice, IInv, Sums, Known
  <1>2. /\ invoice' \in [Invoices -> Invoice]
        /\ \A j \in Invoices : invoice'[j] = IF j = i THEN v ELSE invoice[j]
    BY DEF IInv, TInv, TypeOK
  <1>3. TInv'
    BY <1>2 DEF IInv, TInv, TypeOK, KeyFits
  <1>4. Known' /\ First'
    BY <1>1, <1>2 DEF IInv, Sums, Known, First, Sent
  <1>5. \A x : x # i => (IsTopup(x)' <=> IsTopup(x))
    BY <1>2 DEF IsTopup
  <1>6. Steady'
    BY <1>1, <1>5 DEF IInv, Sums, Steady, Holds
  <1>7. BalanceExact' /\ OneSubscription'
    <2>1. {j \in posted : IsTopup(j)}' = {j \in posted : IsTopup(j)}
      BY <1>1, <1>5
    <2>. QED
      BY <2>1 DEF IInv, Sums, BalanceExact, OneSubscription
  <1>. QED
    BY <1>3, <1>4, <1>6, <1>7 DEF IInv, Sums

LEMMA RequestStep ==
    ASSUME IInv, NEW i \in Invoices, RequestTopup(i) \/ RequestPlan(i)
    PROVE  IInv'
  <1>1. CASE RequestTopup(i)
    <2>. DEFINE v == [kind |-> "topup", due |-> Due, share |-> 0]
    <2>1. v \in Invoice /\ v.kind # "none"
      BY Numbers DEF Invoice, Due
    <2>2. invoice' = [invoice EXCEPT ![i] = v]
      BY <1>1 DEF RequestTopup
    <2>. HIDE DEF v
    <2>. QED
      BY <1>1, <2>1, <2>2, SendStep DEF RequestTopup
  <1>2. CASE RequestPlan(i)
    <2>1. PICK share \in {0, account.balance} :
              /\ share < PlanPrice
              /\ invoice' = [invoice EXCEPT ![i] =
                    [kind |-> "plan", due |-> PlanPrice - share, share |-> share]]
      BY <1>2 DEF RequestPlan
    <2>. DEFINE v == [kind |-> "plan", due |-> PlanPrice - share, share |-> share]
    <2>2. share \in Nat
      BY DEF IInv, TInv, TypeOK, Account
    <2>3. v \in Invoice /\ v.kind # "none"
      BY <2>1, <2>2, Numbers DEF Invoice
    <2>4. invoice' = [invoice EXCEPT ![i] = v]
      BY <2>1
    <2>. HIDE DEF v
    <2>. QED
      BY <1>2, <2>3, <2>4, SendStep DEF RequestPlan
  <1>. QED
    BY <1>1, <1>2

(* A debit of the wallet takes nothing.                                    *)
LEMMA DebitedSame ==
    ASSUME IInv, NEW share
    PROVE  Debited(share) = account
  <1>1. account \in Account /\ account.balance \in Nat /\ account.spent \in Nat
    BY DEF IInv, TInv, TypeOK, Account
  <1>2. account.balance - 0 = account.balance /\ account.spent + 0 = account.spent
    BY <1>1
  <1>. QED
    BY <1>1, <1>2 DEF Debited, ChargedFor, Account

-----------------------------------------------------------------------------
(* The platform's steps.                                                   *)
LEMMA PlatformStep ==
    ASSUME IInv, paid' \subseteq Invoices, queue' \subseteq paid', taken' \subseteq paid',
           UNCHANGED <<account, plan, live, posted, invoice, op, told, crashes, raced>>
    PROVE  IInv'
  <1>1. TInv'
    BY DEF IInv, TInv, TypeOK, KeyFits
  <1>2. Known' /\ First' /\ Steady'
    BY DEF IInv, Sums, Known, First, Steady, Sent, Holds, IsTopup
  <1>3. BalanceExact' /\ OneSubscription'
    BY DEF IInv, Sums, BalanceExact, OneSubscription, IsTopup
  <1>. QED
    BY <1>1, <1>2, <1>3 DEF IInv, Sums

(* The handler of a delivered payment begins.                              *)
LEMMA BeginStep ==
    ASSUME IInv, NEW i \in Invoices, Begin(i)
    PROVE  IInv'
  <1>1. /\ taken' = taken \cup {i} /\ i \in queue
        /\ UNCHANGED <<invoice, paid, queue, plan, live, posted, crashes, raced>>
    BY DEF Begin, CompareQuote, CheckActive, Deliver
  <1>2. account' = account
    BY DebitedSame DEF Begin, CompareQuote, CheckActive
  <1>3. Sent(i)
    BY DEF Begin, CompareQuote, CheckActive, IsTopup, Sent
  <1>4. i \in Sources
    BY DEF Sources
  <1>5. \/ Goto(i, "checked") /\ UNCHANGED told
        \/ Refuse(i)
    BY DEF Begin, CompareQuote, CheckActive
  <1>6. told' \in [Invoices -> {"nothing", "done", "refused", "lost"}]
    BY <1>5, ToldType DEF Refuse, IInv, TInv, TypeOK
  <1>7. /\ op' \in [Sources -> Op] /\ \A y \in Sources : KeyFits(y, op'[y])
        /\ Sums'
    <2>1. CASE Goto(i, "checked")
      <3>. DEFINE o == [op[i] EXCEPT !.pc = "checked"]
      <3>1. Fits(i, o) /\ o.pc = "checked" /\ op' = [op EXCEPT ![i] = o]
        BY <1>4, <2>1, GotoFits DEF IInv
      <3>. HIDE DEF o
      <3>. QED
        BY <1>1, <1>2, <1>3, <1>4, <3>1, QuietStep
    <2>2. CASE Refuse(i)
      BY <1>1, <1>2, <1>4, <2>2, CloseStep DEF Refuse
    <2>. QED
      BY <1>5, <2>1, <2>2
  <1>8. taken' \subseteq paid'
    BY <1>1 DEF IInv, TInv, TypeOK
  <1>. QED
    BY <1>1, <1>2, <1>6, <1>7, <1>8 DEF IInv, TInv, TypeOK, Sources

(* A handler's step that writes no row.                                    *)
LEMMA SettleTypes ==
    ASSUME IInv, UNCHANGED <<account, plan, live, posted, platform, crashes, raced>>,
           op' \in [Sources -> Op], \A y \in Sources : KeyFits(y, op'[y]), Sums',
           told' \in [Invoices -> {"nothing", "done", "refused", "lost"}]
    PROVE  IInv'
  BY DEF IInv, TInv, TypeOK, Sources, platform

LEMMA ReadTopupStep ==
    ASSUME IInv, NEW i \in Invoices, ReadTopup(i)
    PROVE  IInv'
  <1>1. /\ i \in Sources /\ IsTopup(i) /\ Sent(i)
        /\ UNCHANGED <<account, plan, live, posted, platform, told, crashes, raced>>
        /\ UNCHANGED <<account, live, posted, invoice, raced>>
    BY DEF ReadTopup, Sources, IsTopup, Sent, platform
  <1>2. account.balance \in Nat /\ Discounted \in BOOLEAN
    BY DEF IInv, TInv, TypeOK, Account, Discounted
  <1>3. /\ op' \in [Sources -> Op] /\ \A y \in Sources : KeyFits(y, op'[y])
        /\ Sums'
    <2>1. CASE Goto(i, "answering")
      <3>. DEFINE o == [op[i] EXCEPT !.pc = "answering"]
      <3>1. Fits(i, o) /\ o.pc = "answering" /\ op' = [op EXCEPT ![i] = o]
        BY <1>1, <2>1, GotoFits DEF IInv
      <3>. HIDE DEF o
      <3>. QED
        BY <1>1, <3>1, QuietStep
    <2>2. CASE ~Posted(i) /\ op' = [op EXCEPT ![i] = [pc |-> "loaded", key |-> i,
                                balance |-> account.balance, reduced |-> Discounted]]
      <3>. DEFINE o == [pc |-> "loaded", key |-> i, balance |-> account.balance,
                        reduced |-> Discounted]
      <3>1. Fits(i, o) /\ o.balance = account.balance
        BY <1>2 DEF Fits, KeyFits, Op, Keys
      <3>2. op' = [op EXCEPT ![i] = o] /\ i \notin posted
        BY <2>2 DEF Posted
      <3>. HIDE DEF o
      <3>3. Holds(i, o)
        BY <1>1, <3>1 DEF Holds
      <3>. QED
        BY <1>1, <3>1, <3>2, <3>3, QuietStep
    <2>. QED
      BY <2>1, <2>2 DEF ReadTopup
  <1>. QED
    BY <1>1, <1>3, SettleTypes DEF IInv, TInv, TypeOK

LEMMA ReadPurchaseStep ==
    ASSUME IInv, NEW x \in Sources, ReadPurchase(x)
    PROVE  IInv'
  <1>1. /\ ~IsTopup(x) /\ op[x].pc = "checked"
        /\ UNCHANGED <<account, plan, live, posted, platform, crashes, raced>>
        /\ UNCHANGED <<account, live, posted, invoice, raced>>
    BY DEF ReadPurchase, platform
  <1>2. x \in Invoices => Sent(x) /\ op[x].key = x
    BY <1>1 DEF IInv, TInv, Sums, Known, KeyFits
  <1>3. told' \in [Invoices -> {"nothing", "done", "refused", "lost"}]
    BY ToldType DEF ReadPurchase, Refuse, IInv, TInv, TypeOK
  <1>4. /\ op' \in [Sources -> Op] /\ \A y \in Sources : KeyFits(y, op'[y])
        /\ Sums'
    <2>1. CASE Goto(x, "answering")
      <3>. DEFINE o == [op[x] EXCEPT !.pc = "answering"]
      <3>1. Fits(x, o) /\ o.pc = "answering" /\ op' = [op EXCEPT ![x] = o]
        BY <2>1, GotoFits DEF IInv
      <3>. HIDE DEF o
      <3>. QED
        BY <1>1, <3>1, QuietStep
    <2>2. CASE Refuse(x)
      BY <1>1, <2>2, CloseStep DEF Refuse
    <2>3. CASE ~Posted(op[x].key) /\ ~HasLive /\ Goto(x, "loaded")
      <3>. DEFINE o == [op[x] EXCEPT !.pc = "loaded"]
      <3>1. Fits(x, o) /\ o.pc = "loaded" /\ op' = [op EXCEPT ![x] = o]
        BY <2>3, GotoFits DEF IInv
      <3>2. live = 0
        BY <2>3 DEF HasLive, IInv, TInv, TypeOK
      <3>. HIDE DEF o
      <3>3. Holds(x, o)
        BY <1>1, <3>2 DEF Holds
      <3>4. x \in Invoices => x \notin posted
        BY <1>2, <2>3 DEF Posted
      <3>. QED
        BY <1>1, <1>2, <3>1, <3>3, <3>4, QuietStep
    <2>. QED
      BY <2>1, <2>2, <2>3 DEF ReadPurchase
  <1>. QED
    BY <1>1, <1>3, <1>4, SettleTypes

(* A refusal, a failure or the answer closes the handler.                  *)
LEMMA EndStep ==
    ASSUME IInv, NEW x \in Sources, PoolsFull(x) \/ Answer(x) \/ CommitFails(x)
    PROVE  IInv'
  <1>1. /\ Close(x)
        /\ UNCHANGED <<account, plan, live, posted, platform, crashes, raced>>
        /\ UNCHANGED <<account, live, posted, invoice, raced>>
    BY DEF PoolsFull, Answer, CommitFails, Refuse, Answered, platform
  <1>2. told' \in [Invoices -> {"nothing", "done", "refused", "lost"}]
    BY ToldType DEF PoolsFull, Answer, CommitFails, Refuse, Answered, IInv
  <1>. QED
    BY <1>1, <1>2, CloseStep, SettleTypes

LEMMA WalletStep ==
    ASSUME IInv, NEW c \in Clicks, BuyFromWallet(c)
    PROVE  IInv'
  <1>1. PICK day \in Days : op' = [op EXCEPT ![c] = Begun(day)]
    BY DEF BuyFromWallet
  <1>2. account' = account
    BY DebitedSame DEF BuyFromWallet
  <1>3. /\ UNCHANGED <<account, plan, live, posted, platform, crashes, raced>>
        /\ UNCHANGED <<account, live, posted, invoice, raced>> /\ told' = told
    BY <1>2 DEF BuyFromWallet, platform
  <1>4. c \in Sources /\ c \notin Invoices
    BY Numbers DEF Sources
  <1>. DEFINE o == Begun(day)
  <1>5. Fits(c, o) /\ o.pc = "checked"
    <2>1. day \in Keys
      BY DEF Keys
    <2>. QED
      BY <1>4, <2>1, BegunFits DEF Fits, KeyFits
  <1>. HIDE DEF o
  <1>6. /\ op' \in [Sources -> Op] /\ \A y \in Sources : KeyFits(y, op'[y])
        /\ Sums'
    BY <1>1, <1>3, <1>4, <1>5, QuietStep DEF o
  <1>. QED
    BY <1>3, <1>6, SettleTypes DEF IInv, TInv, TypeOK

-----------------------------------------------------------------------------
(* The commits.  One that finds no other handler midway leaves none that   *)
(* has loaded anything.                                                    *)
LEMMA Alone ==
    ASSUME IInv, NEW x \in Sources, Writing(x), ~raced', Goto(x, "answering")
    PROVE  ~raced /\ \A y \in Sources : op'[y].pc \notin {"checked", "loaded"}
  <1>1. Midway(x) = {} /\ ~raced
    BY DEF Writing, IInv, TInv, TypeOK
  <1>2. op \in [Sources -> Op]
    BY DEF IInv, TInv, TypeOK, Sources
  <1>3. \A y \in Sources \ {x} : op[y].pc \notin {"checked", "loaded"}
    BY <1>1, <1>2 DEF Midway
  <1>4. /\ op'[x].pc = "answering"
        /\ \A y \in Sources \ {x} : op'[y] = op[y]
    BY <1>2 DEF Goto, Op
  <1>. QED
    BY <1>1, <1>3, <1>4

(* After a commit: the types, and what the invoices' handlers may post.    *)
LEMMA CommitKeeps ==
    ASSUME IInv, NEW x \in Sources, op[x].pc = "loaded", Writing(x), Goto(x, "answering"),
           NEW k \in Keys, k = op[x].key, posted' = posted \cup {k},
           account' \in Account, live' \in Nat,
           UNCHANGED <<plan, platform, told, crashes>>
    PROVE  TInv' /\ Known' /\ First' /\ Steady'
  <1>. DEFINE o == [op[x] EXCEPT !.pc = "answering"]
  <1>1. Fits(x, o) /\ o.pc = "answering" /\ op' = [op EXCEPT ![x] = o]
    BY GotoFits DEF IInv
  <1>. HIDE DEF o
  <1>2. /\ op' \in [Sources -> Op] /\ \A y \in Sources : KeyFits(y, op'[y])
        /\ \A y \in Sources : op'[y] = IF y = x THEN o ELSE op[y]
    BY <1>1, Replaced DEF IInv
  <1>3. raced' \in BOOLEAN
    BY DEF Writing, IInv, TInv, TypeOK
  <1>4. TInv'
    BY <1>2, <1>3 DEF IInv, TInv, TypeOK, Sources, platform
  <1>5. KeyFits(x, op[x]) /\ Invoices \cap Days = {} /\ Invoices \subseteq Sources
    BY Numbers DEF IInv, TInv, Sources
  <1>6. \A i \in Invoices : i = k => i = x
    BY <1>5 DEF KeyFits
  <1>7. x \in Invoices => Sent(x)
    BY DEF IInv, Sums, Known
  <1>8. Known'
    BY <1>1, <1>2, <1>5, <1>6, <1>7 DEF IInv, Sums, Known, Sent, platform
  <1>9. First'
    BY <1>1, <1>2, <1>5, <1>6 DEF IInv, Sums, First
  <1>10. Steady'
    BY Alone DEF Steady
  <1>. QED
    BY <1>4, <1>8, <1>9, <1>10

LEMMA CommitTopupStep ==
    ASSUME IInv, NEW i \in Invoices, CommitTopup(i)
    PROVE  IInv'
  <1>. DEFINE balance == op[i].balance + Credit
              before == {j \in posted : IsTopup(j)}
              after == {j \in posted' : IsTopup(j)'}
  <1>1. /\ i \in Sources /\ op[i].pc = "loaded" /\ IsTopup(i) /\ i \notin posted
        /\ posted' = posted \cup {i} /\ Writing(i) /\ Goto(i, "answering")
        /\ UNCHANGED <<plan, platform, told, crashes>> /\ invoice' = invoice /\ live' = live
    BY DEF CommitTopup, Sources, Posted, platform
  <1>2. i \in Keys /\ i = op[i].key
    BY <1>1 DEF Keys, IInv, TInv, KeyFits
  <1>3. /\ account.balance \in Nat /\ account.spent \in Nat /\ op[i].balance \in Nat
        /\ op[i].reduced \in BOOLEAN /\ account \in Account /\ live \in Nat
    BY <1>1 DEF IInv, TInv, TypeOK, Account, Op
  <1>4. /\ account' = [account EXCEPT !.balance = balance,
                            !.discountUsed = account.discountUsed \/ op[i].reduced]
        /\ balance \in Nat
    BY <1>3, Numbers DEF CommitTopup
  <1>5. /\ account' \in Account /\ account'.balance = balance
        /\ account'.spent = account.spent
    <2>. HIDE DEF balance
    <2>. QED
      BY <1>3, <1>4 DEF Account
  <1>6. TInv' /\ Known' /\ First' /\ Steady'
    BY <1>1, <1>2, <1>3, <1>5, CommitKeeps
  <1>7. Cardinality(after) = Cardinality(before) + 1 /\ Cardinality(before) \in Nat
    <2>1. before \subseteq Invoices /\ i \notin before /\ after = before \cup {i}
      BY <1>1 DEF IsTopup
    <2>2. IsFiniteSet(before)
      BY <2>1, InvoicesAssumption, FS_Subset
    <2>. HIDE DEF before, after
    <2>. QED
      BY <2>1, <2>2, FS_AddElement, FS_CardinalityType
  <1>8. BalanceExact'
    <2>1. SUFFICES ASSUME ~raced'
                   PROVE  account'.balance + account'.spent
                             = Start + Credit * Cardinality(after)
      BY DEF BalanceExact
    <2>2. ~raced
      BY <1>1, <2>1, Alone
    <2>3. op[i].balance = account.balance
      BY <1>1, <2>2 DEF IInv, Sums, Steady, Holds
    <2>4. account.balance + account.spent = Start + Credit * Cardinality(before)
      BY <2>2 DEF IInv, Sums, BalanceExact
    <2>. HIDE DEF before, after
    <2>5. Credit * Cardinality(after) = Credit * Cardinality(before) + Credit
      BY <1>7, Numbers
    <2>6. Credit * Cardinality(before) \in Nat
      BY <1>7, Numbers
    <2>. QED
      BY <1>3, <1>5, <2>3, <2>4, <2>5, <2>6, Numbers
  <1>9. OneSubscription'
    BY <1>1, Alone DEF IInv, Sums, OneSubscription
  <1>. QED
    BY <1>6, <1>8, <1>9 DEF IInv, Sums

LEMMA CommitPurchaseStep ==
    ASSUME IInv, NEW x \in Sources, CommitPurchase(x)
    PROVE  IInv'
  <1>1. /\ op[x].pc = "loaded" /\ ~IsTopup(x)
        /\ posted' = posted \cup {op[x].key} /\ Writing(x) /\ Goto(x, "answering")
        /\ account' = [account EXCEPT !.subPaid = TRUE] /\ live' = live + 1
        /\ UNCHANGED <<plan, platform, told, crashes>> /\ invoice' = invoice
    BY DEF CommitPurchase, platform
  <1>2. op[x].key \in Keys /\ KeyFits(x, op[x]) /\ account \in Account /\ live \in Nat
    BY DEF IInv, TInv, TypeOK, Op, Sources
  <1>3. /\ account' \in Account /\ account'.balance = account.balance
        /\ account'.spent = account.spent
    BY <1>1, <1>2 DEF Account
  <1>4. TInv' /\ Known' /\ First' /\ Steady'
    <2>1. live' \in Nat
      BY <1>1, <1>2
    <2>. QED
      BY <1>1, <1>2, <1>3, <2>1, CommitKeeps
  <1>5. BalanceExact'
    <2>1. op[x].key \in Invoices => op[x].key = x
      BY <1>2, Numbers DEF KeyFits
    <2>2. {j \in posted : IsTopup(j)}' = {j \in posted : IsTopup(j)}
      BY <1>1, <2>1 DEF IsTopup
    <2>. QED
      BY <1>1, <1>3, <2>2, Alone DEF IInv, Sums, BalanceExact
  <1>6. OneSubscription'
    <2>1. ~raced' => ~raced
      BY <1>1, Alone
    <2>2. ~raced => live = 0
      BY <1>1 DEF IInv, Sums, Steady, Holds
    <2>. QED
      BY <1>1, <1>2, <2>1, <2>2 DEF OneSubscription
  <1>. QED
    BY <1>4, <1>5, <1>6 DEF IInv, Sums

LEMMA UsageStep ==
    ASSUME IInv, Usage
    PROVE  IInv'
  <1>1. /\ account' = [account EXCEPT !.balance = account.balance - 1,
                                     !.spent = account.spent + 1]
        /\ account.balance > 0 /\ UNCHANGED <<plan, live, posted, platform, op, told, crashes>>
        /\ UNCHANGED <<live, posted, invoice, op>>
    BY DEF Usage, platform
  <1>2. account \in Account /\ account.balance \in Nat /\ account.spent \in Nat
    BY DEF IInv, TInv, TypeOK, Account
  <1>3. /\ account' \in Account /\ account'.balance = account.balance - 1
        /\ account'.spent = account.spent + 1
    <2>. DEFINE balance == account.balance - 1
                spent == account.spent + 1
    <2>1. balance \in Nat /\ spent \in Nat
      BY <1>1, <1>2
    <2>2. account' = [account EXCEPT !.balance = balance, !.spent = spent]
      BY <1>1
    <2>. HIDE DEF balance, spent
    <2>3. account' \in Account /\ account'.balance = balance /\ account'.spent = spent
      BY <1>2, <2>1, <2>2 DEF Account
    <2>. QED
      BY <2>3 DEF balance, spent
  <1>4. raced' \in BOOLEAN
    BY DEF Usage, IInv, TInv, TypeOK
  <1>5. ~raced' => ~raced /\ \A y \in Sources : op[y].pc \notin {"checked", "loaded"}
    <2>1. DOMAIN op = Sources
      BY DEF IInv, TInv, TypeOK, Sources
    <2>2. raced' = (raced \/ \E y \in Sources : op[y].pc \in {"checked", "loaded"})
      BY <2>1 DEF Usage
    <2>. QED
      BY <2>2
  <1>6. TInv'
    BY <1>1, <1>3, <1>4 DEF IInv, TInv, TypeOK, KeyFits, platform
  <1>7. Known' /\ First' /\ Steady'
    BY <1>1, <1>5 DEF IInv, Sums, Known, First, Steady, Sent
  <1>8. BalanceExact'
    <2>1. {j \in posted : IsTopup(j)}' = {j \in posted : IsTopup(j)}
      BY <1>1 DEF IsTopup
    <2>2. account'.balance + account'.spent = account.balance + account.spent
      BY <1>2, <1>3
    <2>. QED
      BY <1>5, <2>1, <2>2 DEF IInv, Sums, BalanceExact
  <1>9. OneSubscription'
    BY <1>1, <1>5 DEF IInv, Sums, OneSubscription
  <1>. QED
    BY <1>6, <1>7, <1>8, <1>9 DEF IInv, Sums

(* The subscription or the plan ends: there are no more live rows.         *)
LEMMA ExpiryStep ==
    ASSUME IInv, EndSubscription \/ DeletePlan
    PROVE  IInv'
  <1>1. /\ plan' \in BOOLEAN
        /\ UNCHANGED <<account, posted, platform, op, told, crashes, raced>>
        /\ UNCHANGED <<account, posted, invoice, op, raced>>
    BY DEF EndSubscription, DeletePlan, platform, IInv, TInv, TypeOK
  <1>2. live \in Nat /\ live' \in Nat /\ live' <= live
    BY DEF EndSubscription, DeletePlan, HasLive, IInv, TInv, TypeOK
  <1>3. TInv'
    BY <1>1, <1>2 DEF IInv, TInv, TypeOK, KeyFits, platform
  <1>4. Known' /\ First'
    BY <1>1 DEF IInv, Sums, Known, First, Sent
  <1>5. Steady'
    BY <1>1, <1>2 DEF IInv, Sums, Steady, Holds, IsTopup
  <1>6. BalanceExact'
    BY <1>1 DEF IInv, Sums, BalanceExact, IsTopup
  <1>7. OneSubscription'
    BY <1>1, <1>2 DEF IInv, Sums, OneSubscription
  <1>. QED
    BY <1>3, <1>4, <1>5, <1>6, <1>7 DEF IInv, Sums

LEMMA CrashStep ==
    ASSUME IInv, Crash
    PROVE  IInv'
  <1>1. /\ op' = [x \in Sources |-> Idle(x)] /\ taken' = {} /\ crashes' = crashes + 1
        /\ UNCHANGED <<account, plan, live, posted, invoice, paid, queue, raced>>
    BY DEF Crash, IInv, TInv, TypeOK, Sources
  <1>2. \A x \in Sources : Fits(x, Idle(x)) /\ Idle(x).pc = "idle"
    BY IdleFits
  <1>3. /\ op' \in [Sources -> Op] /\ \A x \in Sources : KeyFits(x, op'[x])
        /\ \A x \in Sources : op'[x].pc = "idle"
    BY <1>1, <1>2 DEF Fits
  <1>4. crashes' \in 0 .. MaxCrashes
    BY Numbers DEF Crash, IInv, TInv, TypeOK
  <1>5. told' \in [Invoices -> {"nothing", "done", "refused", "lost"}]
    BY DEF Crash, IInv, TInv, TypeOK
  <1>6. TInv'
    BY <1>1, <1>3, <1>4, <1>5 DEF IInv, TInv, TypeOK, Sources
  <1>7. Known' /\ First' /\ Steady'
    BY <1>1, <1>3 DEF IInv, Sums, Known, First, Steady, Sent, Sources
  <1>8. BalanceExact' /\ OneSubscription'
    BY <1>1 DEF IInv, Sums, BalanceExact, OneSubscription, IsTopup
  <1>. QED
    BY <1>6, <1>7, <1>8 DEF IInv, Sums

LEMMA IInvStep == IInv /\ [Next]_vars => IInv'
  <1>. SUFFICES ASSUME IInv, [Next]_vars
                PROVE  IInv'
    OBVIOUS
  <1>1. ASSUME NEW i \in Invoices, Pay(i)
        PROVE  IInv'
    <2>1. paid' \subseteq Invoices /\ queue' \subseteq paid' /\ taken' \subseteq paid'
      BY <1>1 DEF Pay, IInv, TInv, TypeOK
    <2>. QED
      BY <1>1, <2>1, PlatformStep DEF Pay
  <1>2. CASE Confirm
    <2>1. paid' \subseteq Invoices /\ queue' \subseteq paid' /\ taken' \subseteq paid'
      BY <1>2 DEF Confirm, IInv, TInv, TypeOK
    <2>. QED
      BY <1>2, <2>1, PlatformStep DEF Confirm
  <1>3. ASSUME NEW x \in Sources, Handle(x)
        PROVE  IInv'
    BY <1>3, ReadTopupStep, CommitTopupStep, ReadPurchaseStep, CommitPurchaseStep, EndStep
       DEF Handle
  <1>4. CASE UNCHANGED vars
    <2>1. paid' \subseteq Invoices /\ queue' \subseteq paid' /\ taken' \subseteq paid'
      BY <1>4 DEF vars, IInv, TInv, TypeOK
    <2>. QED
      BY <1>4, <2>1, PlatformStep DEF vars
  <1>. QED
    BY <1>1, <1>2, <1>3, <1>4, RequestStep, BeginStep, WalletStep, UsageStep, ExpiryStep,
       CrashStep DEF Next, Sources

LEMMA IInvHolds == Spec => []IInv
  <1>. QED
    BY InitIInv, IInvStep, PTL DEF Spec

-----------------------------------------------------------------------------
(* Every state of payments, handlers and the account is well typed.        *)
THEOREM TypeCorrect == Spec => []TypeOK
  <1>1. IInv => TypeOK
    BY DEF IInv, TInv
  <1>. QED
    BY <1>1, IInvHolds, PTL

(* Redelivery, restarts and refused locks credit a payment once, and what  *)
(* was credited and not spent is there, unless a row was written while a   *)
(* handler stood between its read and its commit.                          *)
THEOREM CreditedOnce == Spec => []BalanceExact
  <1>1. IInv => BalanceExact
    BY DEF IInv, Sums
  <1>. QED
    BY <1>1, IInvHolds, PTL

(* Without such an overlap, no order of invoices and clicks starts two     *)
(* subscriptions.                                                          *)
THEOREM NeverTwoPlans == Spec => []OneSubscription
  <1>1. IInv => OneSubscription
    BY DEF IInv, Sums
  <1>. QED
    BY <1>1, IInvHolds, PTL

(* Only the handler of an invoice refuses it.                              *)
NoneRefused == \A i \in posted \cap Invoices :
                  (invoice[i].kind = "plan" /\ told'[i] = "refused")
                     => told[i] = "refused" \/ ~plan

LEMMA StepRefusesNone == IInv /\ [Next]_vars => NoneRefused
  <1>. SUFFICES ASSUME IInv, [Next]_vars, NEW i \in posted \cap Invoices,
                       invoice[i].kind = "plan", told'[i] = "refused", told[i] # "refused",
                       plan
                PROVE  FALSE
    BY DEF NoneRefused
  <1>1. told' # told /\ told \in [Invoices -> {"nothing", "done", "refused", "lost"}]
    BY DEF IInv, TInv, TypeOK
  <1>2. \A x, answer : Tell(x, answer) => x = i /\ answer = "refused"
    BY <1>1 DEF Tell
  <1>3. i \in Sources /\ ~IsTopup(i) /\ i \in posted /\ op[i].key = i
    BY DEF Sources, IsTopup, IInv, TInv, KeyFits
  <1>4. ASSUME NEW j \in Invoices, Begin(j)
        PROVE  FALSE
    <2>1. Refuse(j)
      BY <1>1, <1>4 DEF Begin, CompareQuote, CheckActive
    <2>2. j = i
      BY <1>2, <2>1 DEF Refuse
    <2>. QED
      BY <1>1, <1>3, <1>4, <2>2 DEF Begin, CompareQuote, CheckActive, InTheWay, Posted
  <1>5. ASSUME NEW x \in Sources, Handle(x)
        PROVE  FALSE
    <2>1. CASE ReadPurchase(x)
      <3>1. Refuse(x) /\ ~Posted(op[x].key)
        BY <1>1, <2>1 DEF ReadPurchase
      <3>. QED
        BY <1>2, <1>3, <3>1 DEF Refuse, Posted
    <2>2. CASE PoolsFull(x)
      <3>1. x = i /\ op[x].pc = "loaded"
        BY <1>2, <2>2 DEF PoolsFull, Refuse
      <3>. QED
        BY <1>3, <3>1 DEF IInv, Sums, First
    <2>3. CASE Answer(x) \/ CommitFails(x)
      <3>1. Tell(x, "done") \/ Tell(x, "lost")
        BY <2>3 DEF Answer, Answered, CommitFails
      <3>. QED
        BY <1>2, <3>1
    <2>4. told' = told \/ ReadPurchase(x) \/ PoolsFull(x) \/ Answer(x) \/ CommitFails(x)
      BY <1>5 DEF Handle, ReadTopup, CommitTopup, CommitPurchase
    <2>. QED
      BY <1>1, <2>1, <2>2, <2>3, <2>4
  <1>6. ~Crash
    BY <1>1 DEF Crash
  <1>7. told' = told \/ Crash \/ (\E j \in Invoices : Begin(j)) \/ (\E x \in Sources : Handle(x))
    BY DEF Next, vars, RequestTopup, RequestPlan, Pay, BuyFromWallet, Confirm, Usage,
           EndSubscription, DeletePlan, Sources
  <1>. QED
    BY <1>1, <1>4, <1>5, <1>6, <1>7

(* A plan that was paid for and started is not answered with a refusal     *)
(* while it exists, whatever is delivered again, however often the process *)
(* dies and whether or not the subscription has ended.                     *)
THEOREM StartedKept == Spec => StartedPlanNotRefused
  <1>. QED
    BY IInvHolds, StepRefusesNone, PTL DEF Spec, StartedPlanNotRefused, NoneRefused

-----------------------------------------------------------------------------
(* The discount is given once.  The strengthening: an invoice with the     *)
(* discount that is being handled still finds it unused, and one that was  *)
(* credited has used it; a live subscription has been paid for.            *)

Reduced(i) == IsTopup(i) /\ invoice[i].due = ReducedDue

Held(o) == /\ account.subPaid /\ ~account.discountUsed
           /\ o.pc = "loaded" => o.reduced

DiscountHeld ==
    /\ \A i \in posted : Reduced(i) => account.discountUsed
    /\ \A i \in Invoices :
          Reduced(i) /\ op[i].pc \in {"checked", "loaded"} => Held(op[i])

Paying == live > 0 => account.subPaid

DInv == Paying /\ (~raced => DiscountHeld) /\ ReducedOnce

(* The new invoice quotes the discount or not; nothing is done for it yet. *)
LEMMA SendDiscount ==
    ASSUME IInv, DInv, NEW i \in Invoices, NEW v,
           invoice[i] = NoInvoice, invoice' = [invoice EXCEPT ![i] = v],
           UNCHANGED <<account, live, posted, op, raced>>
    PROVE  DInv'
  <1>1. i \notin posted /\ op[i].pc \notin {"checked", "loaded"}
    BY DEF Sent, NoInvoice, IInv, Sums, Known
  <1>2. \A j \in Invoices : j # i => invoice'[j] = invoice[j]
    BY DEF IInv, TInv, TypeOK
  <1>3. \A j : j # i => (IsTopup(j)' <=> IsTopup(j)) /\ (Reduced(j)' <=> Reduced(j))
    BY <1>2 DEF IsTopup, Reduced
  <1>4. Paying' /\ (~raced' => DiscountHeld')
    BY <1>1, <1>3 DEF DInv, Paying, DiscountHeld, Held
  <1>5. ReducedOnce'
    BY <1>1, <1>2, <1>3 DEF DInv, ReducedOnce, IsTopup
  <1>. QED
    BY <1>4, <1>5 DEF DInv

(* A step of one handler that writes no row.                               *)
LEMMA QuietDiscount ==
    ASSUME IInv, DInv, NEW x \in Sources, NEW o, Fits(x, o), op' = [op EXCEPT ![x] = o],
           ~raced /\ Reduced(x) /\ o.pc \in {"checked", "loaded"} => Held(o),
           UNCHANGED <<account, live, posted, invoice, raced>>
    PROVE  DInv'
  <1>1. \A y \in Sources : op'[y] = IF y = x THEN o ELSE op[y]
    BY Replaced DEF IInv
  <1>2. \A j : (IsTopup(j)' <=> IsTopup(j)) /\ (Reduced(j)' <=> Reduced(j))
    BY DEF IsTopup, Reduced
  <1>3. Paying' /\ ReducedOnce'
    BY <1>2 DEF DInv, Paying, ReducedOnce
  <1>4. ~raced' => DiscountHeld'
    BY <1>1, <1>2 DEF DInv, DiscountHeld, Held, Sources
  <1>. QED
    BY <1>3, <1>4 DEF DInv

LEMMA CloseDiscount ==
    ASSUME IInv, DInv, NEW x \in Sources, Close(x),
           UNCHANGED <<account, live, posted, invoice, raced>>
    PROVE  DInv'
  BY IdleFits, QuietDiscount DEF Close

LEMMA AnsweringDiscount ==
    ASSUME IInv, DInv, NEW x \in Sources, Goto(x, "answering"),
           UNCHANGED <<account, live, posted, invoice, raced>>
    PROVE  DInv'
  <1>. DEFINE o == [op[x] EXCEPT !.pc = "answering"]
  <1>1. Fits(x, o) /\ o.pc = "answering" /\ op' = [op EXCEPT ![x] = o]
    BY GotoFits DEF IInv
  <1>. HIDE DEF o
  <1>. QED
    BY <1>1, QuietDiscount

(* No step before a handler's first touches what the discount rests on.    *)
LEMMA StillDiscount ==
    ASSUME IInv, DInv, UNCHANGED <<account, live, posted, invoice, op, raced>>
    PROVE  DInv'
  <1>1. \A j : (IsTopup(j)' <=> IsTopup(j)) /\ (Reduced(j)' <=> Reduced(j))
    BY DEF IsTopup, Reduced
  <1>. QED
    BY <1>1 DEF DInv, Paying, DiscountHeld, Held, ReducedOnce

LEMMA BeginDiscount ==
    ASSUME IInv, DInv, NEW i \in Invoices, Begin(i)
    PROVE  DInv'
  <1>1. UNCHANGED <<live, posted, invoice, raced>> /\ i \in Sources /\ account' = account
    BY DebitedSame DEF Begin, CompareQuote, CheckActive, Deliver, Sources
  <1>2. CASE Refuse(i)
    BY <1>1, <1>2, CloseDiscount DEF Refuse
  <1>3. CASE Goto(i, "checked") /\ (Reduced(i) => Agrees(i))
    <2>. DEFINE o == [op[i] EXCEPT !.pc = "checked"]
    <2>1. Fits(i, o) /\ o.pc = "checked" /\ op' = [op EXCEPT ![i] = o]
      BY <1>1, <1>3, GotoFits DEF IInv
    <2>. HIDE DEF o
    <2>2. ASSUME Reduced(i)
          PROVE  account.subPaid /\ ~account.discountUsed
      <3>1. Discounted
        BY <1>3, <2>2, PriceAssumption DEF Agrees, Due, Reduced
      <3>. QED
        BY <3>1 DEF Discounted, HasLive, DInv, Paying
    <2>3. Reduced(i) => Held(o)
      BY <2>1, <2>2 DEF Held
    <2>. QED
      BY <1>1, <2>1, <2>3, QuietDiscount
  <1>4. CASE CompareQuote(i)
    BY <1>2, <1>3, <1>4 DEF CompareQuote
  <1>5. CASE CheckActive(i)
    <2>1. ~Reduced(i)
      BY <1>5 DEF CheckActive, Reduced, IsTopup
    <2>. QED
      BY <1>2, <1>3, <1>5, <2>1 DEF CheckActive
  <1>. QED
    BY <1>4, <1>5 DEF Begin

LEMMA ReadTopupDiscount ==
    ASSUME IInv, DInv, NEW i \in Invoices, ReadTopup(i)
    PROVE  DInv'
  <1>1. /\ i \in Sources /\ op[i].pc = "checked"
        /\ UNCHANGED <<account, live, posted, invoice, raced>>
    BY DEF ReadTopup, Sources, platform
  <1>2. account.balance \in Nat /\ Discounted \in BOOLEAN
    BY DEF IInv, TInv, TypeOK, Account, Discounted
  <1>3. CASE op' = [op EXCEPT ![i] = [pc |-> "loaded", key |-> i,
                        balance |-> account.balance, reduced |-> Discounted]]
    <2>. DEFINE o == [pc |-> "loaded", key |-> i, balance |-> account.balance,
                      reduced |-> Discounted]
    <2>1. Fits(i, o) /\ o.pc = "loaded" /\ o.reduced = Discounted
      BY <1>2 DEF Fits, KeyFits, Op, Keys
    <2>2. op' = [op EXCEPT ![i] = o]
      BY <1>3
    <2>. HIDE DEF o
    <2>3. ~raced /\ Reduced(i) => Held(op[i])
      BY <1>1 DEF DInv, DiscountHeld
    <2>4. ~raced /\ Reduced(i) => Held(o)
      BY <2>1, <2>3 DEF Held, Discounted
    <2>. QED
      BY <1>1, <2>1, <2>2, <2>4, QuietDiscount
  <1>. QED
    BY <1>1, <1>3, AnsweringDiscount DEF ReadTopup

LEMMA ReadPurchaseDiscount ==
    ASSUME IInv, DInv, NEW x \in Sources, ReadPurchase(x)
    PROVE  DInv'
  <1>1. ~Reduced(x) /\ UNCHANGED <<account, live, posted, invoice, raced>>
    BY DEF ReadPurchase, Reduced, platform
  <1>2. CASE Refuse(x)
    BY <1>1, <1>2, CloseDiscount DEF Refuse
  <1>3. CASE Goto(x, "loaded")
    <2>. DEFINE o == [op[x] EXCEPT !.pc = "loaded"]
    <2>1. Fits(x, o) /\ op' = [op EXCEPT ![x] = o]
      BY <1>3, GotoFits DEF IInv
    <2>. HIDE DEF o
    <2>. QED
      BY <1>1, <2>1, QuietDiscount
  <1>. QED
    BY <1>1, <1>2, <1>3, AnsweringDiscount DEF ReadPurchase

LEMMA EndDiscount ==
    ASSUME IInv, DInv, NEW x \in Sources, PoolsFull(x) \/ Answer(x) \/ CommitFails(x)
    PROVE  DInv'
  BY CloseDiscount DEF PoolsFull, Answer, Answered, CommitFails, Refuse, platform

LEMMA WalletDiscount ==
    ASSUME IInv, DInv, NEW c \in Clicks, BuyFromWallet(c)
    PROVE  DInv'
  <1>1. c \in Sources /\ c \notin Invoices /\ ~Reduced(c)
    BY Numbers DEF Sources, Reduced, IsTopup
  <1>2. PICK day \in Days : op' = [op EXCEPT ![c] = Begun(day)]
    BY DEF BuyFromWallet
  <1>3. Fits(c, Begun(day))
    BY <1>1, BegunFits DEF Fits, KeyFits, Keys
  <1>4. account' = account /\ UNCHANGED <<live, posted, invoice, raced>>
    BY DebitedSame DEF BuyFromWallet, platform
  <1>. QED
    BY <1>1, <1>2, <1>3, <1>4, QuietDiscount

(* The commit that uses the discount is the only one: no other handler     *)
(* that was promised it stands between its read and its commit.            *)
LEMMA CommitTopupDiscount ==
    ASSUME IInv, DInv, NEW i \in Invoices, CommitTopup(i)
    PROVE  DInv'
  <1>1. /\ i \in Sources /\ op[i].pc = "loaded" /\ IsTopup(i)
        /\ posted' = posted \cup {i} /\ Writing(i) /\ Goto(i, "answering")
        /\ invoice' = invoice /\ live' = live
    BY DEF CommitTopup, Sources, platform
  <1>2. account \in Account /\ op[i].reduced \in BOOLEAN
    BY <1>1 DEF IInv, TInv, TypeOK, Op, Sources
  <1>3. /\ account'.subPaid = account.subPaid
        /\ account'.discountUsed = (account.discountUsed \/ op[i].reduced)
    BY <1>2 DEF CommitTopup, Account
  <1>4. \A j : (IsTopup(j)' <=> IsTopup(j)) /\ (Reduced(j)' <=> Reduced(j))
    BY <1>1 DEF IsTopup, Reduced
  <1>5. Paying'
    BY <1>1, <1>3 DEF DInv, Paying
  <1>6. ASSUME ~raced'
        PROVE  /\ \A j \in posted : Reduced(j) => account.discountUsed
               /\ Reduced(i) => ~account.discountUsed /\ op[i].reduced
               /\ \A y \in Sources : op'[y].pc \notin {"checked", "loaded"}
               /\ ~raced
    BY <1>1, <1>6, Alone DEF DInv, DiscountHeld, Held
  <1>7. ~raced' => DiscountHeld'
    BY <1>1, <1>3, <1>4, <1>6 DEF DiscountHeld, Sources
  <1>8. ReducedOnce'
    <2>1. SUFFICES ASSUME ~raced'
                   PROVE  \A j, k \in posted' : Reduced(j) /\ Reduced(k) => j = k
      BY <1>1, <1>4 DEF ReducedOnce, Reduced
    <2>2. \A j, k \in posted : Reduced(j) /\ Reduced(k) => j = k
      BY <1>6, <2>1 DEF DInv, ReducedOnce, Reduced
    <2>3. \A j \in posted : Reduced(j) => ~Reduced(i)
      BY <1>6, <2>1
    <2>. QED
      BY <1>1, <2>2, <2>3
  <1>. QED
    BY <1>5, <1>7, <1>8 DEF DInv

LEMMA CommitPurchaseDiscount ==
    ASSUME IInv, DInv, NEW x \in Sources, CommitPurchase(x)
    PROVE  DInv'
  <1>1. /\ op[x].pc = "loaded" /\ ~IsTopup(x)
        /\ posted' = posted \cup {op[x].key} /\ Writing(x) /\ Goto(x, "answering")
        /\ account' = [account EXCEPT !.subPaid = TRUE] /\ invoice' = invoice
    BY DEF CommitPurchase, platform
  <1>2. account \in Account /\ KeyFits(x, op[x])
    BY DEF IInv, TInv, TypeOK
  <1>3. account'.subPaid /\ account'.discountUsed = account.discountUsed
    BY <1>1, <1>2 DEF Account
  <1>4. \A j : (IsTopup(j)' <=> IsTopup(j)) /\ (Reduced(j)' <=> Reduced(j))
    BY <1>1 DEF IsTopup, Reduced
  <1>5. ~IsTopup(op[x].key) /\ ~Reduced(op[x].key)
    BY <1>1, <1>2, Numbers DEF KeyFits, IsTopup, Reduced
  <1>6. ~raced' => /\ ~raced
                   /\ \A y \in Sources : op'[y].pc \notin {"checked", "loaded"}
    BY <1>1, Alone
  <1>7. Paying'
    BY <1>3 DEF Paying
  <1>8. ~raced' => DiscountHeld'
    BY <1>1, <1>3, <1>4, <1>5, <1>6 DEF DInv, DiscountHeld, Sources
  <1>9. ReducedOnce'
    <2>1. SUFFICES ASSUME ~raced'
                   PROVE  \A j, k \in posted' : Reduced(j) /\ Reduced(k) => j = k
      BY <1>1, <1>4 DEF ReducedOnce, Reduced
    <2>2. \A j, k \in posted : Reduced(j) /\ Reduced(k) => j = k
      BY <1>6, <2>1 DEF DInv, ReducedOnce, Reduced
    <2>. QED
      BY <1>1, <1>5, <2>2
  <1>. QED
    BY <1>7, <1>8, <1>9 DEF DInv

LEMMA UsageDiscount ==
    ASSUME IInv, DInv, Usage
    PROVE  DInv'
  <1>1. /\ account' = [account EXCEPT !.balance = account.balance - 1,
                                     !.spent = account.spent + 1]
        /\ UNCHANGED <<live, posted, invoice, op>>
    BY DEF Usage, platform
  <1>2. /\ account'.subPaid = account.subPaid
        /\ account'.discountUsed = account.discountUsed
    BY <1>1 DEF IInv, TInv, TypeOK, Account
  <1>3. ~raced' => ~raced /\ \A y \in Sources : op[y].pc \notin {"checked", "loaded"}
    <2>1. DOMAIN op = Sources
      BY DEF IInv, TInv, TypeOK, Sources
    <2>. QED
      BY <2>1 DEF Usage
  <1>4. \A j : (IsTopup(j)' <=> IsTopup(j)) /\ (Reduced(j)' <=> Reduced(j))
    BY <1>1 DEF IsTopup, Reduced
  <1>. QED
    BY <1>1, <1>2, <1>3, <1>4 DEF DInv, Paying, DiscountHeld, Held, ReducedOnce, Sources

LEMMA ExpiryDiscount ==
    ASSUME IInv, DInv, EndSubscription \/ DeletePlan
    PROVE  DInv'
  <1>1. /\ live' > 0 => live > 0
        /\ UNCHANGED <<account, posted, invoice, op, raced>>
    BY DEF EndSubscription, DeletePlan, HasLive, platform, IInv, TInv, TypeOK
  <1>2. \A j : (IsTopup(j)' <=> IsTopup(j)) /\ (Reduced(j)' <=> Reduced(j))
    BY <1>1 DEF IsTopup, Reduced
  <1>. QED
    BY <1>1, <1>2 DEF DInv, Paying, DiscountHeld, Held, ReducedOnce

LEMMA CrashDiscount ==
    ASSUME IInv, DInv, Crash
    PROVE  DInv'
  <1>1. /\ op' = [x \in Sources |-> Idle(x)]
        /\ UNCHANGED <<account, live, posted, invoice, raced>>
    BY DEF Crash, IInv, TInv, TypeOK, Sources
  <1>2. \A i \in Invoices : op'[i].pc = "idle"
    BY <1>1, IdleFits DEF Sources
  <1>3. \A j : (IsTopup(j)' <=> IsTopup(j)) /\ (Reduced(j)' <=> Reduced(j))
    BY <1>1 DEF IsTopup, Reduced
  <1>. QED
    BY <1>1, <1>2, <1>3 DEF DInv, Paying, DiscountHeld, Held, ReducedOnce

LEMMA RequestDiscount ==
    ASSUME IInv, DInv, NEW i \in Invoices, RequestTopup(i) \/ RequestPlan(i)
    PROVE  DInv'
  <1>1. /\ invoice[i] = NoInvoice /\ \E v : invoice' = [invoice EXCEPT ![i] = v]
        /\ UNCHANGED <<account, live, posted, op, raced>>
    BY DEF RequestTopup, RequestPlan
  <1>. QED
    BY <1>1, SendDiscount

LEMMA DInvInit == Init => DInv
  BY DEF Init, DInv, Paying, DiscountHeld, ReducedOnce, Idle, Begun

LEMMA DInvStep == IInv /\ DInv /\ [Next]_vars => DInv'
  <1>. SUFFICES ASSUME IInv, DInv, [Next]_vars
                PROVE  DInv'
    OBVIOUS
  <1>1. ASSUME NEW x \in Sources, Handle(x)
        PROVE  DInv'
    BY <1>1, ReadTopupDiscount, CommitTopupDiscount, ReadPurchaseDiscount,
       CommitPurchaseDiscount, EndDiscount DEF Handle
  <1>2. ASSUME \/ \E i \in Invoices : Pay(i)
               \/ Confirm \/ UNCHANGED vars
        PROVE  DInv'
    BY <1>2, StillDiscount DEF Pay, Confirm, vars
  <1>. QED
    BY <1>1, <1>2, RequestDiscount, BeginDiscount, WalletDiscount, UsageDiscount,
       ExpiryDiscount, CrashDiscount DEF Next, Sources

(* The discount of the first top-up is given to one of the invoices that   *)
(* were sent with it, in whatever order they are paid and redelivered and  *)
(* however often the process dies, unless a row was written while a        *)
(* handler stood between its read and its commit.                          *)
THEOREM DiscountOnce == Spec => []ReducedOnce
  <1>1. DInv => ReducedOnce
    BY DEF DInv
  <1>. QED
    BY <1>1, DInvInit, DInvStep, IInvHolds, PTL DEF Spec
=============================================================================
