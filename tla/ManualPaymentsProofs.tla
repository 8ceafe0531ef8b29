------------------------- MODULE ManualPaymentsProofs -------------------------
(* Theorems about ManualPayments, for every set of users, requests and     *)
(* handlers.                                                               *)
EXTENDS ManualPayments, TLAPS, FiniteSetTheorems, WellFoundedInduction

-----------------------------------------------------------------------------
(* What the operators return.                                              *)

LEMMA AskedFacts ==
    ASSUME NEW r \in Requests
    PROVE  User(r) \in Users /\ Amount(r) \in Nat /\ IsTopup(r) \in BOOLEAN
BY AskedAssumption DEF Request, User, Amount, IsTopup

LEMMA CreditedType ==
    ASSUME NEW row \in Balances, NEW r \in Requests
    PROVE  Credited(row, r) \in Balances /\ Gifted(row, r) \in Balances
BY AskedFacts DEF Credited, Gifted, Balances

LEMMA FlushType ==
    ASSUME NEW current \in Balances, NEW loaded \in Balances, NEW changed \in Balances
    PROVE  Flush(current, loaded, changed) \in Balances
<1>1. \A c \in {"gift", "paid"} : current[c] \in Int /\ changed[c] \in Int
  BY DEF Balances
<1> DEFINE row == Flush(current, loaded, changed)
<1>2. row = [c \in {"gift", "paid"} |-> row[c]]
  BY DEF Flush
<1>3. \A c \in {"gift", "paid"} : row[c] \in Int
  BY <1>1 DEF Flush
<1> QED
  BY <1>2, <1>3 DEF Balances

LEMMA RowTypes ==
    ASSUME NEW r \in Requests, NEW row \in Balances, NEW delta \in Int,
           NEW kind \in {"subscription_payment", "subscription_gift_credit"}
    PROVE  ManualRow(r, row) \in LedgerRow /\ PurchaseRow(r, kind, delta, row) \in LedgerRow
BY AskedFacts DEF ManualRow, PurchaseRow, LedgerRow, Balances

-----------------------------------------------------------------------------
(* Type correctness.  A handler that is open has a request, of the type    *)
(* that its next step expects.                                             *)

HandlersServe ==
    \A h \in Handlers :
        ~Reading(h, "idle") =>
            /\ handler[h].request \in Requests
            /\ Reading(h, "crediting") => IsTopup(handler[h].request)
            /\ Reading(h, "purchasing") \/ Reading(h, "granted")
                 => ~IsTopup(handler[h].request)

TypeInv == TypeOK /\ HandlersServe

(* A handler that closes is idle; the others are as they were.             *)
LEMMA CloseKeepsHandlers ==
    ASSUME TypeInv, NEW h \in Handlers, Close(h)
    PROVE  handler' \in [Handlers -> HandlerState] /\ HandlersServe'
<1>1. Idle \in HandlerState
  BY DEF Idle, HandlerState, Balances
<1>2. handler' \in [Handlers -> HandlerState]
  BY <1>1 DEF TypeInv, TypeOK, Close
<1>3. HandlersServe'
  BY DEF TypeInv, TypeOK, HandlersServe, Close, Idle, Reading, IsTopup
<1> QED
  BY <1>2, <1>3

(* A handler goes on with the request it serves.                           *)
LEMMA StepKeepsHandlers ==
    ASSUME TypeInv, NEW h \in Handlers, NEW row \in Balances,
           NEW pc \in {"crediting", "purchasing", "granted"},
           ~Reading(h, "idle"), Step(h, pc, row),
           pc = "crediting" <=> IsTopup(handler[h].request)
    PROVE  handler' \in [Handlers -> HandlerState] /\ HandlersServe'
<1>1. handler' \in [Handlers -> HandlerState]
  BY DEF TypeInv, TypeOK, Step, HandlerState
<1>2. HandlersServe'
  BY DEF TypeInv, TypeOK, HandlersServe, Step, Reading, IsTopup, HandlerState
<1> QED
  BY <1>1, <1>2

LEMMA ReadRequestKeepsHandlers ==
    ASSUME TypeInv, NEW h \in Handlers, NEW r \in Requests,
           NEW pc \in {"approving", "rejecting"}, ReadRequest(h, r, pc)
    PROVE  handler' \in [Handlers -> HandlerState] /\ HandlersServe'
<1>1. handler' \in [Handlers -> HandlerState]
  BY DEF TypeInv, TypeOK, ReadRequest, HandlerState
<1>2. HandlersServe'
  BY DEF TypeInv, TypeOK, HandlersServe, ReadRequest, Reading, IsTopup, HandlerState
<1> QED
  BY <1>1, <1>2

LEMMA DecideType ==
    ASSUME TypeOK, NEW r \in Requests, NEW decision \in {"approve", "reject"},
           Decide(r, decision)
    PROVE  /\ status' \in [Requests -> {"none", "pending", "approved", "rejected"}]
           /\ reviews' \in Seq(Review)
<1>1. [request |-> r, decision |-> decision] \in Review
  BY DEF Review
<1> QED
  BY <1>1 DEF TypeOK, Decide

LEMMA InitType == Init => TypeInv
<1> SUFFICES ASSUME Init
             PROVE  TypeInv
  OBVIOUS
<1>1. Idle \in HandlerState
  BY DEF Idle, HandlerState, Balances
<1>2. TypeOK
  BY <1>1, OpeningGiftAssumption DEF Init, TypeOK, Balances
<1>3. HandlersServe
  BY DEF Init, HandlersServe, Reading, Idle
<1> QED
  BY <1>2, <1>3 DEF TypeInv

LEMMA NextType == TypeInv /\ [Next]_paymentVars => TypeInv'
<1> SUFFICES ASSUME TypeInv, [Next]_paymentVars
             PROVE  TypeInv'
  OBVIOUS
<1> USE DEF TypeInv
<1>1. CASE \E r \in Requests : CreateRequest(r)
  <2> PICK r \in Requests : CreateRequest(r)
    BY <1>1
  <2> QED
    BY DEF CreateRequest, TypeOK, HandlersServe, Reading, IsTopup
<1>2. CASE \E h \in Handlers, r \in Requests : BeginApproval(h, r) \/ BeginRejection(h, r)
  <2> PICK h \in Handlers, r \in Requests : BeginApproval(h, r) \/ BeginRejection(h, r)
    BY <1>2
  <2>1. handler' \in [Handlers -> HandlerState] /\ HandlersServe'
    BY ReadRequestKeepsHandlers DEF BeginApproval, BeginRejection
  <2> QED
    BY <2>1 DEF BeginApproval, BeginRejection, ReadRequest, TypeOK
<1>3. ASSUME NEW h \in Handlers, ReadAccount(h)
      PROVE  TypeInv'
  <2> DEFINE r == handler[h].request
  <2>1. r \in Requests
    BY <1>3 DEF ReadAccount, HandlersServe, Reading
  <2>2. account[User(r)] \in Balances
    BY <2>1, AskedFacts DEF TypeOK
  <2>3. handler' \in [Handlers -> HandlerState] /\ HandlersServe'
    BY <1>3, <2>2, StepKeepsHandlers DEF ReadAccount, Reading
  <2> QED
    BY <1>3, <2>3 DEF ReadAccount, TypeOK
<1>4. ASSUME NEW h \in Handlers, CommitCredit(h)
      PROVE  TypeInv'
  <2> DEFINE r == handler[h].request
             after == Credited(handler[h].row, r)
  <2>1. r \in Requests /\ handler[h].row \in Balances
    BY <1>4 DEF CommitCredit, HandlersServe, Reading, TypeOK, HandlerState
  <2>2. User(r) \in Users /\ after \in Balances
    BY <2>1, AskedFacts, CreditedType
  <2>3. Flush(account[User(r)], handler[h].row, after) \in Balances
    BY <2>1, <2>2, FlushType DEF TypeOK
  <2>4. account' \in [Users -> Balances]
    BY <1>4, <2>2, <2>3 DEF CommitCredit, TypeOK
  <2>5. ManualRow(r, after) \in LedgerRow
    BY <2>1, <2>2, RowTypes
  <2>6. ledger' \in Seq(LedgerRow)
    BY <1>4, <2>5 DEF CommitCredit, TypeOK
  <2>7. handler' \in [Handlers -> HandlerState] /\ HandlersServe'
    BY <1>4, CloseKeepsHandlers DEF CommitCredit
  <2> QED
    BY <1>4, <2>1, <2>4, <2>6, <2>7, DecideType DEF CommitCredit, TypeOK
<1>5. ASSUME NEW h \in Handlers, ReadPurchase(h)
      PROVE  TypeInv'
  <2> DEFINE r == handler[h].request
  <2>1. r \in Requests
    BY <1>5 DEF ReadPurchase, HandlersServe, Reading
  <2>2. account[User(r)] \in Balances
    BY <2>1, AskedFacts DEF TypeOK
  <2>3. Close(h) \/ Step(h, "granted", account[User(r)]) \/ Step(h, "purchasing", account[User(r)])
    BY <1>5 DEF ReadPurchase
  <2>4. handler' \in [Handlers -> HandlerState] /\ HandlersServe'
    BY <1>5, <2>2, <2>3, StepKeepsHandlers, CloseKeepsHandlers DEF ReadPurchase, Reading
  <2> QED
    BY <1>5, <2>4 DEF ReadPurchase, TypeOK
<1>6. ASSUME NEW h \in Handlers, CommitPurchase(h)
      PROVE  TypeInv'
  <2> DEFINE r == handler[h].request
             after == Gifted(handler[h].row, r)
             payment == PurchaseRow(r, "subscription_payment", 0, after)
             credit == PurchaseRow(r, "subscription_gift_credit", Amount(r), after)
  <2>1. r \in Requests /\ handler[h].row \in Balances /\ ~IsTopup(r)
    BY <1>6 DEF CommitPurchase, HandlersServe, Reading, TypeOK, HandlerState
  <2>2. User(r) \in Users /\ Amount(r) \in Int /\ after \in Balances
    BY <2>1, AskedFacts, CreditedType
  <2>3. Flush(account[User(r)], handler[h].row, after) \in Balances
    BY <2>1, <2>2, FlushType DEF TypeOK
  <2>4. account' \in [Users -> Balances]
    BY <1>6, <2>2, <2>3 DEF CommitPurchase, TypeOK
  <2>5. payment \in LedgerRow /\ credit \in LedgerRow
    BY <2>1, <2>2, RowTypes
  <2>6. ledger' = ledger \o <<payment, credit>>
    BY <1>6 DEF CommitPurchase
  <2> HIDE DEF payment, credit
  <2>7. ledger' \in Seq(LedgerRow)
    BY <2>5, <2>6 DEF TypeOK
  <2>8. handler' \in [Handlers -> HandlerState] /\ HandlersServe'
    BY <1>6, <2>1, <2>2, StepKeepsHandlers DEF CommitPurchase, Reading
  <2> QED
    BY <1>6, <2>1, <2>4, <2>7, <2>8 DEF CommitPurchase, TypeOK
<1>7. ASSUME NEW h \in Handlers, CommitReview(h) \/ CommitRejection(h)
      PROVE  TypeInv'
  <2>1. handler[h].request \in Requests
    BY <1>7 DEF CommitReview, CommitRejection, HandlersServe, Reading
  <2>2. handler' \in [Handlers -> HandlerState] /\ HandlersServe'
    BY <1>7, CloseKeepsHandlers DEF CommitReview, CommitRejection
  <2> QED
    BY <1>7, <2>1, <2>2, DecideType DEF CommitReview, CommitRejection, TypeOK
<1>8. ASSUME NEW h \in Handlers, Abandon(h)
      PROVE  TypeInv'
  BY <1>8, CloseKeepsHandlers DEF Abandon, TypeOK
<1>9. CASE \E r \in live : ExpireSubscription(r)
  BY <1>9 DEF ExpireSubscription, TypeOK, HandlersServe, Reading, IsTopup
<1>10. CASE UNCHANGED paymentVars
  BY <1>10 DEF paymentVars, TypeOK, HandlersServe, Reading, IsTopup
<1> QED
  BY <1>1, <1>2, <1>3, <1>4, <1>5, <1>6, <1>7, <1>8, <1>9, <1>10
     DEF Next, Advance, AnswerReviewed

(* Every state is well typed: whatever interleaving of reviewers, crashes  *)
(* and retries, the status, the audit trail and the ledger keep their      *)
(* shape.                                                                  *)
THEOREM TypeCorrect == Spec => []TypeOK
<1>1. Spec => []TypeInv
  BY InitType, NextType, PTL DEF Spec
<1> QED
  BY <1>1, PTL DEF TypeInv

-----------------------------------------------------------------------------
(* What a commit adds to the ledger and to the audit trail.                *)

LEMMA FiniteRows ==
    ASSUME TypeOK, NEW r \in Requests, NEW kind
    PROVE  IsFiniteSet(RowsOf(r, kind)) /\ RowsOf(r, kind) \subseteq 1 .. Len(ledger)
<1>1. Len(ledger) \in Nat /\ RowsOf(r, kind) \subseteq 1 .. Len(ledger)
  BY DEF TypeOK, RowsOf
<1>2. IsFiniteSet(1 .. Len(ledger))
  BY <1>1, FS_Interval
<1> QED
  BY <1>1, <1>2, FS_Subset

LEMMA FiniteReviews ==
    ASSUME TypeOK, NEW r \in Requests
    PROVE  /\ IsFiniteSet(ReviewsOf(r)) /\ ReviewsOf(r) \subseteq 1 .. Len(reviews)
           /\ IsFiniteSet(ApprovalsOf(r)) /\ ApprovalsOf(r) \subseteq ReviewsOf(r)
<1>1. Len(reviews) \in Nat /\ ReviewsOf(r) \subseteq 1 .. Len(reviews)
  BY DEF TypeOK, ReviewsOf
<1>2. IsFiniteSet(1 .. Len(reviews))
  BY <1>1, FS_Interval
<1>3. ApprovalsOf(r) \subseteq ReviewsOf(r)
  BY DEF ApprovalsOf
<1>4. IsFiniteSet(ReviewsOf(r))
  BY <1>1, <1>2, FS_Subset
<1> QED
  BY <1>1, <1>3, <1>4, FS_Subset

LEMMA CommitCreditRows ==
    ASSUME TypeInv, NEW h \in Handlers, CommitCredit(h), NEW r \in Requests
    PROVE  /\ RowsOf(r, "subscription_gift_credit")' = RowsOf(r, "subscription_gift_credit")
           /\ RowsOf(r, "manual_payment")' =
                IF r = handler[h].request
                THEN RowsOf(r, "manual_payment") \cup {Len(ledger) + 1}
                ELSE RowsOf(r, "manual_payment")
<1> DEFINE row == ManualRow(handler[h].request, Credited(handler[h].row, handler[h].request))
<1>1. row.request = handler[h].request /\ row.kind = "manual_payment"
  BY DEF ManualRow
<1>2. ledger' = Append(ledger, row)
  BY DEF CommitCredit
<1> HIDE DEF row
<1>3. /\ DOMAIN ledger' = DOMAIN ledger \cup {Len(ledger) + 1}
      /\ \A i \in DOMAIN ledger : ledger'[i] = ledger[i] /\ i # Len(ledger) + 1
      /\ ledger'[Len(ledger) + 1] = row
  BY <1>2 DEF TypeInv, TypeOK
<1> QED
  BY <1>1, <1>3 DEF RowsOf

LEMMA CommitPurchaseRows ==
    ASSUME TypeInv, NEW h \in Handlers, CommitPurchase(h), NEW r \in Requests
    PROVE  /\ RowsOf(r, "manual_payment")' = RowsOf(r, "manual_payment")
           /\ RowsOf(r, "subscription_gift_credit")' =
                IF r = handler[h].request
                THEN RowsOf(r, "subscription_gift_credit") \cup {Len(ledger) + 2}
                ELSE RowsOf(r, "subscription_gift_credit")
<1> DEFINE x == handler[h].request
           after == Gifted(handler[h].row, x)
           payment == PurchaseRow(x, "subscription_payment", 0, after)
           credit == PurchaseRow(x, "subscription_gift_credit", Amount(x), after)
<1>1. /\ payment.request = x /\ payment.kind = "subscription_payment"
      /\ credit.request = x /\ credit.kind = "subscription_gift_credit"
  BY DEF PurchaseRow
<1>2. ledger' = ledger \o <<payment, credit>>
  BY DEF CommitPurchase
<1> HIDE DEF payment, credit
<1>3. /\ DOMAIN ledger' = DOMAIN ledger \cup {Len(ledger) + 1, Len(ledger) + 2}
      /\ \A i \in DOMAIN ledger : /\ ledger'[i] = ledger[i]
                                  /\ i # Len(ledger) + 1 /\ i # Len(ledger) + 2
      /\ ledger'[Len(ledger) + 1] = payment
      /\ ledger'[Len(ledger) + 2] = credit
  BY <1>2 DEF TypeInv, TypeOK
<1> QED
  BY <1>1, <1>3 DEF RowsOf

LEMMA DecideReviews ==
    ASSUME TypeInv, NEW x \in Requests, NEW decision \in {"approve", "reject"},
           Decide(x, decision), NEW r \in Requests
    PROVE  /\ ReviewsOf(r)' = IF r = x THEN ReviewsOf(r) \cup {Len(reviews) + 1}
                              ELSE ReviewsOf(r)
           /\ ApprovalsOf(r)' = IF r = x /\ decision = "approve"
                                THEN ApprovalsOf(r) \cup {Len(reviews) + 1}
                                ELSE ApprovalsOf(r)
<1>1. /\ DOMAIN reviews' = DOMAIN reviews \cup {Len(reviews) + 1}
      /\ \A i \in DOMAIN reviews : reviews'[i] = reviews[i] /\ i # Len(reviews) + 1
      /\ reviews'[Len(reviews) + 1] = [request |-> x, decision |-> decision]
  BY DEF Decide, TypeInv, TypeOK
<1> QED
  BY <1>1 DEF ReviewsOf, ApprovalsOf

(* The steps that commit something, and what all the others leave alone.   *)
Quiet ==
    /\ UNCHANGED <<ledger, reviews>>
    /\ \A r \in Requests : status'[r] = "approved" => status[r] = "approved"

LEMMA StepKinds ==
    ASSUME TypeInv, [Next]_paymentVars
    PROVE  \/ \E h \in Handlers : CommitCredit(h)
           \/ \E h \in Handlers : CommitPurchase(h)
           \/ \E h \in Handlers : CommitReview(h)
           \/ \E h \in Handlers : CommitRejection(h)
           \/ Quiet
<1>1. ASSUME NEW r \in Requests, CreateRequest(r)
      PROVE  Quiet
  BY <1>1 DEF CreateRequest, Quiet, TypeInv, TypeOK
<1>2. ASSUME NEW h \in Handlers, NEW r \in Requests, BeginApproval(h, r) \/ BeginRejection(h, r)
      PROVE  Quiet
  BY <1>2 DEF BeginApproval, BeginRejection, ReadRequest, Quiet
<1>3. ASSUME NEW h \in Handlers, ReadAccount(h) \/ ReadPurchase(h) \/ Abandon(h)
      PROVE  Quiet
  BY <1>3 DEF ReadAccount, ReadPurchase, Abandon, Quiet
<1>4. ASSUME NEW r \in live, ExpireSubscription(r)
      PROVE  Quiet
  BY <1>4 DEF ExpireSubscription, Quiet
<1>5. ASSUME UNCHANGED paymentVars
      PROVE  Quiet
  BY <1>5 DEF paymentVars, Quiet
<1> QED
  BY <1>1, <1>2, <1>3, <1>4, <1>5 DEF Next, Advance, AnswerReviewed

-----------------------------------------------------------------------------
(* An approved request is paid, and a subscription is granted once.  The   *)
(* handler that is about to approve a subscription has seen its grant.     *)

GrantSeen ==
    \A h \in Handlers :
        Reading(h, "granted")
            => RowsOf(handler[h].request, "subscription_gift_credit") # {}

PaidInv == TypeInv /\ GrantSeen /\ ApprovedIsPaid /\ GrantedOnce

LEMMA InitPaid == Init => PaidInv
<1> SUFFICES ASSUME Init
             PROVE  PaidInv
  OBVIOUS
<1>1. \A r \in Requests, kind \in {"subscription_gift_credit"} : RowsOf(r, kind) = {}
  BY DEF Init, RowsOf
<1>2. GrantedOnce
  BY <1>1, FS_EmptySet DEF GrantedOnce
<1> QED
  BY <1>2, InitType DEF Init, PaidInv, GrantSeen, ApprovedIsPaid, Reading, Idle

(* No step takes a row out of the ledger.                                  *)
LEMMA RowsStay ==
    ASSUME TypeInv, [Next]_paymentVars, NEW r \in Requests,
           NEW kind \in {"manual_payment", "subscription_gift_credit"}
    PROVE  RowsOf(r, kind) \subseteq RowsOf(r, kind)'
<1>1. CASE \E h \in Handlers : CommitCredit(h)
  BY <1>1, CommitCreditRows
<1>2. CASE \E h \in Handlers : CommitPurchase(h)
  BY <1>2, CommitPurchaseRows
<1>3. CASE UNCHANGED ledger
  BY <1>3 DEF RowsOf
<1> QED
  BY <1>1, <1>2, <1>3, StepKinds DEF Quiet, CommitReview, CommitRejection

LEMMA NextGrantSeen ==
    ASSUME PaidInv, [Next]_paymentVars
    PROVE  GrantSeen'
<1> SUFFICES ASSUME NEW h \in Handlers, Reading(h, "granted")',
                    NEW r, r = handler'[h].request
             PROVE  RowsOf(r, "subscription_gift_credit")' # {}
  BY DEF GrantSeen, RowsOf
<1>1. handler[h].request = handler'[h].request /\ handler[h].request \in Requests
      /\ (Reading(h, "granted") \/ ReadPurchase(h) \/ CommitPurchase(h))
  <2>1. TypeInv'
    BY NextType DEF PaidInv
  <2>2. handler'[h].request \in Requests
    BY <2>1 DEF TypeInv, HandlersServe, Reading
  <2>3. ASSUME NEW g \in Handlers, Close(g)
        PROVE  handler'[h] = handler[h]
    BY <2>3 DEF Close, Reading, Idle, PaidInv, TypeInv, TypeOK
  <2>4. ASSUME NEW g \in Handlers, NEW x \in Requests, BeginApproval(g, x) \/ BeginRejection(g, x)
        PROVE  handler'[h] = handler[h]
    BY <2>4 DEF BeginApproval, BeginRejection, ReadRequest, Reading, PaidInv, TypeInv, TypeOK, HandlerState
  <2>5. ASSUME NEW g \in Handlers, ReadAccount(g)
        PROVE  handler'[h] = handler[h]
    BY <2>5 DEF ReadAccount, Step, Reading, PaidInv, TypeInv, TypeOK, HandlerState
  <2>6. ASSUME NEW g \in Handlers, NEW pc, NEW row, Step(g, pc, row), g # h
        PROVE  handler'[h] = handler[h]
    BY <2>6 DEF Step, PaidInv, TypeInv, TypeOK
  <2>7. ASSUME NEW pc, NEW row, Step(h, pc, row)
        PROVE  handler'[h].request = handler[h].request
    BY <2>7 DEF Step, PaidInv, TypeInv, TypeOK, HandlerState
  <2>8. CASE ReadPurchase(h) \/ CommitPurchase(h)
    BY <2>2, <2>3, <2>7, <2>8 DEF ReadPurchase, CommitPurchase
  <2>9. CASE ~(ReadPurchase(h) \/ CommitPurchase(h))
    <3>1. handler'[h] = handler[h]
      BY <2>3, <2>4, <2>5, <2>6, <2>9
         DEF Next, Advance, AnswerReviewed, CreateRequest, CommitCredit, ReadPurchase,
             CommitPurchase, CommitReview, CommitRejection, Abandon, ExpireSubscription, paymentVars
    <3> QED
      BY <2>2, <3>1 DEF Reading
  <2> QED
    BY <2>8, <2>9
<1>2. r \in Requests /\ handler[h].request = r
  BY <1>1
<1>3. RowsOf(r, "subscription_gift_credit") # {}
        => RowsOf(r, "subscription_gift_credit")' # {}
  BY <1>2, RowsStay DEF PaidInv
<1>4. CASE Reading(h, "granted")
  BY <1>2, <1>3, <1>4 DEF PaidInv, GrantSeen
<1>5. CASE ReadPurchase(h)
  <2>1. Granted(r)
    BY <1>2, <1>5 DEF ReadPurchase, Step, Close, Reading, Idle, PaidInv, TypeInv, TypeOK, HandlerState
  <2> QED
    BY <1>3, <2>1 DEF Granted
<1>6. CASE CommitPurchase(h)
  BY <1>2, <1>6, CommitPurchaseRows DEF PaidInv
<1> QED
  BY <1>1, <1>4, <1>5, <1>6

LEMMA NextApprovedIsPaid ==
    ASSUME PaidInv, [Next]_paymentVars
    PROVE  ApprovedIsPaid'
<1> DEFINE paidBy(r) == IF IsTopup(r) THEN "manual_payment" ELSE "subscription_gift_credit"
<1> SUFFICES ASSUME NEW r \in Requests, status'[r] = "approved"
             PROVE  RowsOf(r, paidBy(r))' # {}
  BY DEF ApprovedIsPaid
<1>1. status[r] = "approved" => RowsOf(r, paidBy(r))' # {}
  <2>1. status[r] = "approved" => RowsOf(r, paidBy(r)) # {}
    BY DEF PaidInv, ApprovedIsPaid
  <2> QED
    BY <2>1, RowsStay DEF PaidInv
<1>2. ASSUME NEW h \in Handlers, NEW decision \in {"approve", "reject"},
             Decide(handler[h].request, decision),
             r # handler[h].request \/ decision = "reject"
      PROVE  status[r] = "approved"
  BY <1>2 DEF Decide, PaidInv, TypeInv, TypeOK
<1>3. ASSUME NEW h \in Handlers, CommitCredit(h)
      PROVE  RowsOf(r, paidBy(r))' # {}
  <2>1. CASE r # handler[h].request
    BY <1>1, <1>2, <1>3, <2>1 DEF CommitCredit
  <2>2. CASE r = handler[h].request
    <3>1. IsTopup(r)
      BY <1>3, <2>2 DEF CommitCredit, Reading, PaidInv, TypeInv, HandlersServe
    <3>2. RowsOf(r, "manual_payment")' # {}
      BY <1>3, <2>2, CommitCreditRows DEF PaidInv
    <3> QED
      BY <3>1, <3>2
  <2> QED
    BY <2>1, <2>2
<1>4. ASSUME NEW h \in Handlers, CommitReview(h)
      PROVE  RowsOf(r, paidBy(r))' # {}
  <2>1. CASE r # handler[h].request
    BY <1>1, <1>2, <1>4, <2>1 DEF CommitReview
  <2>2. CASE r = handler[h].request
    <3>1. ~IsTopup(r)
      BY <1>4, <2>2 DEF CommitReview, Reading, PaidInv, TypeInv, HandlersServe
    <3>2. RowsOf(r, "subscription_gift_credit") # {}
      BY <1>4, <2>2 DEF CommitReview, PaidInv, GrantSeen
    <3> QED
      BY <3>1, <3>2, RowsStay DEF PaidInv
  <2> QED
    BY <2>1, <2>2
<1>5. ASSUME NEW h \in Handlers, CommitRejection(h)
      PROVE  RowsOf(r, paidBy(r))' # {}
  BY <1>1, <1>2, <1>5 DEF CommitRejection
<1>6. ASSUME NEW h \in Handlers, CommitPurchase(h)
      PROVE  RowsOf(r, paidBy(r))' # {}
  BY <1>1, <1>6 DEF CommitPurchase
<1> QED
  BY <1>1, <1>3, <1>4, <1>5, <1>6, StepKinds DEF Quiet, PaidInv

(* The purchase commits only where the request has no grant yet.           *)
LEMMA NextGrantedOnce ==
    ASSUME PaidInv, [Next]_paymentVars
    PROVE  GrantedOnce'
<1> SUFFICES ASSUME NEW r \in Requests
             PROVE  Cardinality(RowsOf(r, "subscription_gift_credit")') <= 1
  BY DEF GrantedOnce
<1>1. RowsOf(r, "subscription_gift_credit")' = RowsOf(r, "subscription_gift_credit")
        => Cardinality(RowsOf(r, "subscription_gift_credit")') <= 1
  BY DEF PaidInv, GrantedOnce
<1>2. ASSUME NEW h \in Handlers, CommitPurchase(h), r = handler[h].request
      PROVE  Cardinality(RowsOf(r, "subscription_gift_credit")') <= 1
  <2>1. RowsOf(r, "subscription_gift_credit") = {}
    BY <1>2 DEF CommitPurchase, Granted
  <2> DEFINE credit == Len(ledger) + 2
  <2>2. RowsOf(r, "subscription_gift_credit")' = {credit}
    BY <1>2, <2>1, CommitPurchaseRows DEF PaidInv
  <2> HIDE DEF credit
  <2>3. Cardinality({credit}) = 1
    BY FS_Singleton
  <2> QED
    BY <2>2, <2>3
<1>3. ASSUME NEW h \in Handlers, CommitPurchase(h), r # handler[h].request
      PROVE  Cardinality(RowsOf(r, "subscription_gift_credit")') <= 1
  BY <1>1, <1>3, CommitPurchaseRows DEF PaidInv
<1>4. ASSUME NEW h \in Handlers, CommitCredit(h)
      PROVE  Cardinality(RowsOf(r, "subscription_gift_credit")') <= 1
  BY <1>1, <1>4, CommitCreditRows DEF PaidInv
<1>5. CASE UNCHANGED ledger
  BY <1>1, <1>5 DEF RowsOf
<1> QED
  BY <1>2, <1>3, <1>4, <1>5, StepKinds DEF Quiet, PaidInv, CommitReview, CommitRejection

LEMMA PaidInductive == Spec => []PaidInv
<1>1. PaidInv /\ [Next]_paymentVars => PaidInv'
  BY NextType, NextGrantSeen, NextApprovedIsPaid, NextGrantedOnce DEF PaidInv
<1> QED
  BY InitPaid, <1>1, PTL DEF Spec

(* payment_routes.py: a request whose status is approved has been paid     *)
(* out, wherever the two commits of a subscription's approval are cut.     *)
THEOREM ApprovedPaid == Spec => []ApprovedIsPaid
<1>1. PaidInv => ApprovedIsPaid
  BY DEF PaidInv
<1> QED
  BY PaidInductive, <1>1, PTL

(* toman_billing_service.py: the purchase keyed by the request is granted  *)
(* at most once, however often the approval is repeated.                   *)
THEOREM GrantOnce == Spec => []GrantedOnce
<1>1. PaidInv => GrantedOnce
  BY DEF PaidInv
<1> QED
  BY PaidInductive, <1>1, PTL

-----------------------------------------------------------------------------
(* The ledger and the audit trail agree on how often a top-up was paid.    *)

LEMMA OneMore ==
    ASSUME NEW n \in Nat, NEW S \in SUBSET (1 .. n)
    PROVE  Cardinality(S) \in Nat /\ Cardinality(S \cup {n + 1}) = Cardinality(S) + 1
<1>1. IsFiniteSet(1 .. n)
  BY FS_Interval
<1>2. IsFiniteSet(S)
  BY <1>1, FS_Subset
<1>3. n + 1 \notin S
  OBVIOUS
<1> QED
  BY <1>2, <1>3, FS_CardinalityType, FS_AddElement

LEMMA NextCreditsMatch ==
    ASSUME TypeInv, CreditsMatchApprovals, [Next]_paymentVars
    PROVE  CreditsMatchApprovals'
<1> SUFFICES ASSUME NEW r \in Requests, IsTopup(r)
             PROVE  Cardinality(RowsOf(r, "manual_payment")') = Cardinality(ApprovalsOf(r)')
  BY DEF CreditsMatchApprovals
<1> DEFINE rows == RowsOf(r, "manual_payment")
           approvals == ApprovalsOf(r)
<1>1. Cardinality(rows) = Cardinality(approvals)
  BY DEF CreditsMatchApprovals
<1>2. CASE rows' = rows /\ approvals' = approvals
  BY <1>1, <1>2
<1>3. ASSUME NEW h \in Handlers, CommitCredit(h), r = handler[h].request
      PROVE  Cardinality(rows') = Cardinality(approvals')
  <2>1. rows' = rows \cup {Len(ledger) + 1}
    BY <1>3, CommitCreditRows
  <2>2. approvals' = approvals \cup {Len(reviews) + 1}
    BY <1>3, DecideReviews DEF CommitCredit
  <2>3. /\ Len(ledger) \in Nat /\ rows \subseteq 1 .. Len(ledger)
        /\ Len(reviews) \in Nat /\ approvals \subseteq 1 .. Len(reviews)
    BY FiniteRows, FiniteReviews DEF TypeInv, TypeOK
  <2> HIDE DEF rows, approvals
  <2>4. /\ Cardinality(rows \cup {Len(ledger) + 1}) = Cardinality(rows) + 1
        /\ Cardinality(approvals \cup {Len(reviews) + 1}) = Cardinality(approvals) + 1
    BY <2>3, OneMore
  <2> QED
    BY <1>1, <2>1, <2>2, <2>4
<1>4. ASSUME NEW h \in Handlers, CommitCredit(h), r # handler[h].request
      PROVE  rows' = rows /\ approvals' = approvals
  <2>1. handler[h].request \in Requests
    BY <1>4 DEF CommitCredit, Reading, TypeInv, HandlersServe
  <2> QED
    BY <1>4, <2>1, CommitCreditRows, DecideReviews DEF CommitCredit
<1>5. ASSUME NEW h \in Handlers, CommitReview(h)
      PROVE  rows' = rows /\ approvals' = approvals
  <2>1. handler[h].request \in Requests /\ r # handler[h].request
    BY <1>5 DEF CommitReview, Reading, TypeInv, HandlersServe
  <2> QED
    BY <1>5, <2>1, DecideReviews DEF CommitReview, RowsOf
<1>6. ASSUME NEW h \in Handlers, CommitRejection(h)
      PROVE  rows' = rows /\ approvals' = approvals
  <2>1. handler[h].request \in Requests
    BY <1>6 DEF CommitRejection, Reading, TypeInv, HandlersServe
  <2> QED
    BY <1>6, <2>1, DecideReviews DEF CommitRejection, RowsOf
<1>7. ASSUME NEW h \in Handlers, CommitPurchase(h)
      PROVE  rows' = rows /\ approvals' = approvals
  BY <1>7, CommitPurchaseRows DEF CommitPurchase, ApprovalsOf, ReviewsOf
<1>8. ASSUME Quiet
      PROVE  rows' = rows /\ approvals' = approvals
  BY <1>8 DEF Quiet, RowsOf, ApprovalsOf, ReviewsOf
<1> QED
  BY <1>2, <1>3, <1>4, <1>5, <1>6, <1>7, <1>8, StepKinds

(* payment_routes.py writes the credit, its ledger row and the review in   *)
(* one commit, so a top-up is credited once for each recorded approval.    *)
THEOREM CreditsMatch == Spec => []CreditsMatchApprovals
<1>1. Init => CreditsMatchApprovals
  <2>1. Init => \A r \in Requests : RowsOf(r, "manual_payment") = {} /\ ApprovalsOf(r) = {}
    BY DEF Init, RowsOf, ApprovalsOf, ReviewsOf
  <2> QED
    BY <2>1 DEF CreditsMatchApprovals
<1>2. TypeInv /\ CreditsMatchApprovals /\ [Next]_paymentVars => CreditsMatchApprovals'
  BY NextCreditsMatch
<1>3. TypeInv /\ [Next]_paymentVars => TypeInv'
  BY NextType
<1> QED
  BY InitType, <1>1, <1>2, <1>3, PTL DEF Spec

-----------------------------------------------------------------------------
(* A decided request has left the pending state for good, so only handlers *)
(* that had read it before can still review it: the reviews made and the   *)
(* handlers still open on a request never outnumber the handlers.          *)

OpenOn(r) == {h \in Handlers : ~Reading(h, "idle") /\ handler[h].request = r}

Undecided(r) == status[r] \in {"none", "pending"}

ReviewsLeft ==
    \A r \in Requests :
        /\ Undecided(r) => ReviewsOf(r) = {}
        /\ Cardinality(ReviewsOf(r)) + Cardinality(OpenOn(r)) <= Cardinality(Handlers)

LEMMA OpenHandlers ==
    ASSUME NEW S \in SUBSET Handlers
    PROVE  /\ Cardinality(S) \in Nat /\ Cardinality(S) <= Cardinality(Handlers)
           /\ \A T \in SUBSET S : Cardinality(T) <= Cardinality(S)
           /\ \A h \in S : Cardinality(S \ {h}) = Cardinality(S) - 1
<1>1. IsFiniteSet(S) /\ Cardinality(S) <= Cardinality(Handlers)
  BY HandlersAssumption, FS_Subset
<1> QED
  BY <1>1, FS_CardinalityType, FS_Subset, FS_RemoveElement

(* A step that opens no handler on a request leaves no more of them open.  *)
LEMMA OpenOnShrinks ==
    ASSUME TypeInv, [Next]_paymentVars, NEW r \in Requests,
           ~ \E h \in Handlers : BeginApproval(h, r) \/ BeginRejection(h, r)
    PROVE  OpenOn(r)' \subseteq OpenOn(r)
<1> SUFFICES ASSUME NEW h \in Handlers, handler'[h].pc # "idle", handler'[h].request = r
             PROVE  handler[h].pc # "idle" /\ handler[h].request = r
  BY DEF OpenOn, Reading
<1> USE DEF TypeInv, TypeOK
<1>1. ASSUME NEW g \in Handlers, Close(g)
      PROVE  handler'[h] = handler[h]
  BY <1>1 DEF Close, Idle
<1>2. ASSUME NEW g \in Handlers, NEW pc, NEW row, ~Reading(g, "idle"), Step(g, pc, row)
      PROVE  handler[h].pc # "idle" /\ handler[h].request = r
  BY <1>2 DEF Step, Reading, HandlerState
<1>3. ASSUME NEW g \in Handlers, NEW x \in Requests, BeginApproval(g, x) \/ BeginRejection(g, x)
      PROVE  handler'[h] = handler[h]
  <2>1. x # r
    BY <1>3
  <2>2. handler'[g].request = x
    BY <1>3 DEF BeginApproval, BeginRejection, ReadRequest, HandlerState
  <2>3. g # h
    BY <2>1, <2>2
  <2> QED
    BY <1>3, <2>3 DEF BeginApproval, BeginRejection, ReadRequest
<1>4. ASSUME NEW g \in Handlers, Advance(g)
      PROVE  handler[h].pc # "idle" /\ handler[h].request = r
  <2>1. CASE ReadAccount(g)
    BY <1>2, <2>1 DEF ReadAccount, Reading
  <2>2. CASE ReadPurchase(g)
    BY <1>1, <1>2, <2>2 DEF ReadPurchase, Reading
  <2>3. CASE CommitPurchase(g)
    BY <1>2, <2>3 DEF CommitPurchase, Reading
  <2>4. CASE CommitCredit(g) \/ CommitReview(g) \/ CommitRejection(g) \/ Abandon(g)
    BY <1>1, <2>4 DEF CommitCredit, CommitReview, CommitRejection, Abandon
  <2> QED
    BY <1>4, <2>1, <2>2, <2>3, <2>4 DEF Advance
<1>5. CASE UNCHANGED handler
  BY <1>5
<1> QED
  BY <1>3, <1>4, <1>5 DEF Next, CreateRequest, AnswerReviewed, ExpireSubscription, paymentVars

LEMMA NextReviewsLeft ==
    ASSUME TypeInv, ReviewsLeft, [Next]_paymentVars
    PROVE  ReviewsLeft'
<1> SUFFICES ASSUME NEW r \in Requests
             PROVE  /\ Undecided(r)' => ReviewsOf(r)' = {}
                    /\ Cardinality(ReviewsOf(r)') + Cardinality(OpenOn(r)') <= Cardinality(Handlers)
  BY DEF ReviewsLeft
<1> DEFINE before == ReviewsOf(r)
           after == ReviewsOf(r)'
           open == OpenOn(r)
           stillOpen == OpenOn(r)'
<1>1. /\ Undecided(r) => before = {}
      /\ Cardinality(before) + Cardinality(open) <= Cardinality(Handlers)
  BY DEF ReviewsLeft
<1>2. /\ open \subseteq Handlers /\ stillOpen \subseteq Handlers
      /\ Len(reviews) \in Nat /\ before \subseteq 1 .. Len(reviews)
  BY FiniteReviews DEF OpenOn, TypeInv, TypeOK
<1>3. Cardinality({}) = 0
  BY FS_EmptySet
(* A review that is committed closes its handler.                          *)
<1>4. ASSUME NEW h \in Handlers, NEW decision \in {"approve", "reject"},
             Decide(handler[h].request, decision), Close(h),
             ~Reading(h, "idle"), r = handler[h].request
      PROVE  ~Undecided(r)' /\ Cardinality(after) + Cardinality(stillOpen) <= Cardinality(Handlers)
  <2>1. ~Undecided(r)'
    BY <1>4 DEF Undecided, Decide, TypeInv, TypeOK
  <2>2. after = before \cup {Len(reviews) + 1}
    BY <1>4, DecideReviews
  <2>3. h \in open /\ stillOpen = open \ {h}
    BY <1>4 DEF OpenOn, Close, Idle, Reading, TypeInv, TypeOK
  <2> HIDE DEF before, after, open, stillOpen
  <2>4. /\ Cardinality(before) \in Nat
        /\ Cardinality(before \cup {Len(reviews) + 1}) = Cardinality(before) + 1
    BY <1>2, OneMore
  <2>5. /\ Cardinality(open) \in Nat
        /\ Cardinality(open \ {h}) = Cardinality(open) - 1
    BY <1>2, <2>3, OpenHandlers
  <2>6. Cardinality(Handlers) \in Nat
    BY OpenHandlers
  <2> QED
    BY <1>1, <2>1, <2>2, <2>3, <2>4, <2>5, <2>6
<1>5. ASSUME after = before, Undecided(r)' => Undecided(r), stillOpen \subseteq open
      PROVE  /\ Undecided(r)' => after = {}
             /\ Cardinality(after) + Cardinality(stillOpen) <= Cardinality(Handlers)
  <2> HIDE DEF before, after, open, stillOpen
  <2>1. /\ Cardinality(before) \in Nat /\ Cardinality(open) \in Nat
        /\ Cardinality(stillOpen) \in Nat /\ Cardinality(stillOpen) <= Cardinality(open)
        /\ Cardinality(Handlers) \in Nat
    BY <1>2, <1>5, OneMore, OpenHandlers
  <2> QED
    BY <1>1, <1>5, <2>1
<1>6. ASSUME NEW h \in Handlers, BeginApproval(h, r) \/ BeginRejection(h, r)
      PROVE  /\ Undecided(r)' => after = {}
             /\ Cardinality(after) + Cardinality(stillOpen) <= Cardinality(Handlers)
  <2>1. after = before /\ Undecided(r)
    BY <1>6 DEF BeginApproval, BeginRejection, ReadRequest, Reviewable, Undecided, ReviewsOf
  <2> HIDE DEF before, after, open, stillOpen
  <2>2. after = {} /\ Cardinality(stillOpen) \in Nat
        /\ Cardinality(stillOpen) <= Cardinality(Handlers)
    BY <1>1, <1>2, <2>1, OpenHandlers
  <2> QED
    BY <1>3, <2>2
<1>7. CASE ~ \E h \in Handlers : BeginApproval(h, r) \/ BeginRejection(h, r)
  <2>1. stillOpen \subseteq open
    BY <1>7, OpenOnShrinks
  <2>2. ASSUME NEW h \in Handlers, NEW decision \in {"approve", "reject"},
               Decide(handler[h].request, decision), Close(h), ~Reading(h, "idle")
        PROVE  /\ Undecided(r)' => after = {}
               /\ Cardinality(after) + Cardinality(stillOpen) <= Cardinality(Handlers)
    <3>1. CASE r = handler[h].request
      BY <1>4, <2>2, <3>1
    <3>2. CASE r # handler[h].request
      <4>1. handler[h].request \in Requests
        BY <2>2 DEF TypeInv, HandlersServe
      <4>2. after = before
        BY <2>2, <3>2, <4>1, DecideReviews
      <4>3. Undecided(r)' => Undecided(r)
        BY <2>2, <3>2 DEF Decide, Undecided, TypeInv, TypeOK
      <4> QED
        BY <1>5, <2>1, <4>2, <4>3
    <3> QED
      BY <3>1, <3>2
  <2>3. ASSUME UNCHANGED reviews, Undecided(r)' => Undecided(r)
        PROVE  /\ Undecided(r)' => after = {}
               /\ Cardinality(after) + Cardinality(stillOpen) <= Cardinality(Handlers)
    <3>1. after = before
      BY <2>3 DEF ReviewsOf
    <3> QED
      BY <1>5, <2>1, <2>3, <3>1
  <2>4. ASSUME NEW x \in Requests, CreateRequest(x)
        PROVE  UNCHANGED reviews /\ (Undecided(r)' => Undecided(r))
    BY <2>4 DEF CreateRequest, Undecided, TypeInv, TypeOK
  <2>5. ASSUME NEW h \in Handlers, Advance(h)
        PROVE  /\ Undecided(r)' => after = {}
               /\ Cardinality(after) + Cardinality(stillOpen) <= Cardinality(Handlers)
    <3>1. CASE CommitCredit(h) \/ CommitReview(h) \/ CommitRejection(h)
      BY <2>2, <3>1 DEF CommitCredit, CommitReview, CommitRejection, Reading
    <3>2. CASE ReadAccount(h) \/ ReadPurchase(h) \/ CommitPurchase(h) \/ Abandon(h)
      BY <2>3, <3>2 DEF ReadAccount, ReadPurchase, CommitPurchase, Abandon, Undecided
    <3> QED
      BY <2>5, <3>1, <3>2 DEF Advance
  <2>6. ASSUME UNCHANGED <<status, reviews>>
        PROVE  /\ Undecided(r)' => after = {}
               /\ Cardinality(after) + Cardinality(stillOpen) <= Cardinality(Handlers)
    BY <2>3, <2>6 DEF Undecided
  <2> QED
    BY <2>3, <2>4, <2>5, <2>6
       DEF Next, AnswerReviewed, BeginApproval, BeginRejection, ReadRequest,
           ExpireSubscription, paymentVars
<1> QED
  BY <1>6, <1>7

(* payment_routes.py: the pending check stops every review but those that  *)
(* were in progress together.                                              *)
THEOREM ReviewsBound == Spec => []ReviewsBounded
<1>1. Init => ReviewsLeft
  <2> SUFFICES ASSUME Init, NEW r \in Requests
               PROVE  ReviewsOf(r) = {} /\ Cardinality(ReviewsOf(r)) + Cardinality(OpenOn(r)) <= Cardinality(Handlers)
    BY DEF ReviewsLeft
  <2>1. ReviewsOf(r) = {} /\ OpenOn(r) = {}
    BY DEF Init, ReviewsOf, OpenOn, Reading, Idle
  <2> QED
    BY <2>1, OpenHandlers, FS_EmptySet
<1>2. TypeInv /\ ReviewsLeft /\ [Next]_paymentVars => ReviewsLeft'
  BY NextReviewsLeft
<1>3. TypeInv /\ [Next]_paymentVars => TypeInv'
  BY NextType
<1>4. TypeInv /\ ReviewsLeft => ReviewsBounded
  <2> SUFFICES ASSUME TypeInv, ReviewsLeft, NEW r \in Requests
               PROVE  Cardinality(ReviewsOf(r)) <= Cardinality(Handlers)
    BY DEF ReviewsBounded
  <2>1. Cardinality(ReviewsOf(r)) + Cardinality(OpenOn(r)) <= Cardinality(Handlers)
    BY DEF ReviewsLeft
  <2>2. /\ IsFiniteSet(ReviewsOf(r)) /\ OpenOn(r) \subseteq Handlers
    BY FiniteReviews DEF TypeInv, OpenOn
  <2>3. /\ Cardinality(ReviewsOf(r)) \in Nat /\ Cardinality(OpenOn(r)) \in Nat
        /\ Cardinality(Handlers) \in Nat
    BY <2>2, FS_CardinalityType, OpenHandlers
  <2> QED
    BY <2>1, <2>3
<1> QED
  BY InitType, <1>1, <1>2, <1>3, <1>4, PTL DEF Spec

-----------------------------------------------------------------------------
(* Sums.  Induction on the naturals, as a fact about sets of naturals.     *)

LEMMA SetInduction ==
    ASSUME NEW S \in SUBSET Nat, 0 \in S, \A n \in S : n + 1 \in S
    PROVE  S = Nat
<1> DEFINE R == {ss \in Nat \X Nat : ss[1] < ss[2]}
           T == Nat \ S
<1>1. IsWellFoundedOn(R, Nat)
  BY NatLessThanWellFounded, Zenon DEF OpToRel
<1>2. ASSUME T # {}
      PROVE  FALSE
  <2>1. T \subseteq Nat
    OBVIOUS
  <2> HIDE DEF R, T
  <2>2. PICK x \in T : \A y \in T : ~(<<y, x>> \in R)
    BY <1>1, <1>2, <2>1, WFMin
  <2> USE DEF R, T
  <2>3. x \in Nat /\ x # 0
    OBVIOUS
  <2>4. x - 1 \in Nat /\ (x - 1) + 1 = x
    BY <2>3
  <2>5. x - 1 \in T
    BY <2>4
  <2>6. <<x - 1, x>> \in R
    BY <2>3, <2>4
  <2> QED
    BY <2>2, <2>5, <2>6
<1> QED
  BY <1>2

(* The recursive function that Total chooses.                              *)
IsSum(sum, deltas, n) ==
    sum = [i \in 0 .. n |-> IF i = 0 THEN 0 ELSE sum[i - 1] + deltas[i]]

LEMMA SumExists ==
    ASSUME NEW deltas, NEW n \in Nat
    PROVE  \E sum : IsSum(sum, deltas, n)
<1> DEFINE S == {m \in Nat : \E sum : IsSum(sum, deltas, m)}
<1>1. 0 \in S
  <2>1. IsSum([i \in 0 .. 0 |-> 0], deltas, 0)
    BY DEF IsSum
  <2> QED
    BY <2>1
<1>2. ASSUME NEW m \in S
      PROVE  m + 1 \in S
  <2>1. PICK f : IsSum(f, deltas, m)
    OBVIOUS
  <2> DEFINE g == [i \in 0 .. m + 1 |-> IF i = m + 1 THEN f[m] + deltas[m + 1]
                                                     ELSE f[i]]
  <2>2. ASSUME NEW i \in 0 .. m + 1
        PROVE  g[i] = IF i = 0 THEN 0 ELSE g[i - 1] + deltas[i]
    <3>1. CASE i = m + 1
      BY <3>1
    <3>2. CASE i \in 0 .. m
      BY <2>1, <3>2 DEF IsSum
    <3> QED
      BY <3>1, <3>2
  <2>3. IsSum(g, deltas, m + 1)
    <3>1. g = [i \in 0 .. m + 1 |-> g[i]]
      OBVIOUS
    <3> HIDE DEF g
    <3> QED
      BY <2>2, <3>1 DEF IsSum
  <2> QED
    BY <2>3
<1> HIDE DEF S
<1>3. S = Nat
  <2>1. S \in SUBSET Nat
    BY DEF S
  <2> QED
    BY <1>1, <1>2, <2>1, SetInduction
<1> QED
  BY <1>3 DEF S

LEMMA SumsAgree ==
    ASSUME NEW f, NEW g, NEW d, NEW e, NEW m \in Nat, NEW n \in Nat, NEW k \in Nat,
           k <= m, k <= n, IsSum(f, d, m), IsSum(g, e, n),
           \A i \in 1 .. k : d[i] = e[i]
    PROVE  f[k] = g[k]
<1> DEFINE S == {j \in Nat : j <= k => f[j] = g[j]}
<1>1. 0 \in S
  <2>1. f[0] = 0 /\ g[0] = 0
    BY DEF IsSum
  <2> QED
    BY <2>1
<1>2. ASSUME NEW j \in S
      PROVE  j + 1 \in S
  <2>1. CASE j + 1 <= k
    <3>1. f[j] = g[j] /\ d[j + 1] = e[j + 1]
      BY <2>1
    <3>2. j + 1 \in 0 .. m /\ j + 1 \in 0 .. n /\ j + 1 # 0 /\ (j + 1) - 1 = j
      BY <2>1
    <3>3. f[j + 1] = f[j] + d[j + 1] /\ g[j + 1] = g[j] + e[j + 1]
      BY <3>2 DEF IsSum
    <3> QED
      BY <3>1, <3>3
  <2>2. CASE ~(j + 1 <= k)
    BY <2>2
  <2> QED
    BY <2>1, <2>2
<1> HIDE DEF S
<1>3. S = Nat
  <2>1. S \in SUBSET Nat
    BY DEF S
  <2> QED
    BY <1>1, <1>2, <2>1, SetInduction
<1> QED
  BY <1>3 DEF S

LEMMA TotalIsSum ==
    ASSUME NEW deltas, NEW n \in Nat
    PROVE  \E sum : IsSum(sum, deltas, n) /\ Total(deltas, n) = sum[n]
<1> DEFINE sum == CHOOSE f : IsSum(f, deltas, n)
<1>1. IsSum(sum, deltas, n)
  BY SumExists
<1>2. Total(deltas, n) = sum[n]
  BY Zenon DEF Total, IsSum
<1> QED
  BY <1>1, <1>2

(* The empty sum, and one term more.                                       *)
LEMMA TotalZero ==
    ASSUME NEW deltas
    PROVE  Total(deltas, 0) = 0
<1>1. PICK f : IsSum(f, deltas, 0) /\ Total(deltas, 0) = f[0]
  BY TotalIsSum
<1> QED
  BY <1>1 DEF IsSum

LEMMA TotalStep ==
    ASSUME NEW d, NEW e, NEW n \in Nat, \A i \in 1 .. n : d[i] = e[i]
    PROVE  Total(d, n + 1) = Total(e, n) + d[n + 1]
<1>1. PICK f : IsSum(f, d, n + 1) /\ Total(d, n + 1) = f[n + 1]
  BY TotalIsSum
<1>2. PICK g : IsSum(g, e, n) /\ Total(e, n) = g[n]
  BY TotalIsSum
<1>3. f[n] = g[n]
  BY <1>1, <1>2, SumsAgree
<1>4. f[n + 1] = f[n] + d[n + 1]
  BY <1>1 DEF IsSum
<1> QED
  BY <1>1, <1>2, <1>3, <1>4

LEMMA TotalType ==
    ASSUME NEW d, NEW n \in Nat, \A i \in 1 .. n : d[i] \in Int
    PROVE  Total(d, n) \in Int
<1>1. PICK f : IsSum(f, d, n) /\ Total(d, n) = f[n]
  BY TotalIsSum
<1> DEFINE S == {j \in Nat : j <= n => f[j] \in Int}
<1>2. 0 \in S
  BY <1>1 DEF IsSum
<1>3. ASSUME NEW j \in S
      PROVE  j + 1 \in S
  <2>1. CASE j + 1 <= n
    <3>1. f[j] \in Int /\ d[j + 1] \in Int
      BY <2>1
    <3>2. j + 1 \in 0 .. n /\ j + 1 # 0 /\ (j + 1) - 1 = j
      BY <2>1
    <3>3. f[j + 1] = f[j] + d[j + 1]
      BY <1>1, <3>2 DEF IsSum
    <3> QED
      BY <3>1, <3>3
  <2>2. CASE ~(j + 1 <= n)
    BY <2>2
  <2> QED
    BY <2>1, <2>2
<1> HIDE DEF S
<1>4. S = Nat
  <2>1. S \in SUBSET Nat
    BY DEF S
  <2> QED
    BY <1>2, <1>3, <2>1, SetInduction
<1> QED
  BY <1>1, <1>4 DEF S

(* What a row adds to the sums of a user.                                  *)
GiftOf(e, u) == IF User(e.request) = u THEN e.giftDelta ELSE 0
PaidOf(e, u) == IF User(e.request) = u THEN e.paidDelta ELSE 0

LEMMA SumsOfAppend ==
    ASSUME NEW rows \in Seq(LedgerRow), NEW e \in LedgerRow, NEW u
    PROVE  /\ GiftPosted(Append(rows, e), u) = GiftPosted(rows, u) + GiftOf(e, u)
           /\ PaidPosted(Append(rows, e), u) = PaidPosted(rows, u) + PaidOf(e, u)
           /\ GiftPosted(rows, u) \in Int /\ PaidPosted(rows, u) \in Int
           /\ GiftOf(e, u) \in Int /\ PaidOf(e, u) \in Int
<1> DEFINE n == Len(rows)
           more == Append(rows, e)
           g == [i \in DOMAIN rows |-> GiftOf(rows[i], u)]
           p == [i \in DOMAIN rows |-> PaidOf(rows[i], u)]
           gg == [i \in DOMAIN more |-> GiftOf(more[i], u)]
           pp == [i \in DOMAIN more |-> PaidOf(more[i], u)]
<1>1. /\ n \in Nat /\ DOMAIN rows = 1 .. n /\ DOMAIN more = 1 .. n + 1
      /\ \A i \in 1 .. n : more[i] = rows[i]
      /\ more[n + 1] = e /\ Len(more) = n + 1
  OBVIOUS
<1>2. \A x \in LedgerRow : GiftOf(x, u) \in Int /\ PaidOf(x, u) \in Int
  BY DEF LedgerRow, GiftOf, PaidOf
<1>3. /\ GiftPosted(rows, u) = Total(g, n) /\ PaidPosted(rows, u) = Total(p, n)
      /\ GiftPosted(more, u) = Total(gg, n + 1) /\ PaidPosted(more, u) = Total(pp, n + 1)
  BY <1>1 DEF GiftPosted, PaidPosted, GiftOf, PaidOf
<1> HIDE DEF more
<1>4. /\ \A i \in 1 .. n : gg[i] = g[i] /\ pp[i] = p[i]
      /\ gg[n + 1] = GiftOf(e, u) /\ pp[n + 1] = PaidOf(e, u)
  BY <1>1
<1>5. \A i \in 1 .. n : g[i] \in Int /\ p[i] \in Int
  BY <1>1, <1>2
<1> HIDE DEF n, g, p, gg, pp
<1>6. /\ Total(gg, n + 1) = Total(g, n) + gg[n + 1]
      /\ Total(pp, n + 1) = Total(p, n) + pp[n + 1]
  BY <1>1, <1>4, TotalStep
<1>7. Total(g, n) \in Int /\ Total(p, n) \in Int
  BY <1>1, <1>5, TotalType
<1> QED
  BY <1>2, <1>3, <1>4, <1>6, <1>7 DEF more

-----------------------------------------------------------------------------
(* No credit is made.  A handler may hold a row that others have changed   *)
(* since; what it has loaded was explained by the ledger when it read it,  *)
(* and rows are only added, with deltas that are not negative.             *)
Explained ==
    \A h \in Handlers :
        LET u == User(handler[h].request)
        IN  /\ Reading(h, "crediting") => handler[h].row.paid <= PaidPosted(ledger, u)
            /\ Reading(h, "purchasing") =>
                  handler[h].row.gift <= OpeningGift[u] + GiftPosted(ledger, u)

OInv == Explained /\ NeverOvercredited

LEMMA SumTypes ==
    ASSUME TypeInv
    PROVE  /\ \A u : GiftPosted(ledger, u) \in Int /\ PaidPosted(ledger, u) \in Int
           /\ \A u \in Users : /\ account[u] \in Balances
                               /\ account[u].gift \in Int /\ account[u].paid \in Int
                               /\ OpeningGift[u] \in Int
           /\ \A h \in Handlers : /\ handler[h] \in HandlerState
                                  /\ handler[h].row \in Balances
                                  /\ handler[h].row.gift \in Int /\ handler[h].row.paid \in Int
           /\ \A h \in Handlers :
                 ~Reading(h, "idle") => /\ handler[h].request \in Requests
                                        /\ User(handler[h].request) \in Users
                                        /\ Amount(handler[h].request) \in Nat
<1>1. \A u : GiftPosted(ledger, u) \in Int /\ PaidPosted(ledger, u) \in Int
  <2>1. ledger \in Seq(LedgerRow)
    BY DEF TypeInv, TypeOK
  <2>2. CASE Requests = {}
    <3>1. LedgerRow = {}
      BY <2>2 DEF LedgerRow
    <3>2. ledger = <<>>
      BY <2>1, <3>1
    <3>3. \A u : GiftPosted(ledger, u) = 0 /\ PaidPosted(ledger, u) = 0
      BY <3>2, TotalZero DEF GiftPosted, PaidPosted
    <3> QED
      BY <3>3
  <2>3. ASSUME NEW r \in Requests
        PROVE  \A u : GiftPosted(ledger, u) \in Int /\ PaidPosted(ledger, u) \in Int
    <3>1. \E e : e \in LedgerRow
      <4>1. [request |-> r, kind |-> "manual_payment", giftDelta |-> 0, paidDelta |-> 0,
             giftAfter |-> 0, paidAfter |-> 0] \in LedgerRow
        BY DEF LedgerRow
      <4> QED
        BY <4>1
    <3> QED
      BY <2>1, <3>1, SumsOfAppend
  <2> QED
    BY <2>2, <2>3
<1>2. \A u \in Users : /\ account[u] \in Balances
                       /\ account[u].gift \in Int /\ account[u].paid \in Int
                       /\ OpeningGift[u] \in Int
  BY OpeningGiftAssumption DEF TypeInv, TypeOK, Balances
<1>3. \A h \in Handlers : /\ handler[h] \in HandlerState
                          /\ handler[h].row \in Balances
                          /\ handler[h].row.gift \in Int /\ handler[h].row.paid \in Int
  BY DEF TypeInv, TypeOK, HandlerState, Balances
<1>4. \A h \in Handlers :
         ~Reading(h, "idle") => /\ handler[h].request \in Requests
                                /\ User(handler[h].request) \in Users
                                /\ Amount(handler[h].request) \in Nat
  BY AskedFacts DEF TypeInv, HandlersServe
<1> QED
  BY <1>1, <1>2, <1>3, <1>4

(* What a handler holds stays explained while the sums do not fall.        *)
LEMMA ExplainedStays ==
    ASSUME TypeInv, OInv, NEW h \in Handlers,
           \A u \in Users : /\ GiftPosted(ledger', u) \in Int /\ PaidPosted(ledger', u) \in Int
                            /\ GiftPosted(ledger', u) >= GiftPosted(ledger, u)
                            /\ PaidPosted(ledger', u) >= PaidPosted(ledger, u),
           \A o \in Handlers \ {h} : handler'[o] = handler[o],
           handler'[h].pc \notin {"crediting", "purchasing"}
    PROVE  Explained'
<1> SUFFICES ASSUME NEW o \in Handlers,
                    handler'[o].pc \in {"crediting", "purchasing"}
             PROVE  LET u == User(handler'[o].request)
                    IN  /\ handler'[o].pc = "crediting" =>
                              handler'[o].row.paid <= PaidPosted(ledger', u)
                        /\ handler'[o].pc = "purchasing" =>
                              handler'[o].row.gift <= OpeningGift[u] + GiftPosted(ledger', u)
  BY DEF Explained, Reading, User
<1>1. o # h /\ handler'[o] = handler[o]
  OBVIOUS
<1>2. PICK u \in Users : u = User(handler[o].request)
  BY <1>1, SumTypes DEF Reading
<1>3. /\ handler[o].pc = "crediting" => handler[o].row.paid <= PaidPosted(ledger, u)
      /\ handler[o].pc = "purchasing" =>
            handler[o].row.gift <= OpeningGift[u] + GiftPosted(ledger, u)
  BY <1>2 DEF OInv, Explained, Reading
<1> QED
  BY <1>1, <1>2, <1>3, SumTypes

(* What a commit does to an account and to the sums.                       *)
LEMMA CreditMoves ==
    ASSUME TypeInv, NEW h \in Handlers, CommitCredit(h), NEW r, NEW loaded, NEW after, NEW c,
           r = handler[h].request, loaded = handler[h].row, after = Credited(loaded, r),
           c = Flush(account[User(r)], loaded, after)
    PROVE  /\ r \in Requests /\ User(r) \in Users /\ Amount(r) \in Nat /\ loaded \in Balances
           /\ loaded.gift \in Int /\ loaded.paid \in Int
           /\ after \in Balances /\ after.gift = loaded.gift /\ after.paid = loaded.paid + Amount(r)
           /\ c.gift = account[User(r)].gift
           /\ (c.paid = account[User(r)].paid \/ c.paid = after.paid)
           /\ account' = [account EXCEPT ![User(r)] = c] /\ account \in [Users -> Balances]
           /\ \A u : /\ GiftPosted(ledger', u) = GiftPosted(ledger, u)
                     /\ PaidPosted(ledger', u) = PaidPosted(ledger, u)
                                                  + (IF u = User(r) THEN Amount(r) ELSE 0)
<1>1. /\ r \in Requests /\ User(r) \in Users /\ Amount(r) \in Nat /\ loaded \in Balances
      /\ loaded.gift \in Int /\ loaded.paid \in Int
      /\ after \in Balances /\ after.gift = loaded.gift /\ after.paid = loaded.paid + Amount(r)
  <2>1. r \in Requests /\ User(r) \in Users /\ Amount(r) \in Nat /\ loaded \in Balances
    BY SumTypes DEF CommitCredit, Reading
  <2>2. loaded.gift \in Int /\ loaded.paid \in Int
    BY <2>1 DEF Balances
  <2>3. after \in Balances
    BY <2>1, CreditedType
  <2>4. after.gift = loaded.gift /\ after.paid = loaded.paid + Amount(r)
    BY <2>1 DEF Credited, Balances
  <2> QED
    BY <2>1, <2>2, <2>3, <2>4
<1>2. PICK e : e = ManualRow(r, after)
  OBVIOUS
<1>3. e \in LedgerRow /\ e.request = r /\ e.giftDelta = 0 /\ e.paidDelta = Amount(r)
  <2>1. e \in LedgerRow
    BY <1>1, <1>2, RowTypes
  <2> QED
    BY <1>2, <2>1 DEF ManualRow
<1>4. ledger' = Append(ledger, e) /\ ledger \in Seq(LedgerRow)
  BY <1>2 DEF CommitCredit, TypeInv, TypeOK
<1>5. \A u : /\ GiftPosted(ledger', u) = GiftPosted(ledger, u)
             /\ PaidPosted(ledger', u) = PaidPosted(ledger, u)
                                          + (IF u = User(r) THEN Amount(r) ELSE 0)
  <2> SUFFICES ASSUME NEW u
               PROVE  /\ GiftPosted(ledger', u) = GiftPosted(ledger, u)
                      /\ PaidPosted(ledger', u) = PaidPosted(ledger, u)
                                                   + (IF u = User(r) THEN Amount(r) ELSE 0)
    OBVIOUS
  <2>1. /\ GiftPosted(ledger', u) = GiftPosted(ledger, u) + GiftOf(e, u)
        /\ PaidPosted(ledger', u) = PaidPosted(ledger, u) + PaidOf(e, u)
        /\ GiftPosted(ledger, u) \in Int
    BY <1>3, <1>4, SumsOfAppend
  <2>2. GiftOf(e, u) = 0 /\ PaidOf(e, u) = IF u = User(r) THEN Amount(r) ELSE 0
    BY <1>3 DEF GiftOf, PaidOf
  <2> QED
    BY <2>1, <2>2
<1>6. c.gift = account[User(r)].gift /\ (c.paid = account[User(r)].paid \/ c.paid = after.paid)
  BY <1>1 DEF Flush
<1>7. account' = [account EXCEPT ![User(r)] = c] /\ account \in [Users -> Balances]
  BY DEF CommitCredit, TypeInv, TypeOK
<1> QED
  BY <1>1, <1>5, <1>6, <1>7

LEMMA PurchaseMoves ==
    ASSUME TypeInv, NEW h \in Handlers, CommitPurchase(h), NEW r, NEW loaded, NEW after, NEW c,
           r = handler[h].request, loaded = handler[h].row, after = Gifted(loaded, r),
           c = Flush(account[User(r)], loaded, after)
    PROVE  /\ r \in Requests /\ User(r) \in Users /\ Amount(r) \in Nat /\ loaded \in Balances
           /\ loaded.gift \in Int /\ loaded.paid \in Int
           /\ after \in Balances /\ after.paid = loaded.paid /\ after.gift = loaded.gift + Amount(r)
           /\ c.paid = account[User(r)].paid
           /\ (c.gift = account[User(r)].gift \/ c.gift = after.gift)
           /\ account' = [account EXCEPT ![User(r)] = c] /\ account \in [Users -> Balances]
           /\ \A u : /\ PaidPosted(ledger', u) = PaidPosted(ledger, u)
                     /\ GiftPosted(ledger', u) = GiftPosted(ledger, u)
                                                  + (IF u = User(r) THEN Amount(r) ELSE 0)
<1>1. /\ r \in Requests /\ User(r) \in Users /\ Amount(r) \in Nat /\ loaded \in Balances
      /\ loaded.gift \in Int /\ loaded.paid \in Int
      /\ after \in Balances /\ after.paid = loaded.paid /\ after.gift = loaded.gift + Amount(r)
  <2>1. r \in Requests /\ User(r) \in Users /\ Amount(r) \in Nat /\ loaded \in Balances
    BY SumTypes DEF CommitPurchase, Reading
  <2>2. loaded.gift \in Int /\ loaded.paid \in Int
    BY <2>1 DEF Balances
  <2>3. after \in Balances
    BY <2>1, CreditedType
  <2>4. after.paid = loaded.paid /\ after.gift = loaded.gift + Amount(r)
    BY <2>1 DEF Gifted, Balances
  <2> QED
    BY <2>1, <2>2, <2>3, <2>4
<1>2. PICK e, f : /\ e = PurchaseRow(r, "subscription_payment", 0, after)
                  /\ f = PurchaseRow(r, "subscription_gift_credit", Amount(r), after)
  OBVIOUS
<1>3. /\ e \in LedgerRow /\ e.request = r /\ e.giftDelta = 0 /\ e.paidDelta = 0
      /\ f \in LedgerRow /\ f.request = r /\ f.giftDelta = Amount(r) /\ f.paidDelta = 0
  <2>1. e \in LedgerRow /\ f \in LedgerRow
    BY <1>1, <1>2, RowTypes
  <2> QED
    BY <1>2, <2>1 DEF PurchaseRow
<1>4. ledger' = Append(Append(ledger, e), f) /\ ledger \in Seq(LedgerRow)
  <2>1. ledger' = ledger \o <<e, f>> /\ ledger \in Seq(LedgerRow)
    BY <1>2 DEF CommitPurchase, TypeInv, TypeOK
  <2>2. ledger \o <<e, f>> = Append(Append(ledger, e), f)
    BY <1>3, <2>1
  <2> QED
    BY <2>1, <2>2
<1>5. \A u : /\ PaidPosted(ledger', u) = PaidPosted(ledger, u)
             /\ GiftPosted(ledger', u) = GiftPosted(ledger, u)
                                          + (IF u = User(r) THEN Amount(r) ELSE 0)
  <2> SUFFICES ASSUME NEW u
               PROVE  /\ PaidPosted(ledger', u) = PaidPosted(ledger, u)
                      /\ GiftPosted(ledger', u) = GiftPosted(ledger, u)
                                                   + (IF u = User(r) THEN Amount(r) ELSE 0)
    OBVIOUS
  <2>1. PICK more : more = Append(ledger, e)
    OBVIOUS
  <2>2. more \in Seq(LedgerRow)
    BY <1>3, <1>4, <2>1
  <2>3. /\ GiftPosted(more, u) = GiftPosted(ledger, u) + GiftOf(e, u)
        /\ PaidPosted(more, u) = PaidPosted(ledger, u) + PaidOf(e, u)
        /\ GiftPosted(ledger, u) \in Int /\ PaidPosted(ledger, u) \in Int
    BY <1>3, <1>4, <2>1, SumsOfAppend
  <2>4. /\ GiftPosted(ledger', u) = GiftPosted(more, u) + GiftOf(f, u)
        /\ PaidPosted(ledger', u) = PaidPosted(more, u) + PaidOf(f, u)
    BY <1>3, <1>4, <2>1, <2>2, SumsOfAppend
  <2>5. /\ GiftOf(e, u) = 0 /\ PaidOf(e, u) = 0 /\ PaidOf(f, u) = 0
        /\ GiftOf(f, u) = IF u = User(r) THEN Amount(r) ELSE 0
    BY <1>3 DEF GiftOf, PaidOf
  <2> QED
    BY <2>3, <2>4, <2>5
<1>6. c.paid = account[User(r)].paid /\ (c.gift = account[User(r)].gift \/ c.gift = after.gift)
  BY <1>1 DEF Flush
<1>7. account' = [account EXCEPT ![User(r)] = c] /\ account \in [Users -> Balances]
  BY DEF CommitPurchase, TypeInv, TypeOK
<1> QED
  BY <1>1, <1>5, <1>6, <1>7

LEMMA CreditExplained ==
    ASSUME TypeInv, OInv, NEW h \in Handlers, CommitCredit(h)
    PROVE  OInv'
<1>1. PICK r, loaded, after, c : /\ r = handler[h].request /\ loaded = handler[h].row
                                 /\ after = Credited(loaded, r)
                                 /\ c = Flush(account[User(r)], loaded, after)
  OBVIOUS
<1>2. /\ r \in Requests /\ User(r) \in Users /\ Amount(r) \in Nat /\ loaded \in Balances
      /\ loaded.gift \in Int /\ loaded.paid \in Int
      /\ after \in Balances /\ after.gift = loaded.gift /\ after.paid = loaded.paid + Amount(r)
      /\ c.gift = account[User(r)].gift /\ (c.paid = account[User(r)].paid \/ c.paid = after.paid)
      /\ account' = [account EXCEPT ![User(r)] = c] /\ account \in [Users -> Balances]
  BY <1>1, CreditMoves
<1>3. \A u : /\ GiftPosted(ledger', u) = GiftPosted(ledger, u)
             /\ PaidPosted(ledger', u) = PaidPosted(ledger, u)
                                          + (IF u = User(r) THEN Amount(r) ELSE 0)
  BY <1>1, CreditMoves
<1>4. Explained'
  <2>1. /\ \A o \in Handlers \ {h} : handler'[o] = handler[o]
        /\ handler'[h].pc = "idle"
    BY DEF CommitCredit, Close, Idle, TypeInv, TypeOK
  <2>2. \A u \in Users : /\ GiftPosted(ledger', u) \in Int /\ PaidPosted(ledger', u) \in Int
                         /\ GiftPosted(ledger', u) >= GiftPosted(ledger, u)
                         /\ PaidPosted(ledger', u) >= PaidPosted(ledger, u)
    BY <1>2, <1>3, SumTypes
  <2> QED
    BY <2>1, <2>2, ExplainedStays
<1>5. loaded.paid <= PaidPosted(ledger, User(r))
  BY <1>1 DEF OInv, Explained, CommitCredit
<1>6. ASSUME NEW u \in Users
      PROVE  /\ account'[u].paid <= PaidPosted(ledger', u)
             /\ account'[u].gift <= OpeningGift[u] + GiftPosted(ledger', u)
  <2>1. /\ account[u].paid <= PaidPosted(ledger, u)
        /\ account[u].gift <= OpeningGift[u] + GiftPosted(ledger, u)
    BY DEF OInv, NeverOvercredited
  <2>2. CASE u = User(r)
    <3>1. account'[u] = c
      BY <1>2, <2>2
    <3> QED
      BY <1>2, <1>3, <1>5, <2>1, <2>2, <3>1, SumTypes
  <2>3. CASE u # User(r)
    <3>1. account'[u] = account[u]
      BY <1>2, <2>3
    <3> QED
      BY <1>3, <2>1, <2>3, <3>1, SumTypes
  <2> QED
    BY <2>2, <2>3
<1> QED
  BY <1>4, <1>6 DEF OInv, NeverOvercredited

LEMMA PurchaseExplained ==
    ASSUME TypeInv, OInv, NEW h \in Handlers, CommitPurchase(h)
    PROVE  OInv'
<1>1. PICK r, loaded, after, c : /\ r = handler[h].request /\ loaded = handler[h].row
                                 /\ after = Gifted(loaded, r)
                                 /\ c = Flush(account[User(r)], loaded, after)
  OBVIOUS
<1>2. /\ r \in Requests /\ User(r) \in Users /\ Amount(r) \in Nat /\ loaded \in Balances
      /\ loaded.gift \in Int /\ loaded.paid \in Int
      /\ after \in Balances /\ after.paid = loaded.paid /\ after.gift = loaded.gift + Amount(r)
      /\ c.paid = account[User(r)].paid /\ (c.gift = account[User(r)].gift \/ c.gift = after.gift)
      /\ account' = [account EXCEPT ![User(r)] = c] /\ account \in [Users -> Balances]
  BY <1>1, PurchaseMoves
<1>3. \A u : /\ PaidPosted(ledger', u) = PaidPosted(ledger, u)
             /\ GiftPosted(ledger', u) = GiftPosted(ledger, u)
                                          + (IF u = User(r) THEN Amount(r) ELSE 0)
  BY <1>1, PurchaseMoves
<1>4. Explained'
  <2>1. /\ \A o \in Handlers \ {h} : handler'[o] = handler[o]
        /\ handler'[h].pc = "granted"
    BY DEF CommitPurchase, Step, TypeInv, TypeOK, HandlerState
  <2>2. \A u \in Users : /\ GiftPosted(ledger', u) \in Int /\ PaidPosted(ledger', u) \in Int
                         /\ GiftPosted(ledger', u) >= GiftPosted(ledger, u)
                         /\ PaidPosted(ledger', u) >= PaidPosted(ledger, u)
    BY <1>2, <1>3, SumTypes
  <2> QED
    BY <2>1, <2>2, ExplainedStays
<1>5. loaded.gift <= OpeningGift[User(r)] + GiftPosted(ledger, User(r))
  BY <1>1 DEF OInv, Explained, CommitPurchase
<1>6. ASSUME NEW u \in Users
      PROVE  /\ account'[u].paid <= PaidPosted(ledger', u)
             /\ account'[u].gift <= OpeningGift[u] + GiftPosted(ledger', u)
  <2>1. /\ account[u].paid <= PaidPosted(ledger, u)
        /\ account[u].gift <= OpeningGift[u] + GiftPosted(ledger, u)
    BY DEF OInv, NeverOvercredited
  <2>2. CASE u = User(r)
    <3>1. account'[u] = c
      BY <1>2, <2>2
    <3> QED
      BY <1>2, <1>3, <1>5, <2>1, <2>2, <3>1, SumTypes
  <2>3. CASE u # User(r)
    <3>1. account'[u] = account[u]
      BY <1>2, <2>3
    <3> QED
      BY <1>3, <2>1, <2>3, <3>1, SumTypes
  <2> QED
    BY <2>2, <2>3
<1> QED
  BY <1>4, <1>6 DEF OInv, NeverOvercredited

(* The account that a handler reads is explained.                          *)
LEMMA ReadExplained ==
    ASSUME TypeInv, OInv, UNCHANGED <<account, ledger>>, NEW h \in Handlers,
           ~Reading(h, "idle"), NEW pc,
           Step(h, pc, account[User(handler[h].request)])
    PROVE  OInv'
<1>1. PICK u \in Users : u = User(handler[h].request)
  BY SumTypes
<1>2. /\ account[u].paid <= PaidPosted(ledger, u)
      /\ account[u].gift <= OpeningGift[u] + GiftPosted(ledger, u)
  BY DEF OInv, NeverOvercredited
<1>3. /\ \A o \in Handlers \ {h} : handler'[o] = handler[o]
      /\ handler'[h].request = handler[h].request /\ handler'[h].row = account[u]
  BY <1>1 DEF Step, TypeInv, TypeOK, HandlerState
<1>4. ASSUME NEW o \in Handlers
      PROVE  LET v == User(handler'[o].request)
             IN  /\ handler'[o].pc = "crediting" =>
                       handler'[o].row.paid <= PaidPosted(ledger, v)
                 /\ handler'[o].pc = "purchasing" =>
                       handler'[o].row.gift <= OpeningGift[v] + GiftPosted(ledger, v)
  <2>1. CASE o = h
    BY <1>1, <1>2, <1>3, <2>1
  <2>2. CASE o # h
    BY <1>3, <2>2 DEF OInv, Explained, Reading
  <2> QED
    BY <2>1, <2>2
<1>5. Explained'
  BY <1>4 DEF Explained, Reading, User
<1> QED
  BY <1>5 DEF OInv, NeverOvercredited

(* The other steps move no money.                                          *)
LEMMA IdleExplained ==
    ASSUME TypeInv, OInv, UNCHANGED <<account, ledger>>, NEW h \in Handlers,
           \A o \in Handlers \ {h} : handler'[o] = handler[o],
           handler'[h].pc \notin {"crediting", "purchasing"}
    PROVE  OInv'
<1>1. \A u \in Users : /\ GiftPosted(ledger', u) \in Int /\ PaidPosted(ledger', u) \in Int
                       /\ GiftPosted(ledger', u) >= GiftPosted(ledger, u)
                       /\ PaidPosted(ledger', u) >= PaidPosted(ledger, u)
  BY SumTypes
<1>2. Explained'
  BY <1>1, ExplainedStays
<1> QED
  BY <1>2 DEF OInv, NeverOvercredited

LEMMA NextExplained ==
    ASSUME TypeInv, OInv, [Next]_paymentVars
    PROVE  OInv'
<1>1. ASSUME UNCHANGED <<account, ledger, handler>>
      PROVE  OInv'
  BY <1>1 DEF OInv, Explained, NeverOvercredited, Reading
<1>2. ASSUME NEW h \in Handlers, NEW r \in Requests, BeginApproval(h, r) \/ BeginRejection(h, r)
      PROVE  OInv'
  <2>1. /\ \A o \in Handlers \ {h} : handler'[o] = handler[o]
        /\ handler'[h].pc \in {"approving", "rejecting"}
        /\ UNCHANGED <<account, ledger>>
    BY <1>2 DEF BeginApproval, BeginRejection, ReadRequest, TypeInv, TypeOK, HandlerState
  <2> QED
    BY <2>1, IdleExplained
<1>3. ASSUME NEW h \in Handlers, Close(h), UNCHANGED <<account, ledger>>
      PROVE  OInv'
  <2>1. /\ \A o \in Handlers \ {h} : handler'[o] = handler[o]
        /\ handler'[h].pc = "idle"
    BY <1>3 DEF Close, Idle, TypeInv, TypeOK
  <2> QED
    BY <1>3, <2>1, IdleExplained
<1>4. ASSUME NEW h \in Handlers, Advance(h)
      PROVE  OInv'
  <2>1. CASE ReadAccount(h)
    BY <2>1, ReadExplained DEF ReadAccount, Reading
  <2>2. CASE ReadPurchase(h)
    BY <1>3, <2>2, ReadExplained DEF ReadPurchase, Reading
  <2>3. CASE CommitReview(h) \/ CommitRejection(h) \/ Abandon(h)
    BY <1>3, <2>3 DEF CommitReview, CommitRejection, Abandon
  <2> QED
    BY <1>4, <2>1, <2>2, <2>3, CreditExplained, PurchaseExplained DEF Advance
<1>5. ASSUME NEW r, CreateRequest(r) \/ AnswerReviewed(r) \/ ExpireSubscription(r)
      PROVE  OInv'
  BY <1>1, <1>5 DEF CreateRequest, AnswerReviewed, ExpireSubscription, paymentVars
<1> QED
  BY <1>1, <1>2, <1>4, <1>5 DEF Next, paymentVars

LEMMA InitExplained == Init => OInv
<1> SUFFICES ASSUME Init
             PROVE  OInv
  OBVIOUS
<1>1. \A u : GiftPosted(ledger, u) = 0 /\ PaidPosted(ledger, u) = 0
  BY TotalZero DEF Init, GiftPosted, PaidPosted
<1>2. NeverOvercredited
  BY <1>1, OpeningGiftAssumption DEF Init, NeverOvercredited
<1>3. Explained
  BY DEF Init, Explained, Reading, Idle
<1> QED
  BY <1>2, <1>3 DEF OInv

(* payment_routes.py, toman_billing_service.py: approvals that credit an   *)
(* account from a row read before others committed may lose a credit, and  *)
(* never leave more in the account than the ledger's rows add up to.       *)
THEOREM NothingOvercredited == Spec => []NeverOvercredited
<1>1. OInv => NeverOvercredited
  BY DEF OInv
<1> QED
  BY <1>1, InitType, NextType, InitExplained, NextExplained, PTL DEF Spec

-----------------------------------------------------------------------------
(* Reviews that do not overlap.  A handler that is about to commit holds   *)
(* the account as it still is.                                             *)
NoStaleRow ==
    \A h \in Handlers :
        handler[h].pc \in {"crediting", "purchasing"} =>
            handler[h].row = account[User(handler[h].request)]

BalancesExplained ==
    \A u \in Users :
        /\ account[u].paid = PaidPosted(ledger, u)
        /\ account[u].gift = OpeningGift[u] + GiftPosted(ledger, u)

LEMMA FreshCredit ==
    ASSUME TypeInv, BalancesExplained, NoStaleRow, NEW h \in Handlers, CommitCredit(h)
    PROVE  BalancesExplained'
<1>1. PICK r, loaded, after, c : /\ r = handler[h].request /\ loaded = handler[h].row
                                 /\ after = Credited(loaded, r)
                                 /\ c = Flush(account[User(r)], loaded, after)
  OBVIOUS
<1>2. /\ User(r) \in Users /\ Amount(r) \in Nat /\ loaded.gift \in Int /\ loaded.paid \in Int
      /\ after.gift = loaded.gift /\ after.paid = loaded.paid + Amount(r)
      /\ account' = [account EXCEPT ![User(r)] = c] /\ account \in [Users -> Balances]
  BY <1>1, CreditMoves
<1>3. \A u : /\ GiftPosted(ledger', u) = GiftPosted(ledger, u)
             /\ PaidPosted(ledger', u) = PaidPosted(ledger, u)
                                          + (IF u = User(r) THEN Amount(r) ELSE 0)
  BY <1>1, CreditMoves
<1>4. loaded = account[User(r)]
  BY <1>1 DEF NoStaleRow, CommitCredit, Reading
<1>5. c.gift = after.gift /\ c.paid = after.paid
  BY <1>1, <1>4 DEF Flush
<1>6. ASSUME NEW u \in Users
      PROVE  /\ account'[u].paid = PaidPosted(ledger', u)
             /\ account'[u].gift = OpeningGift[u] + GiftPosted(ledger', u)
  <2>1. /\ account[u].paid = PaidPosted(ledger, u)
        /\ account[u].gift = OpeningGift[u] + GiftPosted(ledger, u)
    BY DEF BalancesExplained
  <2>2. CASE u = User(r)
    <3>1. account'[u] = c
      BY <1>2, <2>2
    <3> QED
      BY <1>2, <1>3, <1>4, <1>5, <2>1, <2>2, <3>1, SumTypes
  <2>3. CASE u # User(r)
    <3>1. account'[u] = account[u]
      BY <1>2, <2>3
    <3> QED
      BY <1>3, <2>1, <2>3, <3>1, SumTypes
  <2> QED
    BY <2>2, <2>3
<1> QED
  BY <1>6 DEF BalancesExplained

LEMMA FreshPurchase ==
    ASSUME TypeInv, BalancesExplained, NoStaleRow, NEW h \in Handlers, CommitPurchase(h)
    PROVE  BalancesExplained'
<1>1. PICK r, loaded, after, c : /\ r = handler[h].request /\ loaded = handler[h].row
                                 /\ after = Gifted(loaded, r)
                                 /\ c = Flush(account[User(r)], loaded, after)
  OBVIOUS
<1>2. /\ User(r) \in Users /\ Amount(r) \in Nat /\ loaded.gift \in Int /\ loaded.paid \in Int
      /\ after.paid = loaded.paid /\ after.gift = loaded.gift + Amount(r)
      /\ account' = [account EXCEPT ![User(r)] = c] /\ account \in [Users -> Balances]
  BY <1>1, PurchaseMoves
<1>3. \A u : /\ PaidPosted(ledger', u) = PaidPosted(ledger, u)
             /\ GiftPosted(ledger', u) = GiftPosted(ledger, u)
                                          + (IF u = User(r) THEN Amount(r) ELSE 0)
  BY <1>1, PurchaseMoves
<1>4. loaded = account[User(r)]
  BY <1>1 DEF NoStaleRow, CommitPurchase, Reading
<1>5. c.gift = after.gift /\ c.paid = after.paid
  BY <1>1, <1>4 DEF Flush
<1>6. ASSUME NEW u \in Users
      PROVE  /\ account'[u].paid = PaidPosted(ledger', u)
             /\ account'[u].gift = OpeningGift[u] + GiftPosted(ledger', u)
  <2>1. /\ account[u].paid = PaidPosted(ledger, u)
        /\ account[u].gift = OpeningGift[u] + GiftPosted(ledger, u)
    BY DEF BalancesExplained
  <2>2. CASE u = User(r)
    <3>1. account'[u] = c
      BY <1>2, <2>2
    <3> QED
      BY <1>2, <1>3, <1>4, <1>5, <2>1, <2>2, <3>1, SumTypes
  <2>3. CASE u # User(r)
    <3>1. account'[u] = account[u]
      BY <1>2, <2>3
    <3> QED
      BY <1>3, <2>1, <2>3, <3>1, SumTypes
  <2> QED
    BY <2>2, <2>3
<1> QED
  BY <1>6 DEF BalancesExplained

LEMMA FreshNext ==
    ASSUME TypeInv, BalancesExplained, NoStaleRow, [Next]_paymentVars
    PROVE  BalancesExplained'
<1>1. ASSUME UNCHANGED <<account, ledger>>
      PROVE  BalancesExplained'
  BY <1>1 DEF BalancesExplained
<1>2. ASSUME NEW h \in Handlers, Advance(h)
      PROVE  BalancesExplained'
  <2>1. CASE CommitCredit(h) \/ CommitPurchase(h)
    BY <2>1, FreshCredit, FreshPurchase
  <2>2. CASE ~(CommitCredit(h) \/ CommitPurchase(h))
    BY <1>1, <1>2, <2>2 DEF Advance, ReadAccount, ReadPurchase, CommitReview,
                            CommitRejection, Abandon
  <2> QED
    BY <2>1, <2>2
<1>3. ASSUME NEW r, CreateRequest(r) \/ AnswerReviewed(r) \/ ExpireSubscription(r)
      PROVE  BalancesExplained'
  BY <1>1, <1>3 DEF CreateRequest, AnswerReviewed, ExpireSubscription, paymentVars
<1>4. ASSUME NEW h \in Handlers, NEW r \in Requests, BeginApproval(h, r) \/ BeginRejection(h, r)
      PROVE  BalancesExplained'
  BY <1>1, <1>4 DEF BeginApproval, BeginRejection, ReadRequest
<1> QED
  BY <1>1, <1>2, <1>3, <1>4 DEF Next, paymentVars

LEMMA FreshInit == Init => BalancesExplained /\ NoStaleRow
<1> SUFFICES ASSUME Init
             PROVE  BalancesExplained /\ NoStaleRow
  OBVIOUS
<1>1. \A u : GiftPosted(ledger, u) = 0 /\ PaidPosted(ledger, u) = 0
  BY TotalZero DEF Init, GiftPosted, PaidPosted
<1> QED
  BY <1>1, OpeningGiftAssumption DEF Init, BalancesExplained, NoStaleRow, Idle

(* payment_routes.py, toman_billing_service.py: as long as no approval     *)
(* commits over an account that changed after it was read, a balance is    *)
(* what the user opened with and what the ledger's rows add up to: the     *)
(* stale row is the only way for the two to come apart.                    *)
THEOREM FreshCreditsExplained == Spec /\ []NoStaleRow => []BalancesExplained
<1>1. Init => BalancesExplained
  BY FreshInit
<1>2. TypeInv /\ BalancesExplained /\ NoStaleRow /\ [Next]_paymentVars => BalancesExplained'
  BY FreshNext
<1> QED
  BY <1>1, <1>2, InitType, NextType, PTL DEF Spec

OneHandler == \A g, h \in Handlers : g = h

LEMMA AloneNext ==
    ASSUME OneHandler, TypeInv, NoStaleRow, [Next]_paymentVars
    PROVE  NoStaleRow'
<1>1. ASSUME UNCHANGED <<account, handler>>
      PROVE  NoStaleRow'
  BY <1>1 DEF NoStaleRow
<1>2. ASSUME NEW h \in Handlers, handler'[h].pc \notin {"crediting", "purchasing"}
      PROVE  NoStaleRow'
  BY <1>2 DEF NoStaleRow, OneHandler
<1>3. ASSUME NEW h \in Handlers, NEW pc, ~Reading(h, "idle"), UNCHANGED account,
             Step(h, pc, account[User(handler[h].request)])
      PROVE  NoStaleRow'
  <2>1. /\ handler'[h].request = handler[h].request
        /\ handler'[h].row = account[User(handler[h].request)]
    BY <1>3 DEF Step, TypeInv, TypeOK, HandlerState
  <2> QED
    BY <1>3, <2>1 DEF NoStaleRow, OneHandler, User
<1>4. ASSUME NEW h \in Handlers, Close(h)
      PROVE  NoStaleRow'
  <2>1. handler'[h].pc = "idle"
    BY <1>4 DEF Close, Idle, TypeInv, TypeOK
  <2> QED
    BY <1>2, <2>1
<1>5. ASSUME NEW h \in Handlers, Advance(h)
      PROVE  NoStaleRow'
  <2>1. CASE ReadAccount(h)
    BY <1>3, <2>1 DEF ReadAccount, Reading
  <2>2. CASE ReadPurchase(h)
    BY <1>3, <1>4, <2>2 DEF ReadPurchase, Reading
  <2>3. CASE CommitPurchase(h)
    <3>1. handler'[h].pc = "granted"
      BY <2>3 DEF CommitPurchase, Step, TypeInv, TypeOK, HandlerState
    <3> QED
      BY <1>2, <3>1
  <2>4. CASE CommitCredit(h) \/ CommitReview(h) \/ CommitRejection(h) \/ Abandon(h)
    BY <1>4, <2>4 DEF CommitCredit, CommitReview, CommitRejection, Abandon
  <2> QED
    BY <1>5, <2>1, <2>2, <2>3, <2>4 DEF Advance
<1>6. ASSUME NEW r, CreateRequest(r) \/ AnswerReviewed(r) \/ ExpireSubscription(r)
      PROVE  NoStaleRow'
  BY <1>1, <1>6 DEF CreateRequest, AnswerReviewed, ExpireSubscription, paymentVars
<1>7. ASSUME NEW h \in Handlers, NEW r \in Requests, BeginApproval(h, r) \/ BeginRejection(h, r)
      PROVE  NoStaleRow'
  <2>1. handler'[h].pc \in {"approving", "rejecting"}
    BY <1>7 DEF BeginApproval, BeginRejection, ReadRequest, TypeInv, TypeOK, HandlerState
  <2> QED
    BY <1>2, <2>1
<1> QED
  BY <1>1, <1>5, <1>6, <1>7 DEF Next, paymentVars

(* payment_routes.py, toman_billing_service.py: reviews taken one at a     *)
(* time, interrupted and repeated as they may be, leave every balance      *)
(* equal to the opening balance and the ledger's rows.                     *)
THEOREM LoneCreditsExplained ==
    ASSUME OneHandler
    PROVE  Spec => []BalancesExplained
<1>1. Init => NoStaleRow
  BY FreshInit
<1>2. TypeInv /\ NoStaleRow /\ [Next]_paymentVars => NoStaleRow'
  BY OneHandler, AloneNext
<1>3. Spec => []NoStaleRow
  BY <1>1, <1>2, InitType, NextType, PTL DEF Spec
<1> QED
  BY <1>3, FreshCreditsExplained, PTL
=============================================================================
