-------------------------- MODULE TomanBillingProofs --------------------------
(* Theorems about TomanBilling, for every set of users, sessions, events   *)
(* and pools.                                                              *)
EXTENDS TomanBilling, TLAPS, FiniteSetTheorems, WellFoundedInduction

-----------------------------------------------------------------------------
(* What the operators return.                                              *)

(* A request's fields, and the amounts computed from them, are naturals.   *)
LEMMA RequestFacts ==
    ASSUME NEW k \in Keys
    PROVE  /\ User(k) \in Users
           /\ Op(k) \in Ops
           /\ Requests[k].amount \in Nat /\ Requests[k].gift \in Nat
           /\ WalletPayment(k) \in Nat /\ WalletPayment(k) <= Requests[k].amount
           /\ GiftCredited(k) \in Nat
           /\ Requests[k].keyed \in BOOLEAN
BY RequestsAssumption DEF Request, User, Op, WalletPayment, GiftCredited

(* The query of assign_subscription_pool returns a pool that has room.     *)
LEMMA FirstFreePoolIsFree ==
    ASSUME FreePools # {}
    PROVE  FirstFreePool \in FreePools
<1>1. FreePools \subseteq Nat
  BY PoolsAssumption DEF FreePools
<1>2. PICK p \in FreePools : \A q \in FreePools : ~(<<q, p>> \in OpToRel(<, Nat))
  BY <1>1, NatLessThanWellFounded, WFMin
<1>3. ASSUME NEW q \in FreePools, q < p
      PROVE  <<q, p>> \in OpToRel(<, Nat)
  <2>1. <<q, p>> \in Nat \X Nat /\ <<q, p>>[1] < <<q, p>>[2]
    BY <1>1, <1>3
  <2> QED
    BY <2>1 DEF OpToRel
<1>4. \A q \in FreePools : p <= q
  <2> SUFFICES ASSUME NEW q \in FreePools
               PROVE  p <= q
    OBVIOUS
  <2>1. ~(q < p)
    BY <1>2, <1>3, Zenon
  <2> QED
    BY <1>1, <2>1
<1> QED
  BY <1>4 DEF FirstFreePool

LEMMA MovedType ==
    ASSUME NEW row \in AccountRow, NEW deltas, \A c \in DOMAIN deltas : deltas[c] \in Int
    PROVE  Moved(row, deltas) \in AccountRow
BY DEF Moved, AccountRow

LEMMA AfterPurchaseType ==
    ASSUME NEW row \in AccountRow, NEW k \in Keys
    PROVE  AfterPurchase(row, k) \in AccountRow
BY RequestFacts, MovedType DEF AfterPurchase

LEMMA AfterTopupType ==
    ASSUME NEW row \in AccountRow, NEW k \in Keys, NEW discounted \in BOOLEAN
    PROVE  AfterTopup(row, k, discounted) \in AccountRow
BY RequestFacts, MovedType DEF AfterTopup

LEMMA AfterChargeType ==
    ASSUME NEW row \in AccountRow, NEW cost \in Nat
    PROVE  /\ GiftPart(row, cost) \in Int /\ PaidPart(row, cost) \in Int
           /\ AfterCharge(row, cost) \in AccountRow
<1>1. row.gift \in Int /\ row.paid \in Int
  BY DEF AccountRow, Columns
<1>2. GiftPart(row, cost) \in Int /\ PaidPart(row, cost) \in Int
  BY <1>1 DEF GiftPart, PaidPart
<1> QED
  BY <1>2, MovedType DEF AfterCharge

LEMMA FlushType ==
    ASSUME NEW current \in AccountRow, NEW loaded \in AccountRow,
           NEW changed \in AccountRow
    PROVE  Flush(current, loaded, changed) \in AccountRow
BY DEF Flush, AccountRow

LEMMA EntryType ==
    ASSUME NEW k \in Keys, NEW kind \in Kinds, NEW giftDelta \in Int,
           NEW paidDelta \in Int, NEW row \in AccountRow, NEW discount \in BOOLEAN
    PROVE  Entry(k, kind, giftDelta, paidDelta, row, discount) \in LedgerEntry
BY RequestFacts DEF Entry, LedgerEntry, AccountRow, Columns

LEMMA ChargeEntryType ==
    ASSUME NEW k \in Keys, NEW kind \in UsageKinds, NEW row \in AccountRow,
           NEW cost \in Nat
    PROVE  ChargeEntry(k, kind, row, cost) \in LedgerEntry
<1>1. kind \in Kinds
  BY DEF Kinds, UsageKinds
<1>2. -GiftPart(row, cost) \in Int /\ -PaidPart(row, cost) \in Int
  BY AfterChargeType
<1> QED
  BY <1>1, <1>2, AfterChargeType, EntryType DEF ChargeEntry

LEMMA NewAccountType == NewAccount \in AccountRow
BY DEF NewAccount, AccountRow

LEMMA OpeningAccountType ==
    ASSUME NEW u \in Users
    PROVE  OpeningAccount(u) \in AccountRow
BY OpeningAssumption, NewAccountType, MovedType DEF OpeningAccount

-----------------------------------------------------------------------------
(* Type correctness.  What a session waits for fits the request it serves. *)

PcFits(pc, k) ==
    /\ pc = "read" => Op(k) \in {"purchase", "topup", "index"}
    /\ pc \in {"precheck", "generating", "answering"} => Op(k) = "chat"
    /\ pc = "transcribing" => Op(k) = "voice"
    /\ pc = "indexing" => Op(k) = "index"

SessionsServe ==
    \A s \in Sessions :
        session[s].pc # "idle"
            => session[s].key \in Keys /\ PcFits(session[s].pc, session[s].key)

TypeInv == TypeOK /\ SessionsServe

(* A session that ends is idle; the others are as they were.               *)
LEMMA CloseKeepsSessions ==
    ASSUME TypeInv, NEW s \in Sessions, Close(s)
    PROVE  session' \in [Sessions -> SessionState] /\ SessionsServe'
<1>1. Idle \in SessionState
  BY NewAccountType DEF Idle, SessionState, PCs
<1>2. session' \in [Sessions -> SessionState]
  BY <1>1 DEF TypeInv, TypeOK, Close
<1>3. SessionsServe'
  BY DEF TypeInv, TypeOK, SessionsServe, Close, Idle, PcFits, Op
<1> QED
  BY <1>2, <1>3

(* A session begins to serve a request.                                    *)
LEMMA OpenKeepsSessions ==
    ASSUME TypeInv, NEW s \in Sessions, NEW pc \in PCs, NEW k \in Keys,
           NEW row \in AccountRow, NEW discount \in BOOLEAN,
           PcFits(pc, k), Open(s, pc, k, row, discount)
    PROVE  session' \in [Sessions -> SessionState] /\ SessionsServe'
<1>1. [pc |-> pc, key |-> k, loaded |-> row, discount |-> discount] \in SessionState
  BY DEF SessionState
<1>2. session' \in [Sessions -> SessionState]
  BY <1>1 DEF TypeInv, TypeOK, Open
<1>3. SessionsServe'
  BY DEF TypeInv, TypeOK, SessionsServe, Open, PcFits, Op
<1> QED
  BY <1>2, <1>3

(* A session under way has a request, a row and a user.                    *)
LEMMA SessionFacts ==
    ASSUME TypeInv, NEW s \in Sessions, session[s].pc # "idle"
    PROVE  /\ session[s].key \in Keys
           /\ User(session[s].key) \in Users
           /\ session[s].loaded \in AccountRow
           /\ session[s].discount \in BOOLEAN
           /\ PcFits(session[s].pc, session[s].key)
BY RequestFacts DEF TypeInv, TypeOK, SessionsServe, SessionState

LEMMA TypeInit == ASSUME Init PROVE TypeInv
<1>1. Idle \in SessionState
  BY NewAccountType DEF Idle, SessionState, PCs
<1>2. account \in [Users -> AccountRow]
  BY OpeningAccountType DEF Init
<1>3. ledger \in Seq(LedgerEntry) /\ subs \subseteq [key : Keys, pool : Pools]
  BY DEF Init
<1>4. poolUsers \in [Pools -> Int] /\ usage \in [Keys -> UsageStatus]
  BY DEF Init, UsageStatus
<1>5. session \in [Sessions -> SessionState] /\ SessionsServe
  BY <1>1 DEF Init, SessionsServe, Idle
<1> QED
  BY <1>2, <1>3, <1>4, <1>5 DEF Init, TypeInv, TypeOK

(* A charge made under the lock writes a well-typed row and entry.         *)
LEMMA ChargeKeepsTypes ==
    ASSUME TypeInv, NEW k \in Keys, NEW kind \in UsageKinds, NEW cost \in Costs,
           ChargeUnderLock(k, kind, cost)
    PROVE  /\ account' \in [Users -> AccountRow]
           /\ ledger' \in Seq(LedgerEntry)
           /\ usage' \in [Keys -> UsageStatus]
<1>1. cost \in Nat /\ User(k) \in Users /\ account[User(k)] \in AccountRow
  BY CostsAssumption, RequestFacts DEF TypeInv, TypeOK
<1>2. AfterCharge(account[User(k)], cost) \in AccountRow
  BY <1>1, AfterChargeType
<1>3. ChargeEntry(k, kind, account[User(k)], cost) \in LedgerEntry
  BY <1>1, ChargeEntryType
<1>4. account' \in [Users -> AccountRow]
  BY <1>1, <1>2 DEF ChargeUnderLock, TypeInv, TypeOK
<1>5. ledger' \in Seq(LedgerEntry)
  BY <1>3 DEF ChargeUnderLock, TypeInv, TypeOK
<1>6. usage' \in [Keys -> UsageStatus]
  BY DEF ChargeUnderLock, ChargeOutcome, UsageStatus, TypeInv, TypeOK
<1> QED
  BY <1>4, <1>5, <1>6

(* The commit of a row computed from the loaded one is well typed.         *)
LEMMA FlushKeepsTypes ==
    ASSUME TypeInv, NEW s \in Sessions, session[s].pc # "idle",
           NEW row \in AccountRow,
           account' = [account EXCEPT ![User(session[s].key)] =
                          Flush(@, session[s].loaded, row)]
    PROVE  account' \in [Users -> AccountRow]
<1>1. User(session[s].key) \in Users /\ session[s].loaded \in AccountRow
  BY SessionFacts
<1>2. Flush(account[User(session[s].key)], session[s].loaded, row) \in AccountRow
  BY <1>1, FlushType DEF TypeInv, TypeOK
<1> QED
  BY <1>1, <1>2 DEF TypeInv, TypeOK

LEMMA CommitPurchaseType ==
    ASSUME TypeInv, NEW s \in Sessions, CommitPurchase(s)
    PROVE  TypeInv'
<1> DEFINE k == session[s].key
           after == AfterPurchase(session[s].loaded, k)
<1>1. /\ session[s].pc # "idle" /\ k \in Keys
      /\ session[s].loaded \in AccountRow
  BY SessionFacts DEF CommitPurchase
<1>2. after \in AccountRow
  BY <1>1, AfterPurchaseType
<1>3. account' \in [Users -> AccountRow]
  BY <1>1, <1>2, FlushKeepsTypes DEF CommitPurchase
<1>4. FirstFreePool \in Pools
  BY FirstFreePoolIsFree DEF CommitPurchase, FreePools
<1>5. /\ subs' \subseteq [key : Keys, pool : Pools]
      /\ poolUsers' \in [Pools -> Int]
  BY <1>1, <1>4 DEF CommitPurchase, TypeInv, TypeOK
<1>6. ledger' \in Seq(LedgerEntry)
  <2> DEFINE payment == Entry(k, "subscription_payment", 0, -WalletPayment(k), after, FALSE)
             gift == Entry(k, "subscription_gift_credit", GiftCredited(k), 0, after, FALSE)
  <2>1. -WalletPayment(k) \in Int /\ GiftCredited(k) \in Int /\ 0 \in Int
    BY <1>1, RequestFacts
  <2>2. {"subscription_payment", "subscription_gift_credit"} \subseteq Kinds
    BY DEF Kinds
  <2>3. ledger' = ledger \o <<payment, gift>>
    BY DEF CommitPurchase
  <2> HIDE DEF k, after
  <2>4. payment \in LedgerEntry /\ gift \in LedgerEntry
    BY <1>1, <1>2, <2>1, <2>2, EntryType
  <2> HIDE DEF payment, gift
  <2> QED
    BY <2>3, <2>4 DEF TypeInv, TypeOK
<1>7. session' \in [Sessions -> SessionState] /\ SessionsServe'
  BY CloseKeepsSessions DEF CommitPurchase
<1> QED
  BY <1>3, <1>5, <1>6, <1>7 DEF CommitPurchase, TypeInv, TypeOK

LEMMA CommitTopupType ==
    ASSUME TypeInv, NEW s \in Sessions, CommitTopup(s)
    PROVE  TypeInv'
<1> DEFINE k == session[s].key
           after == AfterTopup(session[s].loaded, k, session[s].discount)
<1>1. /\ session[s].pc # "idle" /\ k \in Keys
      /\ session[s].loaded \in AccountRow /\ session[s].discount \in BOOLEAN
  BY SessionFacts DEF CommitTopup
<1>2. after \in AccountRow
  BY <1>1, AfterTopupType
<1>3. account' \in [Users -> AccountRow]
  BY <1>1, <1>2, FlushKeepsTypes DEF CommitTopup
<1>4. Entry(k, "paid_topup_credit", 0, Requests[k].amount, after,
            session[s].discount) \in LedgerEntry
  BY <1>1, <1>2, RequestFacts, EntryType DEF Kinds
<1>5. ledger' \in Seq(LedgerEntry)
  BY <1>4 DEF CommitTopup, TypeInv, TypeOK
<1>6. session' \in [Sessions -> SessionState] /\ SessionsServe'
  BY CloseKeepsSessions DEF CommitTopup
<1> QED
  BY <1>3, <1>5, <1>6 DEF CommitTopup, TypeInv, TypeOK

LEMMA CommitIndexChargeType ==
    ASSUME TypeInv, NEW s \in Sessions, CommitIndexCharge(s)
    PROVE  TypeInv'
<1> DEFINE k == session[s].key
           row == session[s].loaded
<1>1. /\ session[s].pc # "idle" /\ k \in Keys /\ row \in AccountRow
      /\ Requests[k].amount \in Nat
  BY SessionFacts, RequestFacts DEF CommitIndexCharge
<1>2. AfterCharge(row, Requests[k].amount) \in AccountRow
  BY <1>1, AfterChargeType
<1>3. account' \in [Users -> AccountRow]
  BY <1>1, <1>2, FlushKeepsTypes DEF CommitIndexCharge
<1>4. ChargeEntry(k, "rag_embedding", row, Requests[k].amount) \in LedgerEntry
  BY <1>1, ChargeEntryType DEF UsageKinds
<1>5. ledger' \in Seq(LedgerEntry)
  BY <1>4 DEF CommitIndexCharge, TypeInv, TypeOK
<1>6. session' \in [Sessions -> SessionState] /\ SessionsServe'
  BY CloseKeepsSessions DEF CommitIndexCharge
<1> QED
  BY <1>3, <1>5, <1>6 DEF CommitIndexCharge, TypeInv, TypeOK

LEMMA BeginType ==
    ASSUME TypeInv, NEW s \in Sessions, NEW k \in Keys, Begin(s, k)
    PROVE  TypeInv'
<1>1. User(k) \in Users /\ account[User(k)] \in AccountRow
  BY RequestFacts DEF TypeInv, TypeOK
<1>2. NewAccount \in AccountRow
  BY NewAccountType
<1>3. CASE ReadPurchase(s, k)
  <2>1. session' \in [Sessions -> SessionState] /\ SessionsServe'
    BY <1>1, <1>3, OpenKeepsSessions DEF ReadPurchase, PcFits, PCs
  <2> QED
    BY <1>3, <2>1 DEF ReadPurchase, TypeInv, TypeOK
<1>4. CASE ReadTopup(s, k)
  <2>1. DiscountQuoted(k) \in BOOLEAN
    BY DEF DiscountQuoted
  <2>2. session' \in [Sessions -> SessionState] /\ SessionsServe'
    BY <1>1, <1>4, <2>1, OpenKeepsSessions DEF ReadTopup, PcFits, PCs
  <2> QED
    BY <1>4, <2>2 DEF ReadTopup, TypeInv, TypeOK
<1>5. CASE PrecheckChat(s, k)
  <2>1. session' \in [Sessions -> SessionState] /\ SessionsServe'
    BY <1>2, <1>5, OpenKeepsSessions DEF PrecheckChat, PcFits, PCs
  <2> QED
    BY <1>5, <2>1 DEF PrecheckChat, TypeInv, TypeOK
<1>6. CASE StartTranscription(s, k)
  <2>1. session' \in [Sessions -> SessionState] /\ SessionsServe'
    BY <1>2, <1>6, OpenKeepsSessions DEF StartTranscription, PcFits, PCs
  <2> QED
    BY <1>6, <2>1 DEF StartTranscription, UsageStatus, TypeInv, TypeOK
<1>7. CASE StartIndexing(s, k)
  <2>1. session' \in [Sessions -> SessionState] /\ SessionsServe'
    BY <1>2, <1>7, OpenKeepsSessions DEF StartIndexing, PcFits, PCs
  <2> QED
    BY <1>7, <2>1 DEF StartIndexing, UsageStatus, TypeInv, TypeOK
<1> QED
  BY <1>3, <1>4, <1>5, <1>6, <1>7 DEF Begin

LEMMA AdvanceType ==
    ASSUME TypeInv, NEW s \in Sessions, Advance(s)
    PROVE  TypeInv'
<1>1. CASE CommitPurchase(s)
  BY <1>1, CommitPurchaseType
<1>2. CASE RollbackPurchase(s)
  BY <1>2, CloseKeepsSessions DEF RollbackPurchase, TypeInv, TypeOK
<1>3. CASE CommitTopup(s)
  BY <1>3, CommitTopupType
<1>4. CASE RollbackTopup(s)
  BY <1>4, CloseKeepsSessions DEF RollbackTopup, TypeInv, TypeOK
<1>5. CASE AuthorizeChat(s)
  <2>1. session' \in [Sessions -> SessionState] /\ SessionsServe'
    BY <1>5 DEF AuthorizeChat, TypeInv, TypeOK, SessionState, PCs,
                SessionsServe, PcFits, Op
  <2> QED
    BY <1>5, <2>1 DEF AuthorizeChat, TypeInv, TypeOK
<1>6. ASSUME NEW cost \in Costs, FinishChat(s, cost)
      PROVE  TypeInv'
  <2>1. session[s].key \in Keys
    BY <1>6, SessionFacts DEF FinishChat
  <2>2. /\ account' \in [Users -> AccountRow]
        /\ ledger' \in Seq(LedgerEntry)
        /\ usage' \in [Keys -> UsageStatus]
    BY <1>6, <2>1, ChargeKeepsTypes DEF FinishChat, UsageKinds
  <2> QED
    BY <1>6, <2>2, CloseKeepsSessions DEF FinishChat, TypeInv, TypeOK
<1>7. CASE FailChat(s)
  BY <1>7, CloseKeepsSessions DEF FailChat, UsageStatus, TypeInv, TypeOK
<1>8. ASSUME NEW cost \in Costs, FinishTranscription(s, cost)
      PROVE  TypeInv'
  <2>1. session[s].key \in Keys
    BY <1>8, SessionFacts DEF FinishTranscription
  <2>2. /\ account' \in [Users -> AccountRow]
        /\ ledger' \in Seq(LedgerEntry)
        /\ usage' \in [Keys -> UsageStatus]
    BY <1>8, <2>1, ChargeKeepsTypes DEF FinishTranscription, UsageKinds
  <2> QED
    BY <1>8, <2>2, CloseKeepsSessions DEF FinishTranscription, TypeInv, TypeOK
<1>9. CASE FailTranscription(s)
  BY <1>9, CloseKeepsSessions DEF FailTranscription, UsageStatus, TypeInv, TypeOK
<1>13. CASE OfferTools(s)
  <2>1. session' \in [Sessions -> SessionState] /\ SessionsServe'
    BY <1>13 DEF OfferTools, TypeInv, TypeOK, SessionState, PCs,
                 SessionsServe, PcFits, Op
  <2> QED
    BY <1>13, <2>1 DEF OfferTools, UsageStatus, TypeInv, TypeOK
<1>14. ASSUME NEW cost \in Costs, FinishToolChat(s, cost)
       PROVE  TypeInv'
  <2>1. session[s].key \in Keys
    BY <1>14, SessionFacts DEF FinishToolChat
  <2>2. /\ account' \in [Users -> AccountRow]
        /\ ledger' \in Seq(LedgerEntry)
        /\ usage' \in [Keys -> UsageStatus]
    BY <1>14, <2>1, ChargeKeepsTypes DEF FinishToolChat, UsageKinds
  <2> QED
    BY <1>14, <2>2, CloseKeepsSessions DEF FinishToolChat, TypeInv, TypeOK
<1>15. CASE FailToolChat(s)
  BY <1>15, CloseKeepsSessions DEF FailToolChat, UsageStatus, TypeInv, TypeOK
<1>10. CASE ReadIndexCharge(s)
  <2>1. /\ session[s].key \in Keys
        /\ account[User(session[s].key)] \in AccountRow
    BY <1>10, SessionFacts DEF ReadIndexCharge, TypeInv, TypeOK
  <2>2. session' \in [Sessions -> SessionState] /\ SessionsServe'
    <3>1. CASE Close(s)
      BY <3>1, CloseKeepsSessions
    <3>2. CASE session' = [session EXCEPT ![s].pc = "read",
                                          ![s].loaded = account[User(session[s].key)]]
      <4> DEFINE read == [session[s] EXCEPT !.pc = "read",
                                             !.loaded = account[User(session[s].key)]]
      <4>0. session' = [session EXCEPT ![s] = read] /\ read \in SessionState
        BY <2>1, <3>2 DEF TypeInv, TypeOK, SessionState, PCs
      <4> HIDE DEF read
      <4>1. session' \in [Sessions -> SessionState]
        BY <4>0 DEF TypeInv, TypeOK
      <4>2. /\ session'[s].key = session[s].key /\ session'[s].pc = "read"
            /\ \A t \in Sessions \ {s} : session'[t] = session[t]
        BY <3>2 DEF TypeInv, TypeOK, SessionState
      <4>3. Op(session[s].key) = "index"
        BY <1>10 DEF ReadIndexCharge, TypeInv, SessionsServe, PcFits
      <4> QED
        BY <2>1, <4>1, <4>2, <4>3 DEF TypeInv, SessionsServe, PcFits
    <3> QED
      BY <1>10, <3>1, <3>2 DEF ReadIndexCharge
  <2> QED
    BY <1>10, <2>2 DEF ReadIndexCharge, TypeInv, TypeOK
<1>11. CASE CommitIndexCharge(s)
  BY <1>11, CommitIndexChargeType
<1>12. CASE LockTimeout(s)
  BY <1>12, CloseKeepsSessions DEF LockTimeout, TypeInv, TypeOK
<1> QED
  BY <1>1, <1>2, <1>3, <1>4, <1>5, <1>6, <1>7, <1>8, <1>9, <1>10, <1>11, <1>12, <1>13,
     <1>14, <1>15 DEF Advance

LEMMA TypeStep ==
    ASSUME TypeInv, [Next]_vars
    PROVE  TypeInv'
<1>1. ASSUME NEW k \in Keys, AnswerWithoutWriting(k)
      PROVE  TypeInv'
  BY <1>1 DEF AnswerWithoutWriting, vars, TypeInv, TypeOK, SessionsServe, PcFits
<1>2. ASSUME NEW s \in Sessions, NEW k \in Keys, Begin(s, k)
      PROVE  TypeInv'
  BY <1>2, BeginType
<1>3. ASSUME NEW s \in Sessions, Advance(s)
      PROVE  TypeInv'
  BY <1>3, AdvanceType
<1>4. ASSUME NEW s \in Sessions, Crash(s)
      PROVE  TypeInv'
  BY <1>4, CloseKeepsSessions DEF Crash, TypeInv, TypeOK
<1>5. ASSUME NEW x \in subs, ExpireSubscription(x)
      PROVE  TypeInv'
  BY <1>5 DEF ExpireSubscription, TypeInv, TypeOK, SessionsServe, PcFits
<1>6. CASE UNCHANGED vars
  BY <1>6 DEF vars, TypeInv, TypeOK, SessionsServe, PcFits
<1> QED
  BY <1>1, <1>2, <1>3, <1>4, <1>5, <1>6 DEF Next

LEMMA TypesHold == Spec => []TypeInv
<1> QED
  BY TypeInit, TypeStep, PTL DEF Spec

(* Every reachable state of the accounts, the ledger, the pools, the usage *)
(* events and the open sessions is well typed.                             *)
THEOREM TypeCorrect == Spec => []TypeOK
<1>1. TypeInv => TypeOK
  BY DEF TypeInv
<1> QED
  BY <1>1, TypesHold, PTL

-----------------------------------------------------------------------------
(* No balance is overdrawn.  The strengthening: the row that a session has *)
(* loaded and will write from covers what the session is about to spend.   *)

Solvent(row) == row.gift >= 0 /\ row.paid >= 0

LoadedCovers ==
    \A s \in Sessions :
        session[s].pc = "read" =>
            /\ Solvent(session[s].loaded)
            /\ Op(session[s].key) = "purchase"
                  => WalletPayment(session[s].key) <= session[s].loaded.paid
            /\ Op(session[s].key) = "index"
                  => Requests[session[s].key].amount <= Available(session[s].loaded)

SolventInv == TypeInv /\ NonNegative /\ LoadedCovers

LEMMA ChargeSolvent ==
    ASSUME NEW row \in AccountRow, NEW cost \in Nat, Solvent(row),
           cost <= Available(row)
    PROVE  Solvent(AfterCharge(row, cost))
<1>1. row.gift \in Int /\ row.paid \in Int
  BY DEF AccountRow, Columns
<1>2. /\ AfterCharge(row, cost).gift = row.gift - GiftPart(row, cost)
      /\ AfterCharge(row, cost).paid = row.paid - PaidPart(row, cost)
  BY <1>1 DEF AfterCharge, Moved, Columns, GiftPart, PaidPart
<1> QED
  BY <1>1, <1>2 DEF Solvent, Available, GiftPart, PaidPart

LEMMA PurchaseSolvent ==
    ASSUME NEW row \in AccountRow, NEW k \in Keys, Solvent(row),
           WalletPayment(k) <= row.paid
    PROVE  Solvent(AfterPurchase(row, k))
<1>1. row.gift \in Int /\ row.paid \in Int
  BY DEF AccountRow, Columns
<1>2. WalletPayment(k) \in Nat /\ GiftCredited(k) \in Nat
  BY RequestFacts
<1>3. /\ AfterPurchase(row, k).gift = row.gift + GiftCredited(k)
      /\ AfterPurchase(row, k).paid = row.paid - WalletPayment(k)
  BY <1>1, <1>2 DEF AfterPurchase, Moved, Columns
<1> QED
  BY <1>1, <1>2, <1>3 DEF Solvent

LEMMA TopupSolvent ==
    ASSUME NEW row \in AccountRow, NEW k \in Keys, NEW discounted \in BOOLEAN,
           Solvent(row)
    PROVE  Solvent(AfterTopup(row, k, discounted))
<1>1. row.gift \in Int /\ row.paid \in Int /\ Requests[k].amount \in Nat
  BY RequestFacts DEF AccountRow, Columns
<1>2. /\ AfterTopup(row, k, discounted).gift = row.gift
      /\ AfterTopup(row, k, discounted).paid = row.paid + Requests[k].amount
  BY <1>1 DEF AfterTopup, Moved, Columns
<1> QED
  BY <1>1, <1>2 DEF Solvent

(* A column of a flushed row is the database's or the session's.           *)
LEMMA FlushSolvent ==
    ASSUME TypeInv, NonNegative, NEW s \in Sessions, session[s].pc # "idle",
           NEW row \in AccountRow, Solvent(row),
           account' = [account EXCEPT ![User(session[s].key)] =
                          Flush(@, session[s].loaded, row)]
    PROVE  NonNegative'
<1> DEFINE u == User(session[s].key)
<1>1. u \in Users /\ account[u] \in AccountRow
  BY SessionFacts DEF TypeInv, TypeOK
<1>2. Solvent(Flush(account[u], session[s].loaded, row))
  BY <1>1 DEF Solvent, Flush, Columns, NonNegative
<1> QED
  BY <1>1, <1>2 DEF NonNegative, Solvent, TypeInv, TypeOK

LEMMA LockedChargeSolvent ==
    ASSUME TypeInv, NonNegative, NEW k \in Keys, NEW kind, NEW cost \in Costs,
           ChargeUnderLock(k, kind, cost)
    PROVE  NonNegative'
<1>1. /\ User(k) \in Users /\ account[User(k)] \in AccountRow
      /\ cost \in Nat /\ Solvent(account[User(k)])
  BY RequestFacts, CostsAssumption DEF TypeInv, TypeOK, NonNegative, Solvent
<1>2. CASE UNCHANGED account
  BY <1>2 DEF NonNegative
<1>3. CASE /\ Available(account[User(k)]) >= cost
           /\ account' = [account EXCEPT ![User(k)] =
                             AfterCharge(account[User(k)], cost)]
  <2>1. cost <= Available(account[User(k)])
    BY <1>1, <1>3 DEF Available, AccountRow, Columns
  <2>2. Solvent(AfterCharge(account[User(k)], cost))
    BY <1>1, <2>1, ChargeSolvent
  <2> QED
    BY <1>1, <1>3, <2>2 DEF NonNegative, Solvent, TypeInv, TypeOK
<1> QED
  BY <1>2, <1>3 DEF ChargeUnderLock

(* A session that ends leaves the other sessions' rows covered.            *)
LEMMA CloseKeepsCovered ==
    ASSUME TypeInv, LoadedCovers, NEW s \in Sessions, Close(s)
    PROVE  LoadedCovers'
BY DEF TypeInv, TypeOK, LoadedCovers, Close, Idle, Op, WalletPayment, Available, Solvent

(* A session that begins loads a row that covers its request.              *)
LEMMA OpenKeepsCovered ==
    ASSUME TypeInv, LoadedCovers, NEW s \in Sessions, NEW pc, NEW k, NEW row,
           NEW discount, Open(s, pc, k, row, discount),
           pc = "read" => /\ Solvent(row)
                          /\ Op(k) = "purchase" => WalletPayment(k) <= row.paid
                          /\ Op(k) # "index"
    PROVE  LoadedCovers'
BY DEF TypeInv, TypeOK, LoadedCovers, Open, Op, WalletPayment, Available, Solvent

LEMMA BeginSolvent ==
    ASSUME SolventInv, NEW s \in Sessions, NEW k \in Keys, Begin(s, k)
    PROVE  NonNegative' /\ LoadedCovers'
<1>1. account' = account
  BY DEF Begin, ReadPurchase, ReadTopup, PrecheckChat, StartTranscription,
         StartIndexing
<1>2. NonNegative'
  BY <1>1 DEF SolventInv, NonNegative
<1>3. /\ Solvent(account[User(k)]) /\ WalletPayment(k) \in Int
      /\ account[User(k)].paid \in Int
  BY RequestFacts DEF SolventInv, NonNegative, Solvent, TypeInv, TypeOK,
                      AccountRow, Columns
<1>4. CASE ReadPurchase(s, k)
  <2>1. WalletPayment(k) <= account[User(k)].paid
    BY <1>3, <1>4 DEF ReadPurchase, RefusesPurchase
  <2> QED
    BY <1>2, <1>3, <1>4, <2>1, OpenKeepsCovered DEF ReadPurchase, SolventInv
<1>5. CASE ReadTopup(s, k)
  BY <1>2, <1>3, <1>5, OpenKeepsCovered DEF ReadTopup, SolventInv
<1>6. CASE PrecheckChat(s, k)
  BY <1>2, <1>6, OpenKeepsCovered DEF PrecheckChat, SolventInv
<1>7. CASE StartTranscription(s, k)
  BY <1>2, <1>7, OpenKeepsCovered DEF StartTranscription, SolventInv
<1>8. CASE StartIndexing(s, k)
  BY <1>2, <1>8, OpenKeepsCovered DEF StartIndexing, SolventInv
<1> QED
  BY <1>4, <1>5, <1>6, <1>7, <1>8 DEF Begin

LEMMA AdvanceSolvent ==
    ASSUME SolventInv, NEW s \in Sessions, Advance(s)
    PROVE  NonNegative' /\ LoadedCovers'
<1> DEFINE k == session[s].key
           row == session[s].loaded
<1>1. TypeInv /\ NonNegative /\ LoadedCovers
  BY DEF SolventInv
<1>2. CASE CommitPurchase(s)
  <2>1. /\ session[s].pc # "idle" /\ k \in Keys /\ row \in AccountRow
        /\ Solvent(row) /\ WalletPayment(k) <= row.paid
    BY <1>1, <1>2, SessionFacts DEF CommitPurchase, LoadedCovers
  <2>2. AfterPurchase(row, k) \in AccountRow /\ Solvent(AfterPurchase(row, k))
    BY <2>1, AfterPurchaseType, PurchaseSolvent
  <2>3. NonNegative'
    BY <1>1, <1>2, <2>1, <2>2, FlushSolvent DEF CommitPurchase
  <2> QED
    BY <1>1, <1>2, <2>3, CloseKeepsCovered DEF CommitPurchase
<1>3. CASE CommitTopup(s)
  <2>1. /\ session[s].pc # "idle" /\ k \in Keys /\ row \in AccountRow
        /\ session[s].discount \in BOOLEAN /\ Solvent(row)
    BY <1>1, <1>3, SessionFacts DEF CommitTopup, LoadedCovers
  <2>2. /\ AfterTopup(row, k, session[s].discount) \in AccountRow
        /\ Solvent(AfterTopup(row, k, session[s].discount))
    BY <2>1, AfterTopupType, TopupSolvent
  <2>3. NonNegative'
    BY <1>1, <1>3, <2>1, <2>2, FlushSolvent DEF CommitTopup
  <2> QED
    BY <1>1, <1>3, <2>3, CloseKeepsCovered DEF CommitTopup
<1>4. CASE CommitIndexCharge(s)
  <2>1. /\ session[s].pc # "idle" /\ k \in Keys /\ row \in AccountRow
        /\ Solvent(row) /\ Requests[k].amount <= Available(row)
        /\ Requests[k].amount \in Nat
    BY <1>1, <1>4, SessionFacts, RequestFacts DEF CommitIndexCharge, LoadedCovers
  <2>2. /\ AfterCharge(row, Requests[k].amount) \in AccountRow
        /\ Solvent(AfterCharge(row, Requests[k].amount))
    BY <2>1, AfterChargeType, ChargeSolvent
  <2>3. NonNegative'
    BY <1>1, <1>4, <2>1, <2>2, FlushSolvent DEF CommitIndexCharge
  <2> QED
    BY <1>1, <1>4, <2>3, CloseKeepsCovered DEF CommitIndexCharge
<1>5. ASSUME NEW cost \in Costs, FinishChat(s, cost)
      PROVE  NonNegative' /\ LoadedCovers'
  <2>1. k \in Keys
    BY <1>1, <1>5, SessionFacts DEF FinishChat
  <2>2. NonNegative'
    BY <1>1, <1>5, <2>1, LockedChargeSolvent DEF FinishChat
  <2> QED
    BY <1>1, <1>5, <2>2, CloseKeepsCovered DEF FinishChat
<1>6. ASSUME NEW cost \in Costs, FinishTranscription(s, cost)
      PROVE  NonNegative' /\ LoadedCovers'
  <2>1. k \in Keys
    BY <1>1, <1>6, SessionFacts DEF FinishTranscription
  <2>2. NonNegative'
    BY <1>1, <1>6, <2>1, LockedChargeSolvent DEF FinishTranscription
  <2> QED
    BY <1>1, <1>6, <2>2, CloseKeepsCovered DEF FinishTranscription
<1>10. ASSUME NEW cost \in Costs, FinishToolChat(s, cost)
       PROVE  NonNegative' /\ LoadedCovers'
  <2>1. k \in Keys
    BY <1>1, <1>10, SessionFacts DEF FinishToolChat
  <2>2. NonNegative'
    BY <1>1, <1>10, <2>1, LockedChargeSolvent DEF FinishToolChat
  <2> QED
    BY <1>1, <1>10, <2>2, CloseKeepsCovered DEF FinishToolChat
<1>7. CASE AuthorizeChat(s) \/ OfferTools(s)
  <2>1. NonNegative'
    BY <1>1, <1>7 DEF AuthorizeChat, OfferTools, NonNegative
  <2>2. LoadedCovers'
    BY <1>1, <1>7
       DEF AuthorizeChat, OfferTools, LoadedCovers, TypeInv, TypeOK,
           SessionState, Op, WalletPayment, Available, Solvent
  <2> QED
    BY <2>1, <2>2
<1>8. CASE ReadIndexCharge(s)
  <2>1. NonNegative'
    BY <1>1, <1>8 DEF ReadIndexCharge, NonNegative
  <2>2. CASE Close(s)
    BY <1>1, <2>1, <2>2, CloseKeepsCovered
  <2>3. CASE /\ Available(account[User(k)]) >= Requests[k].amount
             /\ session' = [session EXCEPT ![s].pc = "read",
                                           ![s].loaded = account[User(k)]]
    <3>1. /\ Op(k) = "index" /\ k \in Keys
          /\ Solvent(account[User(k)])
      BY <1>1, <1>8, SessionFacts DEF ReadIndexCharge, PcFits, NonNegative, Solvent
    <3>2. Requests[k].amount <= Available(account[User(k)])
      BY <1>1, <2>3, <3>1, RequestFacts
         DEF Available, TypeInv, TypeOK, AccountRow, Columns
    <3>3. LoadedCovers'
      BY <1>1, <2>3, <3>1, <3>2
         DEF LoadedCovers, TypeInv, TypeOK, SessionState, Op, WalletPayment,
             Available, Solvent
    <3> QED
      BY <2>1, <3>3
  <2> QED
    BY <1>8, <2>2, <2>3 DEF ReadIndexCharge
<1>9. CASE \/ RollbackPurchase(s) \/ RollbackTopup(s) \/ FailChat(s)
           \/ FailToolChat(s) \/ FailTranscription(s) \/ LockTimeout(s)
  <2>1. account' = account /\ Close(s)
    BY <1>9 DEF RollbackPurchase, RollbackTopup, FailChat, FailToolChat,
                FailTranscription, LockTimeout
  <2> QED
    BY <1>1, <2>1, CloseKeepsCovered DEF NonNegative
<1> QED
  BY <1>2, <1>3, <1>4, <1>5, <1>6, <1>7, <1>8, <1>9, <1>10 DEF Advance

LEMMA SolventStep ==
    ASSUME SolventInv, [Next]_vars
    PROVE  SolventInv'
<1>1. TypeInv'
  BY TypeStep DEF SolventInv
<1>2. ASSUME account' = account, session' = session
      PROVE  NonNegative' /\ LoadedCovers'
  BY <1>2 DEF SolventInv, NonNegative, LoadedCovers, Op, WalletPayment, Available,
              Solvent
<1>3. ASSUME NEW k \in Keys, AnswerWithoutWriting(k)
      PROVE  NonNegative' /\ LoadedCovers'
  BY <1>2, <1>3 DEF AnswerWithoutWriting, vars
<1>4. ASSUME NEW s \in Sessions, Crash(s)
      PROVE  NonNegative' /\ LoadedCovers'
  BY <1>4, CloseKeepsCovered DEF Crash, SolventInv, NonNegative
<1>5. ASSUME NEW x \in subs, ExpireSubscription(x)
      PROVE  NonNegative' /\ LoadedCovers'
  BY <1>2, <1>5 DEF ExpireSubscription
<1>6. CASE UNCHANGED vars
  BY <1>1, <1>2, <1>6 DEF vars, SolventInv
<1> QED
  BY <1>1, <1>3, <1>4, <1>5, <1>6, BeginSolvent, AdvanceSolvent DEF Next, SolventInv

LEMMA SolventInit == ASSUME Init PROVE SolventInv
<1>1. TypeInv
  BY TypeInit
<1>2. ASSUME NEW u \in Users
      PROVE  Solvent(OpeningAccount(u))
  <2>1. OpeningAccount(u).gift = Opening[u].gift
        /\ OpeningAccount(u).paid = Opening[u].paid
    BY OpeningAssumption DEF OpeningAccount, Moved, NewAccount, Columns
  <2> QED
    BY <2>1, OpeningAssumption DEF Solvent
<1>3. NonNegative
  BY <1>2 DEF Init, NonNegative, Solvent
<1>4. LoadedCovers
  BY DEF Init, LoadedCovers, Idle
<1> QED
  BY <1>1, <1>3, <1>4 DEF SolventInv

(* However many sessions run, and however stale the rows that purchases    *)
(* and indexing charges were computed from, no balance becomes negative.   *)
THEOREM NeverOverdrawn == Spec => []NonNegative
<1>1. SolventInv => NonNegative
  BY DEF SolventInv
<1> QED
  BY <1>1, SolventInit, SolventStep, PTL DEF Spec

-----------------------------------------------------------------------------
(* A key is posted once.  The strengthening: every row with a key, the     *)
(* payment row of a purchase too, makes _existing_ledger find that key.    *)

RowsFound ==
    \A k \in Keys, i \in DOMAIN ledger :
        ledger[i].key = k => Requests[k].keyed /\ Posted(k)

OnceInv == TypeInv /\ OneEntryPerKey /\ RowsFound

EntryKey(k) == IF Requests[k].keyed THEN k ELSE NoKey

(* The ledger's rows after an append.                                      *)
LEMMA AppendedRows ==
    ASSUME TypeInv, NEW e \in LedgerEntry, ledger' = Append(ledger, e)
    PROVE  /\ Len(ledger) \in Nat /\ DOMAIN ledger = 1 .. Len(ledger)
           /\ DOMAIN ledger' = 1 .. Len(ledger) + 1
           /\ \A i \in 1 .. Len(ledger) : ledger'[i] = ledger[i]
           /\ ledger'[Len(ledger) + 1] = e
BY DEF TypeInv, TypeOK

LEMMA TwoAppendedRows ==
    ASSUME TypeInv, NEW e \in LedgerEntry, NEW f \in LedgerEntry,
           ledger' = ledger \o <<e, f>>
    PROVE  /\ Len(ledger) \in Nat /\ DOMAIN ledger = 1 .. Len(ledger)
           /\ DOMAIN ledger' = 1 .. Len(ledger) + 2
           /\ \A i \in 1 .. Len(ledger) : ledger'[i] = ledger[i]
           /\ ledger'[Len(ledger) + 1] = e
           /\ ledger'[Len(ledger) + 2] = f
BY DEF TypeInv, TypeOK

(* A key that is not posted is in no row.                                  *)
LEMMA FreshKey ==
    ASSUME OnceInv, NEW k \in Keys, ~Posted(k), NEW i \in DOMAIN ledger,
           ledger[i].key # NoKey
    PROVE  ledger[i].key # EntryKey(k)
BY NoKeyAssumption DEF OnceInv, RowsFound, EntryKey

LEMMA AppendOnce ==
    ASSUME OnceInv, NEW k \in Keys, ~Posted(k), NEW e \in LedgerEntry,
           e.key = EntryKey(k), e.kind # "subscription_payment",
           ledger' = Append(ledger, e)
    PROVE  OneEntryPerKey' /\ RowsFound'
<1>1. /\ Len(ledger) \in Nat /\ DOMAIN ledger = 1 .. Len(ledger)
      /\ DOMAIN ledger' = 1 .. Len(ledger) + 1
      /\ \A i \in 1 .. Len(ledger) : ledger'[i] = ledger[i]
      /\ ledger'[Len(ledger) + 1] = e
  BY AppendedRows DEF OnceInv
<1>2. \A i \in DOMAIN ledger : ledger[i].key # NoKey => ledger[i].key # e.key
  BY FreshKey
<1>3. OneEntryPerKey'
  BY <1>1, <1>2 DEF OnceInv, OneEntryPerKey
<1>4. RowsFound'
  <2> SUFFICES ASSUME NEW x \in Keys, NEW i \in DOMAIN ledger', ledger'[i].key = x
               PROVE  Requests[x].keyed /\ Posted(x)'
    BY DEF RowsFound
  <2>1. CASE i = Len(ledger) + 1
    <3>1. x = k /\ Requests[k].keyed
      BY <1>1, <2>1, NoKeyAssumption DEF EntryKey
    <3> QED
      BY <1>1, <3>1 DEF EntryKey, Posted
  <2>2. CASE i \in DOMAIN ledger
    <3>1. Requests[x].keyed /\ Posted(x)
      BY <1>1, <2>2 DEF OnceInv, RowsFound
    <3> QED
      BY <1>1, <3>1 DEF Posted
  <2> QED
    BY <1>1, <2>1, <2>2
<1> QED
  BY <1>3, <1>4

LEMMA AppendPurchaseOnce ==
    ASSUME OnceInv, NEW k \in Keys, ~Posted(k), NEW e \in LedgerEntry,
           NEW f \in LedgerEntry, e.key = EntryKey(k), f.key = EntryKey(k),
           e.kind = "subscription_payment", f.kind # "subscription_payment",
           ledger' = ledger \o <<e, f>>
    PROVE  OneEntryPerKey' /\ RowsFound'
<1>1. /\ Len(ledger) \in Nat /\ DOMAIN ledger = 1 .. Len(ledger)
      /\ DOMAIN ledger' = 1 .. Len(ledger) + 2
      /\ \A i \in 1 .. Len(ledger) : ledger'[i] = ledger[i]
      /\ ledger'[Len(ledger) + 1] = e
      /\ ledger'[Len(ledger) + 2] = f
  BY TwoAppendedRows DEF OnceInv
<1>2. \A i \in DOMAIN ledger : ledger[i].key # NoKey => ledger[i].key # EntryKey(k)
  BY FreshKey
<1>3. OneEntryPerKey'
  <2> SUFFICES ASSUME NEW i \in DOMAIN ledger', NEW j \in DOMAIN ledger',
                      ledger'[i].key # NoKey, ledger'[i].key = ledger'[j].key,
                      (ledger'[i].kind = "subscription_payment")
                         <=> (ledger'[j].kind = "subscription_payment")
               PROVE  i = j
    BY DEF OneEntryPerKey
  <2> DEFINE New == {Len(ledger) + 1, Len(ledger) + 2}
  <2>1. \A n \in DOMAIN ledger' : n \in DOMAIN ledger \/ n \in New
    BY <1>1
  <2>2. \A n \in New : ledger'[n].key = EntryKey(k)
    BY <1>1
  <2>3. CASE i \in DOMAIN ledger /\ j \in DOMAIN ledger
    BY <1>1, <2>3 DEF OnceInv, OneEntryPerKey
  <2>4. CASE i \in New /\ j \in New
    BY <1>1, <2>4
  <2>5. CASE i \in DOMAIN ledger /\ j \in New
    BY <1>1, <1>2, <2>2, <2>5
  <2>6. CASE i \in New /\ j \in DOMAIN ledger
    BY <1>1, <1>2, <2>2, <2>6
  <2> QED
    BY <2>1, <2>3, <2>4, <2>5, <2>6
<1>4. RowsFound'
  <2> SUFFICES ASSUME NEW x \in Keys, NEW i \in DOMAIN ledger', ledger'[i].key = x
               PROVE  Requests[x].keyed /\ Posted(x)'
    BY DEF RowsFound
  <2>1. CASE i \in {Len(ledger) + 1, Len(ledger) + 2}
    <3>1. x = k /\ Requests[k].keyed
      BY <1>1, <2>1, NoKeyAssumption DEF EntryKey
    <3>2. /\ Len(ledger) + 2 \in DOMAIN ledger'
          /\ ledger'[Len(ledger) + 2].key = k
          /\ ledger'[Len(ledger) + 2].kind # "subscription_payment"
      BY <1>1, <3>1 DEF EntryKey
    <3> QED
      BY <3>1, <3>2 DEF Posted
  <2>2. CASE i \in DOMAIN ledger
    <3>1. Requests[x].keyed /\ Posted(x)
      BY <1>1, <2>2 DEF OnceInv, RowsFound
    <3> QED
      BY <1>1, <3>1 DEF Posted
  <2> QED
    BY <1>1, <2>1, <2>2
<1> QED
  BY <1>3, <1>4

LEMMA LedgerKept ==
    ASSUME OnceInv, ledger' = ledger
    PROVE  OneEntryPerKey' /\ RowsFound'
BY DEF OnceInv, OneEntryPerKey, RowsFound, Posted

LEMMA LockedChargeOnce ==
    ASSUME OnceInv, NEW k \in Keys, NEW kind \in UsageKinds, NEW cost \in Costs,
           ChargeUnderLock(k, kind, cost)
    PROVE  OneEntryPerKey' /\ RowsFound'
<1> DEFINE e == ChargeEntry(k, kind, account[User(k)], cost)
<1>1. CASE ledger' = ledger
  BY <1>1, LedgerKept
<1>2. CASE ~Posted(k) /\ ledger' = Append(ledger, e)
  <2>1. account[User(k)] \in AccountRow /\ cost \in Nat
    BY RequestFacts, CostsAssumption DEF OnceInv, TypeInv, TypeOK
  <2>2. e \in LedgerEntry
    BY <2>1, ChargeEntryType
  <2>3. e.key = EntryKey(k) /\ e.kind # "subscription_payment"
    BY DEF ChargeEntry, Entry, EntryKey, UsageKinds
  <2> HIDE DEF e
  <2> QED
    BY <1>2, <2>2, <2>3, AppendOnce
<1> QED
  BY <1>1, <1>2 DEF ChargeUnderLock

LEMMA AdvanceOnce ==
    ASSUME OnceInv, NEW s \in Sessions, Advance(s)
    PROVE  OneEntryPerKey' /\ RowsFound'
<1> DEFINE k == session[s].key
           row == session[s].loaded
<1>1. TypeInv
  BY DEF OnceInv
<1>2. CASE CommitPurchase(s)
  <2> DEFINE after == AfterPurchase(row, k)
             payment == Entry(k, "subscription_payment", 0, -WalletPayment(k),
                              after, FALSE)
             gift == Entry(k, "subscription_gift_credit", GiftCredited(k), 0,
                           after, FALSE)
  <2>1. /\ k \in Keys /\ row \in AccountRow /\ ~Posted(k)
        /\ ledger' = ledger \o <<payment, gift>>
    BY <1>1, <1>2, SessionFacts DEF CommitPurchase, UniqueKeyTaken
  <2>2. after \in AccountRow
    BY <2>1, AfterPurchaseType
  <2>3. /\ -WalletPayment(k) \in Int /\ GiftCredited(k) \in Int /\ 0 \in Int
        /\ {"subscription_payment", "subscription_gift_credit"} \subseteq Kinds
    BY <2>1, RequestFacts DEF Kinds
  <2>4. /\ payment.key = EntryKey(k) /\ payment.kind = "subscription_payment"
        /\ gift.key = EntryKey(k) /\ gift.kind # "subscription_payment"
    BY DEF Entry, EntryKey
  <2> HIDE DEF k, row, after
  <2>5. payment \in LedgerEntry /\ gift \in LedgerEntry
    BY <2>1, <2>2, <2>3, EntryType
  <2> HIDE DEF payment, gift
  <2> QED
    BY <2>1, <2>4, <2>5, AppendPurchaseOnce
<1>3. CASE CommitTopup(s)
  <2> DEFINE after == AfterTopup(row, k, session[s].discount)
             e == Entry(k, "paid_topup_credit", 0, Requests[k].amount, after,
                        session[s].discount)
  <2>1. /\ k \in Keys /\ row \in AccountRow /\ session[s].discount \in BOOLEAN
        /\ ~Posted(k) /\ ledger' = Append(ledger, e)
    BY <1>1, <1>3, SessionFacts DEF CommitTopup, UniqueKeyTaken
  <2>2. after \in AccountRow /\ Requests[k].amount \in Int /\ 0 \in Int
    BY <2>1, AfterTopupType, RequestFacts
  <2>3. e.key = EntryKey(k) /\ e.kind # "subscription_payment"
    BY DEF Entry, EntryKey
  <2>4. "paid_topup_credit" \in Kinds
    BY DEF Kinds
  <2> HIDE DEF k, row, after
  <2>5. e \in LedgerEntry
    BY <2>1, <2>2, <2>4, EntryType
  <2> HIDE DEF e
  <2> QED
    BY <2>1, <2>3, <2>5, AppendOnce
<1>4. CASE CommitIndexCharge(s)
  <2> DEFINE e == ChargeEntry(k, "rag_embedding", row, Requests[k].amount)
  <2>1. /\ k \in Keys /\ row \in AccountRow /\ Op(k) = "index"
        /\ ledger' = Append(ledger, e)
    BY <1>1, <1>4, SessionFacts DEF CommitIndexCharge
  <2>2. ~Posted(k)
    BY <2>1, RequestsAssumption DEF Op, Posted
  <2>3. e \in LedgerEntry
    BY <2>1, RequestFacts, ChargeEntryType DEF UsageKinds
  <2>4. e.key = EntryKey(k) /\ e.kind # "subscription_payment"
    BY DEF ChargeEntry, Entry, EntryKey
  <2> HIDE DEF e
  <2> QED
    BY <2>1, <2>2, <2>3, <2>4, AppendOnce
<1>5. ASSUME NEW cost \in Costs, FinishChat(s, cost)
      PROVE  OneEntryPerKey' /\ RowsFound'
  <2>1. k \in Keys /\ "chat_completion_usage" \in UsageKinds
    BY <1>1, <1>5, SessionFacts DEF FinishChat, UsageKinds
  <2> QED
    BY <1>5, <2>1, LockedChargeOnce DEF FinishChat
<1>6. ASSUME NEW cost \in Costs, FinishTranscription(s, cost)
      PROVE  OneEntryPerKey' /\ RowsFound'
  <2>1. k \in Keys /\ "voice_transcription" \in UsageKinds
    BY <1>1, <1>6, SessionFacts DEF FinishTranscription, UsageKinds
  <2> QED
    BY <1>6, <2>1, LockedChargeOnce DEF FinishTranscription
<1>8. ASSUME NEW cost \in Costs, FinishToolChat(s, cost)
      PROVE  OneEntryPerKey' /\ RowsFound'
  <2>1. k \in Keys /\ "chat_completion_usage" \in UsageKinds
    BY <1>1, <1>8, SessionFacts DEF FinishToolChat, UsageKinds
  <2> QED
    BY <1>8, <2>1, LockedChargeOnce DEF FinishToolChat
<1>7. CASE \/ RollbackPurchase(s) \/ RollbackTopup(s) \/ AuthorizeChat(s)
           \/ FailChat(s) \/ OfferTools(s) \/ FailToolChat(s)
           \/ FailTranscription(s) \/ ReadIndexCharge(s) \/ LockTimeout(s)
  BY <1>7, LedgerKept
     DEF RollbackPurchase, RollbackTopup, AuthorizeChat, FailChat, OfferTools,
         FailToolChat, FailTranscription, ReadIndexCharge, LockTimeout
<1> QED
  BY <1>2, <1>3, <1>4, <1>5, <1>6, <1>7, <1>8 DEF Advance

LEMMA OnceStep ==
    ASSUME OnceInv, [Next]_vars
    PROVE  OnceInv'
<1>1. TypeInv'
  BY TypeStep DEF OnceInv
<1>2. ASSUME NEW k \in Keys, AnswerWithoutWriting(k)
      PROVE  ledger' = ledger
  BY <1>2 DEF AnswerWithoutWriting, vars
<1>3. ASSUME NEW s \in Sessions, NEW k \in Keys, Begin(s, k)
      PROVE  ledger' = ledger
  BY <1>3 DEF Begin, ReadPurchase, ReadTopup, PrecheckChat, StartTranscription,
              StartIndexing
<1>4. ASSUME NEW s \in Sessions, Crash(s)
      PROVE  ledger' = ledger
  BY <1>4 DEF Crash
<1>5. ASSUME NEW x \in subs, ExpireSubscription(x)
      PROVE  ledger' = ledger
  BY <1>5 DEF ExpireSubscription
<1>6. CASE UNCHANGED vars
  BY <1>1, <1>6, LedgerKept DEF vars, OnceInv
<1>7. CASE Next
  BY <1>1, <1>2, <1>3, <1>4, <1>5, <1>7, LedgerKept, AdvanceOnce DEF Next, OnceInv
<1> QED
  BY <1>6, <1>7

(* No redelivery, double submission or crash posts an idempotency key      *)
(* twice.                                                                  *)
THEOREM PostedOnce == Spec => []OneEntryPerKey
<1>1. Init => OnceInv
  BY TypeInit DEF Init, OnceInv, OneEntryPerKey, RowsFound
<1>2. OnceInv => OneEntryPerKey
  BY DEF OnceInv
<1> QED
  BY <1>1, <1>2, OnceStep, PTL DEF Spec

-----------------------------------------------------------------------------
(* A usage event's status and the ledger agree.  The strengthening: only a *)
(* chat or a voice message is ever reported completed or billing_failed.   *)

UsageFits ==
    \A k \in Keys :
        usage[k] \in {"completed", "billing_failed"} => Op(k) \in {"chat", "voice"}

UsageInv == TypeInv /\ UsageSettled /\ UsageFits

(* What an append makes _existing_ledger find.                             *)
LEMMA AppendPosts ==
    ASSUME TypeInv, NEW k \in Keys, NEW e \in LedgerEntry, e.key = EntryKey(k),
           e.kind # "subscription_payment", ledger' = Append(ledger, e)
    PROVE  \A j \in Keys : Posted(j)' <=> (Posted(j) \/ (j = k /\ Requests[k].keyed))
<1>1. /\ Len(ledger) \in Nat /\ DOMAIN ledger = 1 .. Len(ledger)
      /\ DOMAIN ledger' = 1 .. Len(ledger) + 1
      /\ \A i \in 1 .. Len(ledger) : ledger'[i] = ledger[i]
      /\ ledger'[Len(ledger) + 1] = e
  BY AppendedRows
<1>2. DOMAIN ledger' = DOMAIN ledger \cup {Len(ledger) + 1}
  BY <1>1
<1> QED
  BY <1>1, <1>2, NoKeyAssumption DEF Posted, EntryKey

LEMMA AppendPurchasePosts ==
    ASSUME TypeInv, NEW k \in Keys, NEW e \in LedgerEntry, NEW f \in LedgerEntry,
           e.key = EntryKey(k), f.key = EntryKey(k),
           e.kind = "subscription_payment", f.kind # "subscription_payment",
           ledger' = ledger \o <<e, f>>
    PROVE  \A j \in Keys : Posted(j)' <=> (Posted(j) \/ (j = k /\ Requests[k].keyed))
<1>1. /\ Len(ledger) \in Nat /\ DOMAIN ledger = 1 .. Len(ledger)
      /\ DOMAIN ledger' = 1 .. Len(ledger) + 2
      /\ \A i \in 1 .. Len(ledger) : ledger'[i] = ledger[i]
      /\ ledger'[Len(ledger) + 1] = e
      /\ ledger'[Len(ledger) + 2] = f
  BY TwoAppendedRows
<1>2. ASSUME NEW j \in Keys, Posted(j)
      PROVE  Posted(j)'
  BY <1>1, <1>2 DEF Posted
<1>3. ASSUME Requests[k].keyed
      PROVE  Posted(k)'
  <2>1. Len(ledger) + 2 \in DOMAIN ledger'
    BY <1>1
  <2> QED
    BY <1>1, <1>3, <2>1 DEF Posted, EntryKey
<1>4. ASSUME NEW j \in Keys, Posted(j)', ~Posted(j)
      PROVE  j = k /\ Requests[k].keyed
  <2>1. PICK i \in DOMAIN ledger' : ledger'[i].key = j /\ ledger'[i].kind # "subscription_payment"
    BY <1>4 DEF Posted
  <2>2. i = Len(ledger) + 2
    BY <1>1, <1>4, <2>1 DEF Posted
  <2> QED
    BY <1>1, <1>4, <2>1, <2>2, NoKeyAssumption DEF Posted, EntryKey
<1> QED
  BY <1>2, <1>3, <1>4

(* What each commit posts.                                                 *)
LEMMA PurchasePosts ==
    ASSUME TypeInv, NEW s \in Sessions, CommitPurchase(s)
    PROVE  \A j \in Keys : Posted(j)' <=> (Posted(j) \/ j = session[s].key)
<1> DEFINE k == session[s].key
           row == session[s].loaded
           after == AfterPurchase(row, k)
           payment == Entry(k, "subscription_payment", 0, -WalletPayment(k),
                            after, FALSE)
           gift == Entry(k, "subscription_gift_credit", GiftCredited(k), 0,
                         after, FALSE)
<1>1. /\ k \in Keys /\ row \in AccountRow /\ Requests[k].keyed
      /\ ledger' = ledger \o <<payment, gift>>
  BY SessionFacts, RequestsAssumption DEF CommitPurchase, Op
<1>2. after \in AccountRow
  BY <1>1, AfterPurchaseType
<1>3. /\ -WalletPayment(k) \in Int /\ GiftCredited(k) \in Int /\ 0 \in Int
      /\ {"subscription_payment", "subscription_gift_credit"} \subseteq Kinds
  BY <1>1, RequestFacts DEF Kinds
<1>4. /\ payment.key = EntryKey(k) /\ payment.kind = "subscription_payment"
      /\ gift.key = EntryKey(k) /\ gift.kind # "subscription_payment"
  BY DEF Entry, EntryKey
<1> HIDE DEF k, row, after
<1>5. payment \in LedgerEntry /\ gift \in LedgerEntry
  BY <1>1, <1>2, <1>3, EntryType
<1> HIDE DEF payment, gift
<1>6. \A j \in Keys : Posted(j)' <=> (Posted(j) \/ (j = k /\ Requests[k].keyed))
  BY <1>1, <1>4, <1>5, AppendPurchasePosts
<1> QED
  BY <1>1, <1>6 DEF k

LEMMA TopupPosts ==
    ASSUME TypeInv, NEW s \in Sessions, CommitTopup(s)
    PROVE  \A j \in Keys : Posted(j)' <=>
              (Posted(j) \/ (j = session[s].key /\ Requests[session[s].key].keyed))
<1> DEFINE k == session[s].key
           row == session[s].loaded
           after == AfterTopup(row, k, session[s].discount)
           e == Entry(k, "paid_topup_credit", 0, Requests[k].amount, after,
                      session[s].discount)
<1>1. /\ k \in Keys /\ row \in AccountRow /\ session[s].discount \in BOOLEAN
      /\ ledger' = Append(ledger, e)
  BY SessionFacts DEF CommitTopup
<1>2. after \in AccountRow /\ Requests[k].amount \in Int /\ 0 \in Int
  BY <1>1, AfterTopupType, RequestFacts
<1>3. e.key = EntryKey(k) /\ e.kind # "subscription_payment"
  BY DEF Entry, EntryKey
<1>4. "paid_topup_credit" \in Kinds
  BY DEF Kinds
<1> HIDE DEF k, row, after
<1>5. e \in LedgerEntry
  BY <1>1, <1>2, <1>4, EntryType
<1> HIDE DEF e
<1>6. \A j \in Keys : Posted(j)' <=> (Posted(j) \/ (j = k /\ Requests[k].keyed))
  BY <1>1, <1>3, <1>5, AppendPosts
<1> QED
  BY <1>6 DEF k

LEMMA ChargeEntryPosts ==
    ASSUME TypeInv, NEW k \in Keys, NEW kind \in UsageKinds, NEW row \in AccountRow,
           NEW cost \in Nat, ledger' = Append(ledger, ChargeEntry(k, kind, row, cost))
    PROVE  \A j \in Keys : Posted(j)' <=> (Posted(j) \/ (j = k /\ Requests[k].keyed))
<1> DEFINE e == ChargeEntry(k, kind, row, cost)
<1>1. e \in LedgerEntry
  BY ChargeEntryType
<1>2. e.key = EntryKey(k) /\ e.kind # "subscription_payment"
  BY DEF ChargeEntry, Entry, EntryKey, UsageKinds
<1> HIDE DEF e
<1> QED
  BY <1>1, <1>2, AppendPosts DEF e

LEMMA LockedChargePosts ==
    ASSUME TypeInv, NEW k \in Keys, NEW kind \in UsageKinds, NEW cost \in Costs,
           Requests[k].keyed, ChargeUnderLock(k, kind, cost)
    PROVE  \A j \in Keys : Posted(j)' <=>
              (Posted(j) \/ (j = k /\ Available(account[User(k)]) >= cost))
<1>1. account[User(k)] \in AccountRow /\ cost \in Nat
  BY RequestFacts, CostsAssumption DEF TypeInv, TypeOK
<1>2. Available(account[User(k)]) \in Int
  BY <1>1 DEF Available, AccountRow, Columns
<1>3. CASE /\ Available(account[User(k)]) >= cost
           /\ ledger' = Append(ledger, ChargeEntry(k, kind, account[User(k)], cost))
  BY <1>1, <1>3, ChargeEntryPosts
<1>4. CASE /\ Posted(k) \/ Available(account[User(k)]) < cost
           /\ ledger' = ledger
  <2>1. \A j \in Keys : Posted(j)' <=> Posted(j)
    BY <1>4 DEF Posted
  <2> QED
    BY <1>1, <1>2, <1>4, <2>1
<1> QED
  BY <1>3, <1>4 DEF ChargeUnderLock

(* The status of one event that is not being charged changes.              *)
LEMMA StatusKept ==
    ASSUME UsageInv, ledger' = ledger,
           \/ usage' = usage
           \/ \E k \in Keys, v \in {"authorized", "failed"} : usage' = [usage EXCEPT ![k] = v]
    PROVE  UsageSettled' /\ UsageFits'
<1>1. \A j \in Keys : Posted(j)' <=> Posted(j)
  BY DEF Posted
<1> QED
  BY <1>1 DEF UsageInv, UsageSettled, UsageFits, TypeInv, TypeOK, Op

(* A commit of something that is not a metered usage.                      *)
LEMMA OtherPosted ==
    ASSUME UsageInv, NEW k \in Keys, Op(k) \notin {"chat", "voice"}, usage' = usage,
           \A j \in Keys : Posted(j)' <=> (Posted(j) \/ (j = k /\ Requests[k].keyed))
    PROVE  UsageSettled' /\ UsageFits'
BY DEF UsageInv, UsageSettled, UsageFits, Op

LEMMA LockedChargeSettles ==
    ASSUME UsageInv, NEW k \in Keys, NEW kind \in UsageKinds, NEW cost \in Costs,
           Op(k) \in {"chat", "voice"}, ChargeUnderLock(k, kind, cost)
    PROVE  UsageSettled' /\ UsageFits'
<1>1. \A j \in Keys : Posted(j)' <=>
         (Posted(j) \/ (j = k /\ Available(account[User(k)]) >= cost))
  BY LockedChargePosts, RequestsAssumption DEF UsageInv, Op
<1>2. /\ usage \in [Keys -> UsageStatus]
      /\ usage' = [usage EXCEPT ![k] = ChargeOutcome(k, cost)]
  BY DEF ChargeUnderLock, UsageInv, TypeInv, TypeOK
<1> QED
  BY <1>1, <1>2 DEF UsageInv, UsageSettled, UsageFits, ChargeOutcome, Op

LEMMA AdvanceSettles ==
    ASSUME UsageInv, NEW s \in Sessions, Advance(s)
    PROVE  UsageSettled' /\ UsageFits'
<1> DEFINE k == session[s].key
<1>1. /\ TypeInv
      /\ {"chat_completion_usage", "voice_transcription", "rag_embedding"} \subseteq UsageKinds
  BY DEF UsageInv, UsageKinds
<1>2. CASE CommitPurchase(s)
  <2>1. k \in Keys /\ Op(k) = "purchase" /\ usage' = usage /\ Requests[k].keyed
    BY <1>1, <1>2, SessionFacts, RequestsAssumption DEF CommitPurchase, Op
  <2>2. \A j \in Keys : Posted(j)' <=> (Posted(j) \/ (j = k /\ Requests[k].keyed))
    BY <1>1, <1>2, <2>1, PurchasePosts
  <2> QED
    BY <2>1, <2>2, OtherPosted
<1>3. CASE CommitTopup(s)
  <2>1. k \in Keys /\ Op(k) = "topup" /\ usage' = usage
    BY <1>1, <1>3, SessionFacts DEF CommitTopup
  <2>2. \A j \in Keys : Posted(j)' <=> (Posted(j) \/ (j = k /\ Requests[k].keyed))
    BY <1>1, <1>3, TopupPosts
  <2> QED
    BY <2>1, <2>2, OtherPosted
<1>4. CASE CommitIndexCharge(s)
  <2>1. /\ k \in Keys /\ Op(k) = "index" /\ usage' = usage
        /\ session[s].loaded \in AccountRow /\ Requests[k].amount \in Nat
        /\ ledger' = Append(ledger, ChargeEntry(k, "rag_embedding", session[s].loaded,
                                                Requests[k].amount))
    BY <1>1, <1>4, SessionFacts, RequestFacts DEF CommitIndexCharge
  <2>2. \A j \in Keys : Posted(j)' <=> (Posted(j) \/ (j = k /\ Requests[k].keyed))
    BY <1>1, <2>1, ChargeEntryPosts
  <2> QED
    BY <2>1, <2>2, OtherPosted
<1>5. ASSUME NEW cost \in Costs, FinishChat(s, cost) \/ FinishToolChat(s, cost)
      PROVE  UsageSettled' /\ UsageFits'
  <2>1. /\ k \in Keys /\ Op(k) = "chat"
        /\ ChargeUnderLock(k, "chat_completion_usage", cost)
    BY <1>1, <1>5, SessionFacts DEF FinishChat, FinishToolChat, PcFits
  <2> QED
    BY <1>1, <2>1, LockedChargeSettles
<1>6. ASSUME NEW cost \in Costs, FinishTranscription(s, cost)
      PROVE  UsageSettled' /\ UsageFits'
  <2>1. /\ k \in Keys /\ Op(k) = "voice"
        /\ ChargeUnderLock(k, "voice_transcription", cost)
    BY <1>1, <1>6, SessionFacts DEF FinishTranscription, PcFits
  <2> QED
    BY <1>1, <2>1, LockedChargeSettles
<1>7. CASE FailChat(s) \/ OfferTools(s) \/ FailToolChat(s) \/ FailTranscription(s)
  <2>1. /\ k \in Keys /\ ledger' = ledger
        /\ \E v \in {"authorized", "failed"} : usage' = [usage EXCEPT ![k] = v]
    BY <1>1, <1>7, SessionFacts DEF FailChat, OfferTools, FailToolChat, FailTranscription
  <2> QED
    BY <2>1, StatusKept
<1>8. CASE \/ RollbackPurchase(s) \/ RollbackTopup(s) \/ AuthorizeChat(s)
           \/ ReadIndexCharge(s) \/ LockTimeout(s)
  <2>1. ledger' = ledger /\ usage' = usage
    BY <1>8 DEF RollbackPurchase, RollbackTopup, AuthorizeChat, ReadIndexCharge, LockTimeout
  <2> QED
    BY <2>1, StatusKept
<1> QED
  BY <1>2, <1>3, <1>4, <1>5, <1>6, <1>7, <1>8 DEF Advance

LEMMA UsageStep ==
    ASSUME UsageInv, [Next]_vars
    PROVE  UsageInv'
<1>1. TypeInv'
  BY TypeStep DEF UsageInv
<1>2. ASSUME NEW k \in Keys, AnswerWithoutWriting(k)
      PROVE  ledger' = ledger /\ usage' = usage
  BY <1>2 DEF AnswerWithoutWriting, vars
<1>3. ASSUME NEW s \in Sessions, NEW k \in Keys, Begin(s, k)
      PROVE  /\ ledger' = ledger
             /\ \/ usage' = usage
                \/ \E v \in {"authorized", "failed"} : usage' = [usage EXCEPT ![k] = v]
  BY <1>3 DEF Begin, ReadPurchase, ReadTopup, PrecheckChat, StartTranscription,
              StartIndexing
<1>4. ASSUME NEW s \in Sessions, Crash(s)
      PROVE  ledger' = ledger /\ usage' = usage
  BY <1>4 DEF Crash
<1>5. ASSUME NEW x \in subs, ExpireSubscription(x)
      PROVE  ledger' = ledger /\ usage' = usage
  BY <1>5 DEF ExpireSubscription
<1>6. CASE UNCHANGED vars
  BY <1>1, <1>6, StatusKept DEF vars, UsageInv
<1>7. CASE Next
  BY <1>1, <1>2, <1>3, <1>4, <1>5, <1>7, StatusKept, AdvanceSettles DEF Next, UsageInv
<1> QED
  BY <1>6, <1>7

(* A usage event that the bot reports "completed" has its charge in the    *)
(* ledger, and one it reports "billing_failed" has none, whatever crashes  *)
(* or is redelivered between the authorisation and the charge.             *)
THEOREM UsagesSettled == Spec => []UsageSettled
<1>1. Init => UsageInv
  BY TypeInit DEF Init, UsageInv, UsageSettled, UsageFits
<1>2. UsageInv => UsageSettled
  BY DEF UsageInv
<1> QED
  BY <1>1, <1>2, UsageStep, PTL DEF Spec

-----------------------------------------------------------------------------
(* No pool is oversold.  The strengthening: finitely many subscriptions    *)
(* are live, so that a pool's can be counted.                              *)

PoolInv == TypeInv /\ IsFiniteSet(subs) /\ PoolNotOversold

(* Subscriptions that expire only make room.                               *)
LEMMA FewerSubsFit ==
    ASSUME PoolInv, subs' \subseteq subs, poolUsers' = poolUsers
    PROVE  IsFiniteSet(subs)' /\ PoolNotOversold'
<1>1. IsFiniteSet(subs')
  BY FS_Subset DEF PoolInv
<1>2. ASSUME NEW p \in Pools
      PROVE  /\ Cardinality(LiveInPool(p)) \in Nat
             /\ Cardinality(LiveInPool(p)') \in Nat
             /\ Cardinality(LiveInPool(p)') <= Cardinality(LiveInPool(p))
  <2>1. LiveInPool(p)' \subseteq LiveInPool(p) /\ LiveInPool(p) \subseteq subs
    BY DEF LiveInPool
  <2>2. IsFiniteSet(LiveInPool(p))
    BY <2>1, FS_Subset DEF PoolInv
  <2> QED
    BY <2>1, <2>2, FS_Subset, FS_CardinalityType
<1> QED
  BY <1>1, <1>2 DEF PoolInv, PoolNotOversold, TypeInv, TypeOK

LEMMA OneMore ==
    ASSUME NEW S, IsFiniteSet(S), NEW x
    PROVE  /\ IsFiniteSet(S \cup {x})
           /\ Cardinality(S) \in Nat /\ Cardinality(S \cup {x}) \in Nat
           /\ Cardinality(S \cup {x}) <= Cardinality(S) + 1
<1>1. Cardinality(S) \in Nat
  BY FS_CardinalityType
<1>2. CASE x \in S
  BY <1>1, <1>2, FS_AddElement
<1>3. CASE x \notin S
  BY <1>1, <1>3, FS_AddElement
<1> QED
  BY <1>2, <1>3

(* A purchase takes one place of a pool that has one.                      *)
LEMMA PurchaseFits ==
    ASSUME PoolInv, NEW s \in Sessions, CommitPurchase(s)
    PROVE  IsFiniteSet(subs)' /\ PoolNotOversold'
<1>1. PICK q \in Pools : /\ q = FirstFreePool /\ poolUsers[q] < PoolMax[q]
                         /\ poolUsers \in [Pools -> Int]
                         /\ PoolMax \in [Pools -> Nat]
  BY FirstFreePoolIsFree, PoolsAssumption
     DEF CommitPurchase, FreePools, PoolInv, TypeInv, TypeOK
<1>2. PICK x : /\ subs' = subs \cup {x} /\ x.pool = q
               /\ poolUsers' = [poolUsers EXCEPT ![q] = @ + 1]
  <2>1. /\ subs' = subs \cup {[key |-> session[s].key, pool |-> q]}
        /\ poolUsers' = [poolUsers EXCEPT ![q] = @ + 1]
    BY <1>1 DEF CommitPurchase
  <2>2. [key |-> session[s].key, pool |-> q].pool = q
    OBVIOUS
  <2> QED
    BY <2>1, <2>2
<1>4. IsFiniteSet(subs')
  BY <1>2, FS_AddElement DEF PoolInv
<1>5. ASSUME NEW p \in Pools
      PROVE  IsFiniteSet(LiveInPool(p)) /\ Cardinality(LiveInPool(p)) \in Nat
  <2>1. LiveInPool(p) \subseteq subs
    BY DEF LiveInPool
  <2> QED
    BY <2>1, FS_Subset, FS_CardinalityType DEF PoolInv
<1>6. ASSUME NEW p \in Pools \ {q}
      PROVE  LiveInPool(p)' = LiveInPool(p) /\ poolUsers'[p] = poolUsers[p]
  BY <1>1, <1>2, <1>6 DEF LiveInPool
<1>7. /\ Cardinality(LiveInPool(q)') \in Nat
      /\ Cardinality(LiveInPool(q)') <= Cardinality(LiveInPool(q)) + 1
  <2>1. LiveInPool(q)' = LiveInPool(q) \cup {x}
    BY <1>2 DEF LiveInPool
  <2> QED
    BY <1>1, <1>5, <2>1, OneMore
<1>8. poolUsers'[q] = poolUsers[q] + 1
  BY <1>1, <1>2
<1>9. ASSUME NEW p \in Pools
      PROVE  /\ Cardinality(LiveInPool(p)') <= poolUsers'[p]
             /\ poolUsers'[p] <= PoolMax[p]
  <2>1. /\ Cardinality(LiveInPool(p)) <= poolUsers[p] /\ poolUsers[p] <= PoolMax[p]
        /\ Cardinality(LiveInPool(p)) \in Nat /\ poolUsers[p] \in Int
    BY <1>1, <1>5 DEF PoolInv, PoolNotOversold
  <2>2. CASE p = q
    BY <1>1, <1>7, <1>8, <2>1, <2>2
  <2>3. CASE p # q
    BY <1>6, <2>1, <2>3
  <2> QED
    BY <2>2, <2>3
<1> QED
  BY <1>4, <1>9 DEF PoolNotOversold

LEMMA PoolStep ==
    ASSUME PoolInv, [Next]_vars
    PROVE  PoolInv'
<1>1. TypeInv'
  BY TypeStep DEF PoolInv
<1>2. ASSUME NEW k \in Keys, AnswerWithoutWriting(k)
      PROVE  subs' \subseteq subs /\ poolUsers' = poolUsers
  BY <1>2 DEF AnswerWithoutWriting, vars
<1>3. ASSUME NEW s \in Sessions, NEW k \in Keys, Begin(s, k)
      PROVE  subs' \subseteq subs /\ poolUsers' = poolUsers
  BY <1>3 DEF Begin, ReadPurchase, ReadTopup, PrecheckChat, StartTranscription,
              StartIndexing
<1>4. ASSUME NEW s \in Sessions, Advance(s), ~CommitPurchase(s)
      PROVE  subs' \subseteq subs /\ poolUsers' = poolUsers
  BY <1>4 DEF Advance, RollbackPurchase, CommitTopup, RollbackTopup, AuthorizeChat,
              FinishChat, FailChat, OfferTools, FinishToolChat, FailToolChat,
              FinishTranscription, FailTranscription, ReadIndexCharge,
              CommitIndexCharge, LockTimeout
<1>5. ASSUME NEW s \in Sessions, Crash(s)
      PROVE  subs' \subseteq subs /\ poolUsers' = poolUsers
  BY <1>5 DEF Crash
<1>6. ASSUME NEW x \in subs, ExpireSubscription(x)
      PROVE  subs' \subseteq subs /\ poolUsers' = poolUsers
  BY <1>6 DEF ExpireSubscription
<1>7. CASE UNCHANGED vars
  BY <1>1, <1>7, FewerSubsFit DEF vars, PoolInv
<1>8. CASE Next
  BY <1>1, <1>2, <1>3, <1>4, <1>5, <1>6, <1>8, FewerSubsFit, PurchaseFits
     DEF Next, PoolInv
<1> QED
  BY <1>7, <1>8

LEMMA PoolInit == ASSUME Init PROVE PoolInv
<1>1. TypeInv /\ IsFiniteSet(subs)
  BY TypeInit, FS_EmptySet DEF Init
<1>2. ASSUME NEW p \in Pools
      PROVE  Cardinality(LiveInPool(p)) = 0
  <2>1. LiveInPool(p) = {}
    BY DEF Init, LiveInPool
  <2> QED
    BY <2>1, FS_EmptySet
<1> QED
  BY <1>1, <1>2, PoolsAssumption DEF Init, PoolInv, PoolNotOversold

(* However many purchases race for the last place, no pool holds more live *)
(* subscriptions than it counts, nor counts more than max_users.           *)
THEOREM PoolsNotOversold == Spec => []PoolNotOversold
<1>1. PoolInv => PoolNotOversold
  BY DEF PoolInv
<1> QED
  BY <1>1, PoolInit, PoolStep, PTL DEF Spec

-----------------------------------------------------------------------------
(* Every move of a balance is journaled.                                   *)

(* What an append and a move of one user's balances must say together.     *)
LEMMA MoveJournaled ==
    ASSUME TypeInv, NEW u \in Users, NEW row \in AccountRow, NEW n \in Nat,
           account' = [account EXCEPT ![u] = row],
           DOMAIN ledger' = 1 .. n, ledger' \in Seq(LedgerEntry), n > Len(ledger),
           \A i \in 1 .. Len(ledger) : ledger'[i] = ledger[i],
           ledger'[n].user = u,
           row.gift # account[u].gift => ledger'[n].giftAfter = row.gift,
           row.paid # account[u].paid => ledger'[n].paidAfter = row.paid
    PROVE  JournaledMove
<1>1. Len(ledger') = n /\ Len(ledger) \in Nat /\ ledger \in Seq(LedgerEntry)
  BY DEF TypeInv, TypeOK
<1>2. SubSeq(ledger', 1, Len(ledger)) = ledger
  BY <1>1
<1>3. ASSUME NEW v \in Users
      PROVE  /\ account[v].gift # account'[v].gift =>
                   /\ Len(ledger') > Len(ledger) /\ ledger'[n].user = v
                   /\ ledger'[n].giftAfter = account'[v].gift
             /\ account[v].paid # account'[v].paid =>
                   /\ Len(ledger') > Len(ledger) /\ ledger'[n].user = v
                   /\ ledger'[n].paidAfter = account'[v].paid
  BY <1>1 DEF TypeInv, TypeOK
<1> QED
  BY <1>1, <1>2, <1>3 DEF JournaledMove

(* A step that moves no balance.                                           *)
LEMMA NothingMoved ==
    ASSUME TypeInv, account' = account, ledger' = ledger
    PROVE  JournaledMove
<1>1. ledger \in Seq(LedgerEntry) /\ Len(ledger) \in Nat
  BY DEF TypeInv, TypeOK
<1>2. SubSeq(ledger', 1, Len(ledger)) = ledger
  BY <1>1
<1> QED
  BY <1>2 DEF JournaledMove

(* A flush leaves in a column the value the entry recorded, or what the    *)
(* database held.                                                          *)
LEMMA FlushRecords ==
    ASSUME NEW current \in AccountRow, NEW loaded \in AccountRow, NEW changed \in AccountRow
    PROVE  LET row == Flush(current, loaded, changed)
           IN  /\ row.gift # current.gift => changed.gift = row.gift
               /\ row.paid # current.paid => changed.paid = row.paid
BY DEF Flush, Columns

LEMMA CommitJournaled ==
    ASSUME TypeInv, TypeInv', NEW s \in Sessions, session[s].pc # "idle",
           NEW after \in AccountRow, NEW n \in Nat, n > Len(ledger),
           account' = [account EXCEPT ![User(session[s].key)] =
                          Flush(@, session[s].loaded, after)],
           DOMAIN ledger' = 1 .. n,
           \A i \in 1 .. Len(ledger) : ledger'[i] = ledger[i],
           ledger'[n].user = User(session[s].key),
           ledger'[n].giftAfter = after.gift, ledger'[n].paidAfter = after.paid
    PROVE  JournaledMove
<1>1. PICK u \in Users : u = User(session[s].key)
  BY SessionFacts
<1>2. /\ session[s].loaded \in AccountRow /\ account[u] \in AccountRow
      /\ ledger' \in Seq(LedgerEntry)
  BY SessionFacts DEF TypeInv, TypeOK
<1>3. PICK row \in AccountRow : row = Flush(account[u], session[s].loaded, after)
  BY <1>2, FlushType
<1>4. /\ row.gift # account[u].gift => ledger'[n].giftAfter = row.gift
      /\ row.paid # account[u].paid => ledger'[n].paidAfter = row.paid
  BY <1>2, <1>3, FlushRecords
<1>5. account' = [account EXCEPT ![u] = row] /\ ledger'[n].user = u
  BY <1>1, <1>3
<1>6. /\ DOMAIN ledger' = 1 .. n /\ n > Len(ledger)
      /\ \A i \in 1 .. Len(ledger) : ledger'[i] = ledger[i]
  OBVIOUS
<1> QED
  BY <1>2, <1>4, <1>5, <1>6, MoveJournaled

LEMMA LockedChargeJournaled ==
    ASSUME TypeInv, TypeInv', NEW k \in Keys, NEW kind \in UsageKinds,
           NEW cost \in Costs, ChargeUnderLock(k, kind, cost)
    PROVE  JournaledMove
<1> DEFINE row == AfterCharge(account[User(k)], cost)
           e == ChargeEntry(k, kind, account[User(k)], cost)
<1>1. CASE account' = account /\ ledger' = ledger
  BY <1>1, NothingMoved
<1>2. CASE /\ account' = [account EXCEPT ![User(k)] = row]
           /\ ledger' = Append(ledger, e)
  <2>1. account[User(k)] \in AccountRow /\ cost \in Nat /\ User(k) \in Users
    BY RequestFacts, CostsAssumption DEF TypeInv, TypeOK
  <2>2. e \in LedgerEntry /\ row \in AccountRow
    BY <2>1, ChargeEntryType, AfterChargeType
  <2>3. e.user = User(k) /\ e.giftAfter = row.gift /\ e.paidAfter = row.paid
    BY DEF ChargeEntry, Entry
  <2> HIDE DEF e, row
  <2>4. /\ Len(ledger) \in Nat /\ DOMAIN ledger' = 1 .. Len(ledger) + 1
        /\ \A i \in 1 .. Len(ledger) : ledger'[i] = ledger[i]
        /\ ledger'[Len(ledger) + 1] = e
    BY <1>2, <2>2, AppendedRows
  <2>5. /\ ledger' \in Seq(LedgerEntry) /\ Len(ledger) + 1 \in Nat
        /\ Len(ledger) + 1 > Len(ledger)
    BY <2>4 DEF TypeInv, TypeOK
  <2> QED
    BY <1>2, <2>1, <2>2, <2>3, <2>4, <2>5, MoveJournaled
<1> QED
  BY <1>1, <1>2 DEF ChargeUnderLock

LEMMA AdvanceJournaled ==
    ASSUME TypeInv, TypeInv', NEW s \in Sessions, Advance(s)
    PROVE  JournaledMove
<1> DEFINE k == session[s].key
           row == session[s].loaded
<1>1. CASE CommitPurchase(s)
  <2> DEFINE after == AfterPurchase(row, k)
             payment == Entry(k, "subscription_payment", 0, -WalletPayment(k),
                              after, FALSE)
             gift == Entry(k, "subscription_gift_credit", GiftCredited(k), 0,
                           after, FALSE)
  <2>1. /\ k \in Keys /\ row \in AccountRow /\ session[s].pc # "idle"
        /\ ledger' = ledger \o <<payment, gift>>
        /\ account' = [account EXCEPT ![User(k)] = Flush(@, row, after)]
    BY <1>1, SessionFacts DEF CommitPurchase
  <2>2. after \in AccountRow
    BY <2>1, AfterPurchaseType
  <2>3. /\ -WalletPayment(k) \in Int /\ GiftCredited(k) \in Int /\ 0 \in Int
        /\ {"subscription_payment", "subscription_gift_credit"} \subseteq Kinds
    BY <2>1, RequestFacts DEF Kinds
  <2>4. gift.user = User(k) /\ gift.giftAfter = after.gift /\ gift.paidAfter = after.paid
    BY DEF Entry
  <2> HIDE DEF after
  <2>5. payment \in LedgerEntry /\ gift \in LedgerEntry
    BY <2>1, <2>2, <2>3, EntryType
  <2> HIDE DEF payment, gift
  <2>6. /\ Len(ledger) \in Nat /\ DOMAIN ledger' = 1 .. Len(ledger) + 2
        /\ \A i \in 1 .. Len(ledger) : ledger'[i] = ledger[i]
        /\ ledger'[Len(ledger) + 2] = gift
    BY <2>1, <2>5, TwoAppendedRows
  <2>7. Len(ledger) + 2 \in Nat /\ Len(ledger) + 2 > Len(ledger)
    BY <2>6
  <2> QED
    BY <2>1, <2>2, <2>4, <2>6, <2>7, CommitJournaled
<1>2. CASE CommitTopup(s)
  <2> DEFINE after == AfterTopup(row, k, session[s].discount)
             e == Entry(k, "paid_topup_credit", 0, Requests[k].amount, after,
                        session[s].discount)
  <2>1. /\ k \in Keys /\ row \in AccountRow /\ session[s].discount \in BOOLEAN
        /\ session[s].pc # "idle" /\ ledger' = Append(ledger, e)
        /\ account' = [account EXCEPT ![User(k)] = Flush(@, row, after)]
    BY <1>2, SessionFacts DEF CommitTopup
  <2>2. /\ after \in AccountRow /\ Requests[k].amount \in Int /\ 0 \in Int
        /\ "paid_topup_credit" \in Kinds
    BY <2>1, AfterTopupType, RequestFacts DEF Kinds
  <2>3. e.user = User(k) /\ e.giftAfter = after.gift /\ e.paidAfter = after.paid
    BY DEF Entry
  <2> HIDE DEF after
  <2>4. e \in LedgerEntry
    BY <2>1, <2>2, EntryType
  <2> HIDE DEF e
  <2>5. /\ Len(ledger) \in Nat /\ DOMAIN ledger' = 1 .. Len(ledger) + 1
        /\ \A i \in 1 .. Len(ledger) : ledger'[i] = ledger[i]
        /\ ledger'[Len(ledger) + 1] = e
    BY <2>1, <2>4, AppendedRows
  <2>6. Len(ledger) + 1 \in Nat /\ Len(ledger) + 1 > Len(ledger)
    BY <2>5
  <2> QED
    BY <2>1, <2>2, <2>3, <2>5, <2>6, CommitJournaled
<1>3. CASE CommitIndexCharge(s)
  <2> DEFINE after == AfterCharge(row, Requests[k].amount)
             e == ChargeEntry(k, "rag_embedding", row, Requests[k].amount)
  <2>1. /\ k \in Keys /\ row \in AccountRow /\ Requests[k].amount \in Nat
        /\ session[s].pc # "idle" /\ ledger' = Append(ledger, e)
        /\ account' = [account EXCEPT ![User(k)] = Flush(@, row, after)]
    BY <1>3, SessionFacts, RequestFacts DEF CommitIndexCharge
  <2>2. after \in AccountRow
    BY <2>1, AfterChargeType
  <2>3. e.user = User(k) /\ e.giftAfter = after.gift /\ e.paidAfter = after.paid
    BY DEF ChargeEntry, Entry
  <2>4. e \in LedgerEntry
    BY <2>1, ChargeEntryType DEF UsageKinds
  <2> HIDE DEF after, e
  <2>5. /\ Len(ledger) \in Nat /\ DOMAIN ledger' = 1 .. Len(ledger) + 1
        /\ \A i \in 1 .. Len(ledger) : ledger'[i] = ledger[i]
        /\ ledger'[Len(ledger) + 1] = e
    BY <2>1, <2>4, AppendedRows
  <2>6. Len(ledger) + 1 \in Nat /\ Len(ledger) + 1 > Len(ledger)
    BY <2>5
  <2> QED
    BY <2>1, <2>2, <2>3, <2>5, <2>6, CommitJournaled
<1>4. ASSUME NEW cost \in Costs, FinishChat(s, cost) \/ FinishToolChat(s, cost)
      PROVE  JournaledMove
  <2>1. k \in Keys /\ ChargeUnderLock(k, "chat_completion_usage", cost)
    BY <1>4, SessionFacts DEF FinishChat, FinishToolChat
  <2> QED
    BY <2>1, LockedChargeJournaled DEF UsageKinds
<1>5. ASSUME NEW cost \in Costs, FinishTranscription(s, cost)
      PROVE  JournaledMove
  <2>1. k \in Keys /\ ChargeUnderLock(k, "voice_transcription", cost)
    BY <1>5, SessionFacts DEF FinishTranscription
  <2> QED
    BY <2>1, LockedChargeJournaled DEF UsageKinds
<1>6. CASE \/ RollbackPurchase(s) \/ RollbackTopup(s) \/ AuthorizeChat(s)
           \/ FailChat(s) \/ OfferTools(s) \/ FailToolChat(s)
           \/ FailTranscription(s) \/ ReadIndexCharge(s) \/ LockTimeout(s)
  BY <1>6, NothingMoved
     DEF RollbackPurchase, RollbackTopup, AuthorizeChat, FailChat, OfferTools,
         FailToolChat, FailTranscription, ReadIndexCharge, LockTimeout
<1> QED
  BY <1>1, <1>2, <1>3, <1>4, <1>5, <1>6 DEF Advance

LEMMA JournaledStep ==
    ASSUME TypeInv, TypeInv', [Next]_vars
    PROVE  JournaledMove
<1>1. ASSUME NEW k \in Keys, AnswerWithoutWriting(k)
      PROVE  account' = account /\ ledger' = ledger
  BY <1>1 DEF AnswerWithoutWriting, vars
<1>2. ASSUME NEW s \in Sessions, NEW k \in Keys, Begin(s, k)
      PROVE  account' = account /\ ledger' = ledger
  BY <1>2 DEF Begin, ReadPurchase, ReadTopup, PrecheckChat, StartTranscription,
              StartIndexing
<1>3. ASSUME NEW s \in Sessions, Crash(s)
      PROVE  account' = account /\ ledger' = ledger
  BY <1>3 DEF Crash
<1>4. ASSUME NEW x \in subs, ExpireSubscription(x)
      PROVE  account' = account /\ ledger' = ledger
  BY <1>4 DEF ExpireSubscription
<1>5. CASE UNCHANGED vars
  BY <1>5, NothingMoved DEF vars
<1>6. CASE Next
  BY <1>1, <1>2, <1>3, <1>4, <1>6, NothingMoved, AdvanceJournaled DEF Next
<1> QED
  BY <1>5, <1>6

(* No commit rewrites the ledger, and none moves a balance without a row   *)
(* of that user that records the value the column takes.                   *)
THEOREM MovesJournaled == Spec => JournaledMoves
<1>1. TypeInv /\ TypeInv' /\ [Next]_vars => [JournaledMove]_vars
  BY JournaledStep
<1> QED
  BY <1>1, TypesHold, PTL DEF Spec, JournaledMoves

-----------------------------------------------------------------------------
(* Sums.  Induction on the naturals, as a fact about sets of naturals.     *)

LEMMA SetInduction ==
    ASSUME NEW S \in SUBSET Nat, 0 \in S, \A n \in S : n + 1 \in S
    PROVE  S = Nat
<1> DEFINE R == {ss \in Nat \X Nat : ss[1] < ss[2]}
           T == Nat \ S
<1>1. IsWellFoundedOn(R, Nat)
  BY NatLessThanWellFounded, Zenon DEF OpToRel
<1>2. ASSUME T # {}
      PROVE  FALSE
  <2>1. T \subseteq Nat
    OBVIOUS
  <2> HIDE DEF R, T
  <2>2. PICK x \in T : \A y \in T : ~(<<y, x>> \in R)
    BY <1>1, <1>2, <2>1, WFMin
  <2> USE DEF R, T
  <2>3. x \in Nat /\ x # 0
    OBVIOUS
  <2>4. x - 1 \in Nat /\ (x - 1) + 1 = x
    BY <2>3
  <2>5. x - 1 \in T
    BY <2>4
  <2>6. <<x - 1, x>> \in R
    BY <2>3, <2>4
  <2> QED
    BY <2>2, <2>5, <2>6
<1> QED
  BY <1>2

(* The recursive function that Total chooses.                              *)
IsSum(sum, deltas, n) ==
    sum = [i \in 0 .. n |-> IF i = 0 THEN 0 ELSE sum[i - 1] + deltas[i]]

LEMMA SumExists ==
    ASSUME NEW deltas, NEW n \in Nat
    PROVE  \E sum : IsSum(sum, deltas, n)
<1> DEFINE S == {m \in Nat : \E sum : IsSum(sum, deltas, m)}
<1>1. 0 \in S
  <2>1. IsSum([i \in 0 .. 0 |-> 0], deltas, 0)
    BY DEF IsSum
  <2> QED
    BY <2>1
<1>2. ASSUME NEW m \in S
      PROVE  m + 1 \in S
  <2>1. PICK f : IsSum(f, deltas, m)
    OBVIOUS
  <2> DEFINE g == [i \in 0 .. m + 1 |-> IF i = m + 1 THEN f[m] + deltas[m + 1]
                                                     ELSE f[i]]
  <2>2. ASSUME NEW i \in 0 .. m + 1
        PROVE  g[i] = IF i = 0 THEN 0 ELSE g[i - 1] + deltas[i]
    <3>1. CASE i = m + 1
      BY <3>1
    <3>2. CASE i \in 0 .. m
      BY <2>1, <3>2 DEF IsSum
    <3> QED
      BY <3>1, <3>2
  <2>3. IsSum(g, deltas, m + 1)
    <3>1. g = [i \in 0 .. m + 1 |-> g[i]]
      OBVIOUS
    <3> HIDE DEF g
    <3> QED
      BY <2>2, <3>1 DEF IsSum
  <2> QED
    BY <2>3
<1> HIDE DEF S
<1>3. S = Nat
  <2>1. S \in SUBSET Nat
    BY DEF S
  <2> QED
    BY <1>1, <1>2, <2>1, SetInduction
<1> QED
  BY <1>3 DEF S

LEMMA SumsAgree ==
    ASSUME NEW f, NEW g, NEW d, NEW e, NEW m \in Nat, NEW n \in Nat, NEW k \in Nat,
           k <= m, k <= n, IsSum(f, d, m), IsSum(g, e, n),
           \A i \in 1 .. k : d[i] = e[i]
    PROVE  f[k] = g[k]
<1> DEFINE S == {j \in Nat : j <= k => f[j] = g[j]}
<1>1. 0 \in S
  <2>1. f[0] = 0 /\ g[0] = 0
    BY DEF IsSum
  <2> QED
    BY <2>1
<1>2. ASSUME NEW j \in S
      PROVE  j + 1 \in S
  <2>1. CASE j + 1 <= k
    <3>1. f[j] = g[j] /\ d[j + 1] = e[j + 1]
      BY <2>1
    <3>2. j + 1 \in 0 .. m /\ j + 1 \in 0 .. n /\ j + 1 # 0 /\ (j + 1) - 1 = j
      BY <2>1
    <3>3. f[j + 1] = f[j] + d[j + 1] /\ g[j + 1] = g[j] + e[j + 1]
      BY <3>2 DEF IsSum
    <3> QED
      BY <3>1, <3>3
  <2>2. CASE ~(j + 1 <= k)
    BY <2>2
  <2> QED
    BY <2>1, <2>2
<1> HIDE DEF S
<1>3. S = Nat
  <2>1. S \in SUBSET Nat
    BY DEF S
  <2> QED
    BY <1>1, <1>2, <2>1, SetInduction
<1> QED
  BY <1>3 DEF S

LEMMA TotalIsSum ==
    ASSUME NEW deltas, NEW n \in Nat
    PROVE  \E sum : IsSum(sum, deltas, n) /\ Total(deltas, n) = sum[n]
<1> DEFINE sum == CHOOSE f : IsSum(f, deltas, n)
<1>1. IsSum(sum, deltas, n)
  BY SumExists
<1>2. Total(deltas, n) = sum[n]
  BY Zenon DEF Total, IsSum
<1> QED
  BY <1>1, <1>2

(* The empty sum, and one term more.                                       *)
LEMMA TotalZero ==
    ASSUME NEW deltas
    PROVE  Total(deltas, 0) = 0
<1>1. PICK f : IsSum(f, deltas, 0) /\ Total(deltas, 0) = f[0]
  BY TotalIsSum
<1> QED
  BY <1>1 DEF IsSum

LEMMA TotalStep ==
    ASSUME NEW d, NEW e, NEW n \in Nat, \A i \in 1 .. n : d[i] = e[i]
    PROVE  Total(d, n + 1) = Total(e, n) + d[n + 1]
<1>1. PICK f : IsSum(f, d, n + 1) /\ Total(d, n + 1) = f[n + 1]
  BY TotalIsSum
<1>2. PICK g : IsSum(g, e, n) /\ Total(e, n) = g[n]
  BY TotalIsSum
<1>3. f[n] = g[n]
  BY <1>1, <1>2, SumsAgree
<1>4. f[n + 1] = f[n] + d[n + 1]
  BY <1>1 DEF IsSum
<1> QED
  BY <1>1, <1>2, <1>3, <1>4

LEMMA TotalSame ==
    ASSUME NEW d, NEW e, NEW n \in Nat, \A i \in 1 .. n : d[i] = e[i]
    PROVE  Total(d, n) = Total(e, n)
<1>1. PICK f : IsSum(f, d, n) /\ Total(d, n) = f[n]
  BY TotalIsSum
<1>2. PICK g : IsSum(g, e, n) /\ Total(e, n) = g[n]
  BY TotalIsSum
<1> QED
  BY <1>1, <1>2, SumsAgree

LEMMA TotalType ==
    ASSUME NEW d, NEW n \in Nat, \A i \in 1 .. n : d[i] \in Int
    PROVE  Total(d, n) \in Int
<1>1. PICK f : IsSum(f, d, n) /\ Total(d, n) = f[n]
  BY TotalIsSum
<1> DEFINE S == {j \in Nat : j <= n => f[j] \in Int}
<1>2. 0 \in S
  BY <1>1 DEF IsSum
<1>3. ASSUME NEW j \in S
      PROVE  j + 1 \in S
  <2>1. CASE j + 1 <= n
    <3>1. f[j] \in Int /\ d[j + 1] \in Int
      BY <2>1
    <3>2. j + 1 \in 0 .. n /\ j + 1 # 0 /\ (j + 1) - 1 = j
      BY <2>1
    <3>3. f[j + 1] = f[j] + d[j + 1]
      BY <1>1, <3>2 DEF IsSum
    <3> QED
      BY <3>1, <3>3
  <2>2. CASE ~(j + 1 <= n)
    BY <2>2
  <2> QED
    BY <2>1, <2>2
<1> HIDE DEF S
<1>4. S = Nat
  <2>1. S \in SUBSET Nat
    BY DEF S
  <2> QED
    BY <1>2, <1>3, <2>1, SetInduction
<1> QED
  BY <1>1, <1>4 DEF S

-----------------------------------------------------------------------------
(* Executions in which no session writes from a stale row.                 *)

(* A row that a session has read and will write from is still the          *)
(* database's.                                                             *)
NoStaleRow ==
    \A s \in Sessions :
        session[s].pc = "read" => session[s].loaded = account[User(session[s].key)]

(* What a session then flushes is the row that it computed.                *)
LEMMA FlushFresh ==
    ASSUME NEW row \in AccountRow, NEW changed \in AccountRow
    PROVE  Flush(row, row, changed) = changed
BY DEF Flush, AccountRow

LEMMA PurchaseMoves ==
    ASSUME NEW row \in AccountRow, NEW k \in Keys
    PROVE  /\ AfterPurchase(row, k).gift = row.gift + GiftCredited(k)
           /\ AfterPurchase(row, k).paid = row.paid - WalletPayment(k)
<1>1. row.gift \in Int /\ row.paid \in Int
  BY DEF AccountRow, Columns
<1>2. WalletPayment(k) \in Nat /\ GiftCredited(k) \in Nat
  BY RequestFacts
<1> QED
  BY <1>1, <1>2 DEF AfterPurchase, Moved, Columns

LEMMA TopupMoves ==
    ASSUME NEW row \in AccountRow, NEW k \in Keys, NEW discounted \in BOOLEAN
    PROVE  /\ AfterTopup(row, k, discounted).gift = row.gift
           /\ AfterTopup(row, k, discounted).paid = row.paid + Requests[k].amount
<1>1. row.gift \in Int /\ row.paid \in Int /\ Requests[k].amount \in Nat
  BY RequestFacts DEF AccountRow, Columns
<1> QED
  BY <1>1 DEF AfterTopup, Moved, Columns

LEMMA ChargeMoves ==
    ASSUME NEW row \in AccountRow, NEW cost \in Nat
    PROVE  /\ AfterCharge(row, cost).gift = row.gift - GiftPart(row, cost)
           /\ AfterCharge(row, cost).paid = row.paid - PaidPart(row, cost)
<1>1. row.gift \in Int /\ row.paid \in Int
  BY DEF AccountRow, Columns
<1> QED
  BY <1>1 DEF AfterCharge, Moved, Columns, GiftPart, PaidPart

(* What a row adds to the sums of its user.                                *)
GiftOf(e, u) == IF e.user = u THEN e.giftDelta ELSE 0
PaidOf(e, u) == IF e.user = u THEN e.paidDelta ELSE 0

LEMMA SumsOfAppend ==
    ASSUME NEW rows \in Seq(LedgerEntry), NEW e \in LedgerEntry, NEW u
    PROVE  /\ GiftPosted(Append(rows, e), u) = GiftPosted(rows, u) + GiftOf(e, u)
           /\ PaidPosted(Append(rows, e), u) = PaidPosted(rows, u) + PaidOf(e, u)
           /\ GiftPosted(rows, u) \in Int /\ PaidPosted(rows, u) \in Int
           /\ GiftOf(e, u) \in Int /\ PaidOf(e, u) \in Int
<1> DEFINE n == Len(rows)
           more == Append(rows, e)
           g == [i \in DOMAIN rows |-> IF rows[i].user = u THEN rows[i].giftDelta ELSE 0]
           p == [i \in DOMAIN rows |-> IF rows[i].user = u THEN rows[i].paidDelta ELSE 0]
           gg == [i \in DOMAIN more |-> IF more[i].user = u THEN more[i].giftDelta ELSE 0]
           pp == [i \in DOMAIN more |-> IF more[i].user = u THEN more[i].paidDelta ELSE 0]
<1>1. /\ n \in Nat /\ DOMAIN rows = 1 .. n /\ DOMAIN more = 1 .. n + 1
      /\ \A i \in 1 .. n : more[i] = rows[i]
      /\ more[n + 1] = e /\ Len(more) = n + 1
  OBVIOUS
<1>2. /\ \A i \in 1 .. n : rows[i].giftDelta \in Int /\ rows[i].paidDelta \in Int
      /\ e.giftDelta \in Int /\ e.paidDelta \in Int
  <2>1. \A i \in 1 .. n : rows[i] \in LedgerEntry
    OBVIOUS
  <2> QED
    BY <2>1 DEF LedgerEntry
<1>3. /\ GiftPosted(rows, u) = Total(g, n) /\ PaidPosted(rows, u) = Total(p, n)
      /\ GiftPosted(more, u) = Total(gg, n + 1) /\ PaidPosted(more, u) = Total(pp, n + 1)
  BY <1>1 DEF GiftPosted, PaidPosted
<1> HIDE DEF more
<1>4. /\ \A i \in 1 .. n : gg[i] = g[i] /\ pp[i] = p[i]
      /\ gg[n + 1] = GiftOf(e, u) /\ pp[n + 1] = PaidOf(e, u)
      /\ \A i \in 1 .. n : g[i] \in Int /\ p[i] \in Int
  BY <1>1, <1>2 DEF GiftOf, PaidOf
<1> HIDE DEF n, g, p, gg, pp
<1>5. /\ Total(gg, n + 1) = Total(g, n) + gg[n + 1]
      /\ Total(pp, n + 1) = Total(p, n) + pp[n + 1]
  BY <1>1, <1>4, TotalStep
<1>6. Total(g, n) \in Int /\ Total(p, n) \in Int
  BY <1>1, <1>4, TotalType
<1>7. GiftOf(e, u) \in Int /\ PaidOf(e, u) \in Int
  BY <1>2 DEF GiftOf, PaidOf
<1> QED
  BY <1>3, <1>4, <1>5, <1>6, <1>7 DEF more

LEMMA SumsOfTwo ==
    ASSUME NEW rows \in Seq(LedgerEntry), NEW e \in LedgerEntry, NEW f \in LedgerEntry,
           NEW u
    PROVE  /\ GiftPosted(rows \o <<e, f>>, u)
                 = GiftPosted(rows, u) + GiftOf(e, u) + GiftOf(f, u)
           /\ PaidPosted(rows \o <<e, f>>, u)
                 = PaidPosted(rows, u) + PaidOf(e, u) + PaidOf(f, u)
<1>1. rows \o <<e, f>> = Append(Append(rows, e), f)
  OBVIOUS
<1>2. Append(rows, e) \in Seq(LedgerEntry)
  OBVIOUS
<1>3. /\ GiftPosted(Append(Append(rows, e), f), u)
            = GiftPosted(Append(rows, e), u) + GiftOf(f, u)
      /\ PaidPosted(Append(Append(rows, e), f), u)
            = PaidPosted(Append(rows, e), u) + PaidOf(f, u)
  BY <1>2, SumsOfAppend
<1> QED
  BY <1>1, <1>3, SumsOfAppend, Zenon

(* A commit that moves the balances by what its rows say.                  *)
LEMMA AppendSums ==
    ASSUME TypeInv, BalanceIsLedgerSum, NEW e \in LedgerEntry,
           ledger' = Append(ledger, e), NEW row \in AccountRow,
           account' = [account EXCEPT ![e.user] = row],
           row.gift = account[e.user].gift + e.giftDelta,
           row.paid = account[e.user].paid + e.paidDelta
    PROVE  BalanceIsLedgerSum'
<1> SUFFICES ASSUME NEW u \in Users
             PROVE  /\ account'[u].gift = Opening[u].gift + GiftPosted(ledger', u)
                    /\ account'[u].paid = Opening[u].paid + PaidPosted(ledger', u)
  BY DEF BalanceIsLedgerSum
<1>1. /\ GiftPosted(ledger', u) = GiftPosted(ledger, u) + GiftOf(e, u)
      /\ PaidPosted(ledger', u) = PaidPosted(ledger, u) + PaidOf(e, u)
      /\ GiftPosted(ledger, u) \in Int /\ PaidPosted(ledger, u) \in Int
      /\ GiftOf(e, u) \in Int /\ PaidOf(e, u) \in Int
  BY SumsOfAppend DEF TypeInv, TypeOK
<1>2. /\ account[u].gift = Opening[u].gift + GiftPosted(ledger, u)
      /\ account[u].paid = Opening[u].paid + PaidPosted(ledger, u)
      /\ Opening[u].gift \in Int /\ Opening[u].paid \in Int
  BY OpeningAssumption DEF BalanceIsLedgerSum
<1>3. /\ account'[u].gift = account[u].gift + GiftOf(e, u)
      /\ account'[u].paid = account[u].paid + PaidOf(e, u)
  BY <1>1, <1>2 DEF GiftOf, PaidOf, TypeInv, TypeOK
<1> QED
  BY <1>1, <1>2, <1>3

LEMMA AppendTwoSums ==
    ASSUME TypeInv, BalanceIsLedgerSum, NEW e \in LedgerEntry, NEW f \in LedgerEntry,
           ledger' = ledger \o <<e, f>>, NEW row \in AccountRow, f.user = e.user,
           account' = [account EXCEPT ![e.user] = row],
           row.gift = account[e.user].gift + e.giftDelta + f.giftDelta,
           row.paid = account[e.user].paid + e.paidDelta + f.paidDelta
    PROVE  BalanceIsLedgerSum'
<1> SUFFICES ASSUME NEW u \in Users
             PROVE  /\ account'[u].gift = Opening[u].gift + GiftPosted(ledger', u)
                    /\ account'[u].paid = Opening[u].paid + PaidPosted(ledger', u)
  BY DEF BalanceIsLedgerSum
<1>1. /\ GiftPosted(ledger', u) = GiftPosted(ledger, u) + GiftOf(e, u) + GiftOf(f, u)
      /\ PaidPosted(ledger', u) = PaidPosted(ledger, u) + PaidOf(e, u) + PaidOf(f, u)
  BY SumsOfTwo DEF TypeInv, TypeOK
<1>2. /\ GiftPosted(ledger, u) \in Int /\ PaidPosted(ledger, u) \in Int
      /\ GiftOf(e, u) \in Int /\ PaidOf(e, u) \in Int
      /\ GiftOf(f, u) \in Int /\ PaidOf(f, u) \in Int
  BY SumsOfAppend DEF TypeInv, TypeOK
<1>3. /\ account[u].gift = Opening[u].gift + GiftPosted(ledger, u)
      /\ account[u].paid = Opening[u].paid + PaidPosted(ledger, u)
      /\ Opening[u].gift \in Int /\ Opening[u].paid \in Int
  BY OpeningAssumption DEF BalanceIsLedgerSum
<1>4. /\ account'[u].gift = account[u].gift + GiftOf(e, u) + GiftOf(f, u)
      /\ account'[u].paid = account[u].paid + PaidOf(e, u) + PaidOf(f, u)
  BY <1>2, <1>3 DEF GiftOf, PaidOf, TypeInv, TypeOK
<1> QED
  BY ONLY <1>1, <1>2, <1>3, <1>4

LEMMA NothingSummed ==
    ASSUME BalanceIsLedgerSum, account' = account, ledger' = ledger
    PROVE  BalanceIsLedgerSum'
BY DEF BalanceIsLedgerSum

(* A session commits the row it has read moved, and nobody else's.         *)
LEMMA FreshCommit ==
    ASSUME TypeInv, NoStaleRow, NEW s \in Sessions, session[s].pc = "read",
           NEW after \in AccountRow,
           account' = [account EXCEPT ![User(session[s].key)] =
                          Flush(@, session[s].loaded, after)]
    PROVE  /\ session[s].loaded = account[User(session[s].key)]
           /\ account' = [account EXCEPT ![User(session[s].key)] = after]
<1>1. /\ session[s].loaded \in AccountRow
      /\ session[s].loaded = account[User(session[s].key)]
  BY SessionFacts DEF NoStaleRow
<1>2. Flush(session[s].loaded, session[s].loaded, after) = after
  BY <1>1, FlushFresh
<1> QED
  BY <1>1, <1>2

LEMMA LockedChargeSums ==
    ASSUME TypeInv, BalanceIsLedgerSum, NEW k \in Keys, NEW kind \in UsageKinds,
           NEW cost \in Costs, ChargeUnderLock(k, kind, cost)
    PROVE  BalanceIsLedgerSum'
<1> DEFINE row == account[User(k)]
<1>1. CASE account' = account /\ ledger' = ledger
  BY <1>1, NothingSummed
<1>2. CASE /\ account' = [account EXCEPT ![User(k)] = AfterCharge(row, cost)]
           /\ ledger' = Append(ledger, ChargeEntry(k, kind, row, cost))
  <2>1. row \in AccountRow /\ cost \in Nat /\ row.gift \in Int /\ row.paid \in Int
    BY RequestFacts, CostsAssumption DEF TypeInv, TypeOK, AccountRow, Columns
  <2>2. PICK e \in LedgerEntry : e = ChargeEntry(k, kind, row, cost)
    BY <2>1, ChargeEntryType
  <2>3. PICK after \in AccountRow : after = AfterCharge(row, cost)
    BY <2>1, AfterChargeType
  <2>4. /\ e.user = User(k) /\ e.giftDelta = -GiftPart(row, cost)
        /\ e.paidDelta = -PaidPart(row, cost)
    BY <2>2 DEF ChargeEntry, Entry
  <2>5. after.gift = row.gift + e.giftDelta /\ after.paid = row.paid + e.paidDelta
    <3>1. GiftPart(row, cost) \in Int /\ PaidPart(row, cost) \in Int
      BY <2>1, AfterChargeType
    <3> QED
      BY <2>1, <2>3, <2>4, <3>1, ChargeMoves
  <2> QED
    BY <1>2, <2>2, <2>3, <2>4, <2>5, AppendSums
<1> QED
  BY <1>1, <1>2 DEF ChargeUnderLock

LEMMA AdvanceSums ==
    ASSUME TypeInv, NoStaleRow, BalanceIsLedgerSum, NEW s \in Sessions, Advance(s)
    PROVE  BalanceIsLedgerSum'
<1> DEFINE k == session[s].key
           row == session[s].loaded
           u == User(k)
<1>1. CASE CommitPurchase(s)
  <2>1. /\ k \in Keys /\ row \in AccountRow /\ session[s].pc = "read"
        /\ row.gift \in Int /\ row.paid \in Int
        /\ WalletPayment(k) \in Nat /\ GiftCredited(k) \in Nat
    BY <1>1, SessionFacts, RequestFacts DEF CommitPurchase, AccountRow, Columns
  <2>2. PICK after \in AccountRow : after = AfterPurchase(row, k)
    BY <2>1, AfterPurchaseType
  <2>3. row = account[u] /\ account' = [account EXCEPT ![u] = after]
    BY <1>1, <2>1, <2>2, FreshCommit DEF CommitPurchase
  <2>4. /\ -WalletPayment(k) \in Int /\ GiftCredited(k) \in Int /\ 0 \in Int
        /\ {"subscription_payment", "subscription_gift_credit"} \subseteq Kinds
    BY <2>1, RequestFacts DEF Kinds
  <2>5. PICK e \in LedgerEntry :
           e = Entry(k, "subscription_payment", 0, -WalletPayment(k), after, FALSE)
    BY <2>1, <2>4, EntryType
  <2>6. PICK f \in LedgerEntry :
           f = Entry(k, "subscription_gift_credit", GiftCredited(k), 0, after, FALSE)
    BY <2>1, <2>4, EntryType
  <2>7. ledger' = ledger \o <<e, f>>
    BY <1>1, <2>2, <2>5, <2>6 DEF CommitPurchase
  <2>8. /\ e.user = u /\ e.giftDelta = 0 /\ e.paidDelta = -WalletPayment(k)
        /\ f.user = u /\ f.giftDelta = GiftCredited(k) /\ f.paidDelta = 0
    BY <2>5, <2>6 DEF Entry
  <2>9. /\ after.gift = row.gift + e.giftDelta + f.giftDelta
        /\ after.paid = row.paid + e.paidDelta + f.paidDelta
    BY <2>1, <2>2, <2>8, PurchaseMoves
  <2> QED
    BY <2>3, <2>7, <2>8, <2>9, AppendTwoSums
<1>2. CASE CommitTopup(s)
  <2>1. /\ k \in Keys /\ row \in AccountRow /\ session[s].pc = "read"
        /\ session[s].discount \in BOOLEAN /\ row.gift \in Int /\ row.paid \in Int
        /\ Requests[k].amount \in Nat /\ "paid_topup_credit" \in Kinds
    BY <1>2, SessionFacts, RequestFacts DEF CommitTopup, AccountRow, Columns, Kinds
  <2>2. PICK after \in AccountRow : after = AfterTopup(row, k, session[s].discount)
    BY <2>1, AfterTopupType
  <2>3. row = account[u] /\ account' = [account EXCEPT ![u] = after]
    BY <1>2, <2>1, <2>2, FreshCommit DEF CommitTopup
  <2>4. PICK e \in LedgerEntry :
           e = Entry(k, "paid_topup_credit", 0, Requests[k].amount, after,
                     session[s].discount)
    BY <2>1, EntryType
  <2>5. ledger' = Append(ledger, e)
    BY <1>2, <2>2, <2>4 DEF CommitTopup
  <2>6. e.user = u /\ e.giftDelta = 0 /\ e.paidDelta = Requests[k].amount
    BY <2>4 DEF Entry
  <2>7. after.gift = row.gift + e.giftDelta /\ after.paid = row.paid + e.paidDelta
    BY <2>1, <2>2, <2>6, TopupMoves
  <2> QED
    BY <2>3, <2>5, <2>6, <2>7, AppendSums
<1>3. CASE CommitIndexCharge(s)
  <2> DEFINE cost == Requests[k].amount
  <2>1. /\ k \in Keys /\ row \in AccountRow /\ session[s].pc = "read"
        /\ row.gift \in Int /\ row.paid \in Int
        /\ cost \in Nat /\ "rag_embedding" \in UsageKinds
    BY <1>3, SessionFacts, RequestFacts
       DEF CommitIndexCharge, AccountRow, Columns, UsageKinds
  <2>2. PICK after \in AccountRow : after = AfterCharge(row, cost)
    BY <2>1, AfterChargeType
  <2>3. row = account[u] /\ account' = [account EXCEPT ![u] = after]
    BY <1>3, <2>1, <2>2, FreshCommit DEF CommitIndexCharge
  <2>4. PICK e \in LedgerEntry : e = ChargeEntry(k, "rag_embedding", row, cost)
    BY <2>1, ChargeEntryType
  <2>5. ledger' = Append(ledger, e)
    BY <1>3, <2>2, <2>4 DEF CommitIndexCharge
  <2>6. /\ e.user = u /\ e.giftDelta = -GiftPart(row, cost)
        /\ e.paidDelta = -PaidPart(row, cost)
    BY <2>4 DEF ChargeEntry, Entry
  <2>7. after.gift = row.gift + e.giftDelta /\ after.paid = row.paid + e.paidDelta
    <3>1. GiftPart(row, cost) \in Int /\ PaidPart(row, cost) \in Int
      BY <2>1, AfterChargeType
    <3> QED
      BY <2>1, <2>2, <2>6, <3>1, ChargeMoves
  <2> QED
    BY <2>3, <2>5, <2>6, <2>7, AppendSums
<1>4. ASSUME NEW cost \in Costs, FinishChat(s, cost) \/ FinishToolChat(s, cost)
      PROVE  BalanceIsLedgerSum'
  <2>1. k \in Keys /\ ChargeUnderLock(k, "chat_completion_usage", cost)
    BY <1>4, SessionFacts DEF FinishChat, FinishToolChat
  <2> QED
    BY <2>1, LockedChargeSums DEF UsageKinds
<1>5. ASSUME NEW cost \in Costs, FinishTranscription(s, cost)
      PROVE  BalanceIsLedgerSum'
  <2>1. k \in Keys /\ ChargeUnderLock(k, "voice_transcription", cost)
    BY <1>5, SessionFacts DEF FinishTranscription
  <2> QED
    BY <2>1, LockedChargeSums DEF UsageKinds
<1>6. CASE \/ RollbackPurchase(s) \/ RollbackTopup(s) \/ AuthorizeChat(s)
           \/ FailChat(s) \/ OfferTools(s) \/ FailToolChat(s)
           \/ FailTranscription(s) \/ ReadIndexCharge(s) \/ LockTimeout(s)
  BY <1>6, NothingSummed
     DEF RollbackPurchase, RollbackTopup, AuthorizeChat, FailChat, OfferTools,
         FailToolChat, FailTranscription, ReadIndexCharge, LockTimeout
<1> QED
  BY <1>1, <1>2, <1>3, <1>4, <1>5, <1>6 DEF Advance

(* A step that is no commit leaves balances and ledger alone.              *)
LEMMA OnlyAdvanceWrites ==
    ASSUME [Next]_vars
    PROVE  (account' = account /\ ledger' = ledger) \/ \E s \in Sessions : Advance(s)
<1>1. ASSUME NEW k \in Keys, AnswerWithoutWriting(k)
      PROVE  account' = account /\ ledger' = ledger
  BY <1>1 DEF AnswerWithoutWriting, vars
<1>2. ASSUME NEW s \in Sessions, NEW k \in Keys, Begin(s, k)
      PROVE  account' = account /\ ledger' = ledger
  BY <1>2 DEF Begin, ReadPurchase, ReadTopup, PrecheckChat, StartTranscription,
              StartIndexing
<1>3. ASSUME NEW s \in Sessions, Crash(s)
      PROVE  account' = account /\ ledger' = ledger
  BY <1>3 DEF Crash
<1>4. ASSUME NEW x \in subs, ExpireSubscription(x)
      PROVE  account' = account /\ ledger' = ledger
  BY <1>4 DEF ExpireSubscription
<1>5. CASE UNCHANGED vars
  BY <1>5 DEF vars
<1> QED
  BY <1>1, <1>2, <1>3, <1>4, <1>5 DEF Next

LEMMA SumsInit == ASSUME Init PROVE BalanceIsLedgerSum
<1> SUFFICES ASSUME NEW u \in Users
             PROVE  /\ account[u].gift = Opening[u].gift + GiftPosted(ledger, u)
                    /\ account[u].paid = Opening[u].paid + PaidPosted(ledger, u)
  BY DEF BalanceIsLedgerSum
<1>1. account[u].gift = Opening[u].gift /\ account[u].paid = Opening[u].paid
  <2>1. OpeningAccount(u).gift = Opening[u].gift
        /\ OpeningAccount(u).paid = Opening[u].paid
    BY OpeningAssumption DEF OpeningAccount, Moved, NewAccount, Columns
  <2> QED
    BY <2>1 DEF Init
<1>2. GiftPosted(ledger, u) = 0 /\ PaidPosted(ledger, u) = 0
  BY TotalZero DEF Init, GiftPosted, PaidPosted
<1> QED
  BY <1>1, <1>2, OpeningAssumption

(* As long as no session holds a stale row, replaying the ledger gives the *)
(* cached balances, however purchases, top-ups, charges, crashes and       *)
(* refused commits follow one another.                                     *)
THEOREM FreshBalances == Spec /\ []NoStaleRow => []BalanceIsLedgerSum
<1>1. TypeInv /\ TypeInv' /\ NoStaleRow /\ BalanceIsLedgerSum /\ [Next]_vars
         => BalanceIsLedgerSum'
  BY OnlyAdvanceWrites, AdvanceSums, NothingSummed
<1> QED
  BY <1>1, SumsInit, TypesHold, PTL DEF Spec

-----------------------------------------------------------------------------
(* One session at a time never holds a stale row.                          *)

OneSession == \A s, t \in Sessions : s = t

LEMMA FreshStep ==
    ASSUME OneSession, TypeInv, NoStaleRow, [Next]_vars
    PROVE  NoStaleRow'
<1>1. ASSUME NEW s \in Sessions, Close(s)
      PROVE  NoStaleRow'
  BY <1>1 DEF Close, Idle, NoStaleRow, OneSession, TypeInv, TypeOK
<1>2. ASSUME NEW s \in Sessions, NEW k \in Keys, Begin(s, k)
      PROVE  NoStaleRow'
  <2>1. account' = account
    BY <1>2 DEF Begin, ReadPurchase, ReadTopup, PrecheckChat, StartTranscription,
                StartIndexing
  <2>2. session'[s].pc = "read" =>
           session'[s].loaded = account[User(k)] /\ session'[s].key = k
    BY <1>2 DEF Begin, ReadPurchase, ReadTopup, PrecheckChat, StartTranscription,
                StartIndexing, Open, TypeInv, TypeOK
  <2> QED
    BY <2>1, <2>2 DEF NoStaleRow, OneSession
<1>3. ASSUME NEW s \in Sessions, Advance(s), ~Close(s)
      PROVE  NoStaleRow'
  <2>1. CASE AuthorizeChat(s) \/ OfferTools(s)
    BY <2>1 DEF AuthorizeChat, OfferTools, NoStaleRow, OneSession, TypeInv, TypeOK,
                SessionState
  <2>2. CASE ReadIndexCharge(s)
    BY <1>3, <2>2 DEF ReadIndexCharge, NoStaleRow, OneSession, TypeInv, TypeOK,
                      SessionState
  <2> QED
    BY <1>3, <2>1, <2>2
       DEF Advance, CommitPurchase, RollbackPurchase, CommitTopup, RollbackTopup,
           FinishChat, FailChat, FinishToolChat, FailToolChat, FinishTranscription,
           FailTranscription, CommitIndexCharge, LockTimeout
<1>4. ASSUME account' = account, session' = session
      PROVE  NoStaleRow'
  BY <1>4 DEF NoStaleRow
<1>5. ASSUME NEW k \in Keys, AnswerWithoutWriting(k)
      PROVE  NoStaleRow'
  BY <1>4, <1>5 DEF AnswerWithoutWriting, vars
<1>6. ASSUME NEW x \in subs, ExpireSubscription(x)
      PROVE  NoStaleRow'
  BY <1>4, <1>6 DEF ExpireSubscription
<1>7. CASE UNCHANGED vars
  BY <1>4, <1>7 DEF vars
<1>8. ASSUME NEW s \in Sessions, Crash(s)
      PROVE  NoStaleRow'
  BY <1>1, <1>8 DEF Crash
<1> QED
  BY <1>1, <1>2, <1>3, <1>5, <1>6, <1>7, <1>8 DEF Next

LEMMA OneSessionFresh ==
    ASSUME OneSession
    PROVE  Spec => []NoStaleRow
<1>1. Init => NoStaleRow
  BY DEF Init, Idle, NoStaleRow
<1>2. TypeInv /\ NoStaleRow /\ [Next]_vars => NoStaleRow'
  BY FreshStep
<1> QED
  BY <1>1, <1>2, TypesHold, PTL DEF Spec

(* Requests served one after the other, interrupted, refused and           *)
(* redelivered, leave the balances that the ledger's rows add up to.       *)
THEOREM SerialBalances ==
    ASSUME OneSession
    PROVE  Spec => []BalanceIsLedgerSum
BY FreshBalances, OneSessionFresh, PTL

-----------------------------------------------------------------------------
(* The service implements the credit book.                                 *)

Gifts == [u \in Users |-> account[u].gift]
Paids == [u \in Users |-> account[u].paid]
Applied == {k \in Keys : Posted(k)}

LEMMA AmountFacts ==
    ASSUME NEW k \in Keys
    PROVE  /\ 0 \in MovableAmounts /\ Requests[k].amount \in MovableAmounts
           /\ WalletPayment(k) \in MovableAmounts /\ GiftCredited(k) \in MovableAmounts
           /\ \A n \in 0 .. Requests[k].amount : n \in MovableAmounts
<1>1. /\ Requests[k].amount \in Nat /\ Requests[k].gift \in Nat
      /\ WalletPayment(k) \in 0 .. Requests[k].amount
      /\ GiftCredited(k) \in 0 .. Requests[k].gift
  BY RequestFacts DEF GiftCredited
<1>2. /\ \A n \in 0 .. Requests[k].amount : n \in MovableAmounts
      /\ \A n \in 0 .. Requests[k].gift : n \in MovableAmounts
      /\ 0 \in MovableAmounts
  BY <1>1 DEF MovableAmounts
<1>3. Requests[k].amount \in 0 .. Requests[k].amount
  BY <1>1
<1> QED
  BY <1>1, <1>2, <1>3

(* A charge of cost takes two parts of it, gift credit first.              *)
LEMMA ChargeParts ==
    ASSUME NEW row \in AccountRow, NEW cost \in Nat, Solvent(row),
           Available(row) >= cost
    PROVE  /\ GiftPart(row, cost) \in 0 .. cost /\ PaidPart(row, cost) \in 0 .. cost
           /\ GiftPart(row, cost) <= row.gift /\ PaidPart(row, cost) <= row.paid
           /\ PaidPart(row, cost) > 0 => GiftPart(row, cost) = row.gift
<1>1. row.gift \in Int /\ row.paid \in Int
  BY DEF AccountRow, Columns
<1> QED
  BY <1>1 DEF Solvent, Available, GiftPart, PaidPart

(* The commit of an event that is not posted is its one application.       *)
LEMMA PostsOnce ==
    ASSUME NEW k \in Keys, ~Posted(k),
           \A j \in Keys : Posted(j)' <=> (Posted(j) \/ (j = k /\ Requests[k].keyed))
    PROVE  /\ EntryKey(k) \notin Applied
           /\ Applied' = (Applied \cup {EntryKey(k)}) \ {NoKey}
<1>1. EntryKey(k) \notin Applied
  BY NoKeyAssumption DEF Applied, EntryKey
<1>2. Applied' = {j \in Keys : Posted(j) \/ (j = k /\ Requests[k].keyed)}
  BY DEF Applied
<1>3. Applied' = (Applied \cup {EntryKey(k)}) \ {NoKey}
  BY <1>2, NoKeyAssumption DEF Applied, EntryKey
<1> QED
  BY <1>1, <1>3

(* The balances after a commit to one user's row.                          *)
LEMMA BookedBalances ==
    ASSUME TypeInv, NEW u \in Users, NEW row \in AccountRow,
           account' = [account EXCEPT ![u] = row]
    PROVE  /\ Gifts' = [Gifts EXCEPT ![u] = row.gift]
           /\ Paids' = [Paids EXCEPT ![u] = row.paid]
           /\ Gifts[u] = account[u].gift /\ Paids[u] = account[u].paid
BY DEF Gifts, Paids, TypeInv, TypeOK

LEMMA PurchaseBooked ==
    ASSUME SolventInv, NoStaleRow, NEW s \in Sessions, CommitPurchase(s)
    PROVE  Book!BookNext
<1>1. PICK k \in Keys : k = session[s].key /\ Op(k) = "purchase" /\ User(k) \in Users
  BY SessionFacts DEF CommitPurchase, SolventInv
<1>2. PICK u \in Users : u = User(k)
  BY <1>1
<1>3. PICK row \in AccountRow : row = session[s].loaded
  BY <1>1, SessionFacts DEF CommitPurchase, SolventInv
<1>4. PICK after \in AccountRow : after = AfterPurchase(row, k)
  BY AfterPurchaseType
<1>5. /\ account' = [account EXCEPT ![u] = after]
      /\ row = account[u]
  BY <1>1, <1>2, <1>3, <1>4, FreshCommit DEF CommitPurchase, SolventInv
<1>6. WalletPayment(k) <= row.paid
  BY <1>1, <1>3 DEF SolventInv, LoadedCovers, CommitPurchase
<1>7. /\ ~Posted(k) /\ Requests[k].keyed
      /\ \A j \in Keys : Posted(j)' <=> (Posted(j) \/ (j = k /\ Requests[k].keyed))
  BY <1>1, PurchasePosts, RequestsAssumption
     DEF CommitPurchase, UniqueKeyTaken, SolventInv, Op
<1>8. /\ Gifts' = [Gifts EXCEPT ![u] = @ + GiftCredited(k)]
      /\ Paids' = [Paids EXCEPT ![u] = @ - WalletPayment(k)]
      /\ WalletPayment(k) <= Paids[u]
  <2>1. /\ Gifts' = [Gifts EXCEPT ![u] = after.gift]
        /\ Paids' = [Paids EXCEPT ![u] = after.paid]
        /\ Gifts[u] = row.gift /\ Paids[u] = row.paid
    BY <1>5, BookedBalances DEF SolventInv
  <2>2. /\ after.gift = row.gift + GiftCredited(k)
        /\ after.paid = row.paid - WalletPayment(k)
    BY <1>4, PurchaseMoves
  <2> QED
    BY <1>6, <2>1, <2>2
<1>9. k \notin Applied /\ Applied' = (Applied \cup {k}) \ {NoKey}
  BY <1>7, PostsOnce DEF EntryKey
<1>10. WalletPayment(k) \in MovableAmounts /\ GiftCredited(k) \in MovableAmounts
  BY AmountFacts
<1>11. Book!Buy(u, k, WalletPayment(k), GiftCredited(k))
  BY <1>8, <1>9 DEF Book!Buy, Book!Once, Gifts, Paids, Applied
<1>12. k \in {j \in Keys : Op(j) = "purchase"}
  BY <1>1
<1> QED
  BY <1>10, <1>11, <1>12 DEF Book!BookNext

LEMMA TopupBooked ==
    ASSUME SolventInv, NoStaleRow, NEW s \in Sessions, CommitTopup(s)
    PROVE  Book!BookNext
<1>1. PICK k \in Keys : k = session[s].key /\ Op(k) = "topup" /\ User(k) \in Users
  BY SessionFacts DEF CommitTopup, SolventInv
<1>2. PICK u \in Users : u = User(k)
  BY <1>1
<1>3. PICK row \in AccountRow : row = session[s].loaded
  BY <1>1, SessionFacts DEF CommitTopup, SolventInv
<1>4. PICK discount \in BOOLEAN : discount = session[s].discount
  BY <1>1, SessionFacts DEF CommitTopup, SolventInv
<1>5. PICK after \in AccountRow : after = AfterTopup(row, k, discount)
  BY AfterTopupType
<1>6. account' = [account EXCEPT ![u] = after] /\ row = account[u]
  BY <1>1, <1>2, <1>3, <1>4, <1>5, FreshCommit DEF CommitTopup, SolventInv
<1>7. /\ ~Posted(k)
      /\ \A j \in Keys : Posted(j)' <=> (Posted(j) \/ (j = k /\ Requests[k].keyed))
  BY <1>1, TopupPosts DEF CommitTopup, UniqueKeyTaken, SolventInv
<1>8. Gifts' = Gifts /\ Paids' = [Paids EXCEPT ![u] = @ + Requests[k].amount]
  <2>1. /\ Gifts' = [Gifts EXCEPT ![u] = after.gift]
        /\ Paids' = [Paids EXCEPT ![u] = after.paid]
        /\ Gifts[u] = row.gift /\ Paids[u] = row.paid
    BY <1>6, BookedBalances DEF SolventInv
  <2>2. after.gift = row.gift /\ after.paid = row.paid + Requests[k].amount
    BY <1>5, TopupMoves
  <2> QED
    BY <2>1, <2>2 DEF Gifts
<1>9. EntryKey(k) \notin Applied /\ Applied' = (Applied \cup {EntryKey(k)}) \ {NoKey}
  BY <1>7, PostsOnce
<1>10. Requests[k].amount \in MovableAmounts
  BY AmountFacts
<1>11. Book!Credit(u, EntryKey(k), Requests[k].amount)
  BY <1>8, <1>9 DEF Book!Credit, Book!Once, Gifts, Paids, Applied
<1>12. EntryKey(k) \in {j \in Keys : Op(j) = "topup"} \cup {NoKey}
  BY <1>1 DEF EntryKey
<1> QED
  BY <1>10, <1>11, <1>12 DEF Book!BookNext

(* A charge of a row that covers it is one spending of the book.           *)
LEMMA ChargeBooked ==
    ASSUME TypeInv, NEW k \in Keys, Op(k) \in {"chat", "voice", "index"},
           NEW u \in Users, NEW row \in AccountRow, row = account[u],
           NEW cost \in Nat, \A n \in 0 .. cost : n \in MovableAmounts,
           Solvent(row), Available(row) >= cost,
           account' = [account EXCEPT ![u] = AfterCharge(row, cost)],
           ~Posted(k),
           \A j \in Keys : Posted(j)' <=> (Posted(j) \/ (j = k /\ Requests[k].keyed))
    PROVE  Book!BookNext
<1>1. PICK after \in AccountRow : after = AfterCharge(row, cost)
  BY AfterChargeType
<1>2. PICK a \in 0 .. cost : a = GiftPart(row, cost)
  BY ChargeParts
<1>3. PICK b \in 0 .. cost : b = PaidPart(row, cost)
  BY ChargeParts
<1>4. a <= row.gift /\ b <= row.paid /\ (b > 0 => a = row.gift)
  BY <1>2, <1>3, ChargeParts
<1>5. /\ Gifts' = [Gifts EXCEPT ![u] = @ - a] /\ Paids' = [Paids EXCEPT ![u] = @ - b]
      /\ Gifts[u] = row.gift /\ Paids[u] = row.paid
  <2>1. /\ Gifts' = [Gifts EXCEPT ![u] = after.gift]
        /\ Paids' = [Paids EXCEPT ![u] = after.paid]
        /\ Gifts[u] = row.gift /\ Paids[u] = row.paid
    BY <1>1, BookedBalances
  <2>2. after.gift = row.gift - a /\ after.paid = row.paid - b
    BY <1>1, <1>2, <1>3, ChargeMoves
  <2> QED
    BY <2>1, <2>2
<1>6. EntryKey(k) \notin Applied /\ Applied' = (Applied \cup {EntryKey(k)}) \ {NoKey}
  BY PostsOnce
<1>7. Book!Spend(u, EntryKey(k), a, b)
  BY <1>4, <1>5, <1>6 DEF Book!Spend, Book!Once, Gifts, Paids, Applied
<1>8. /\ EntryKey(k) \in {j \in Keys : Op(j) \in {"chat", "voice", "index"}} \cup {NoKey}
      /\ a \in MovableAmounts /\ b \in MovableAmounts
  BY DEF EntryKey
<1> QED
  BY <1>7, <1>8 DEF Book!BookNext

LEMMA IndexChargeBooked ==
    ASSUME SolventInv, NoStaleRow, NEW s \in Sessions, CommitIndexCharge(s)
    PROVE  Book!BookNext
<1>1. PICK k \in Keys : k = session[s].key /\ Op(k) = "index" /\ User(k) \in Users
  BY SessionFacts DEF CommitIndexCharge, SolventInv
<1>2. PICK u \in Users : u = User(k)
  BY <1>1
<1>3. PICK row \in AccountRow : row = session[s].loaded
  BY <1>1, SessionFacts DEF CommitIndexCharge, SolventInv
<1>4. PICK cost \in Nat : cost = Requests[k].amount
  BY RequestFacts
<1>5. AfterCharge(row, cost) \in AccountRow
  BY AfterChargeType
<1>6. account' = [account EXCEPT ![u] = AfterCharge(row, cost)] /\ row = account[u]
  BY <1>1, <1>2, <1>3, <1>4, <1>5, FreshCommit DEF CommitIndexCharge, SolventInv
<1>7. Solvent(row) /\ Available(row) >= cost
  BY <1>1, <1>3, <1>4 DEF SolventInv, LoadedCovers, CommitIndexCharge
<1>8. ~Posted(k)
  BY <1>1, RequestsAssumption DEF Op, Posted
<1>9. \A j \in Keys : Posted(j)' <=> (Posted(j) \/ (j = k /\ Requests[k].keyed))
  <2>1. ledger' = Append(ledger, ChargeEntry(k, "rag_embedding", row, cost))
    BY <1>1, <1>3, <1>4 DEF CommitIndexCharge
  <2> QED
    BY <2>1, ChargeEntryPosts DEF SolventInv, UsageKinds
<1>10. \A n \in 0 .. cost : n \in MovableAmounts
  BY <1>4, AmountFacts
<1> QED
  BY <1>1, <1>6, <1>7, <1>8, <1>9, <1>10, ChargeBooked DEF SolventInv

LEMMA LockedChargeBooked ==
    ASSUME SolventInv, NEW k \in Keys, NEW kind \in UsageKinds, NEW cost \in Costs,
           Op(k) \in {"chat", "voice"}, ChargeUnderLock(k, kind, cost)
    PROVE  Book!BookNext \/ (account' = account /\ ledger' = ledger)
<1> SUFFICES ASSUME ~Posted(k), Available(account[User(k)]) >= cost,
                    account' = [account EXCEPT ![User(k)] =
                                   AfterCharge(account[User(k)], cost)]
             PROVE  Book!BookNext
  BY DEF ChargeUnderLock
<1>1. PICK u \in Users : u = User(k)
  BY RequestFacts
<1>2. PICK row \in AccountRow : row = account[u]
  BY DEF SolventInv, TypeInv, TypeOK
<1>3. Solvent(row) /\ cost \in Nat /\ Requests[k].keyed
  BY <1>2, CostsAssumption, RequestsAssumption DEF SolventInv, NonNegative, Solvent, Op
<1>4. \A j \in Keys : Posted(j)' <=> (Posted(j) \/ (j = k /\ Requests[k].keyed))
  BY <1>3, LockedChargePosts DEF SolventInv
<1>5. \A n \in 0 .. cost : n \in MovableAmounts
  BY DEF MovableAmounts
<1> QED
  BY <1>1, <1>2, <1>3, <1>4, <1>5, ChargeBooked DEF SolventInv

LEMMA NothingBooked ==
    ASSUME account' = account, ledger' = ledger
    PROVE  UNCHANGED Book!bookVars
BY DEF Book!bookVars, Posted

LEMMA AdvanceBooked ==
    ASSUME SolventInv, NoStaleRow, NEW s \in Sessions, Advance(s)
    PROVE  Book!BookNext \/ (account' = account /\ ledger' = ledger)
<1>1. CASE CommitPurchase(s)
  BY <1>1, PurchaseBooked
<1>2. CASE CommitTopup(s)
  BY <1>2, TopupBooked
<1>3. CASE CommitIndexCharge(s)
  BY <1>3, IndexChargeBooked
<1>4. ASSUME NEW cost \in Costs, FinishChat(s, cost) \/ FinishToolChat(s, cost)
      PROVE  Book!BookNext \/ (account' = account /\ ledger' = ledger)
  <2>1. PICK k \in Keys : /\ k = session[s].key /\ Op(k) = "chat"
                          /\ ChargeUnderLock(k, "chat_completion_usage", cost)
    BY <1>4, SessionFacts DEF FinishChat, FinishToolChat, PcFits, SolventInv
  <2> QED
    BY <2>1, LockedChargeBooked DEF UsageKinds
<1>5. ASSUME NEW cost \in Costs, FinishTranscription(s, cost)
      PROVE  Book!BookNext \/ (account' = account /\ ledger' = ledger)
  <2>1. PICK k \in Keys : /\ k = session[s].key /\ Op(k) = "voice"
                          /\ ChargeUnderLock(k, "voice_transcription", cost)
    BY <1>5, SessionFacts DEF FinishTranscription, PcFits, SolventInv
  <2> QED
    BY <2>1, LockedChargeBooked DEF UsageKinds
<1>6. CASE \/ RollbackPurchase(s) \/ RollbackTopup(s) \/ AuthorizeChat(s)
           \/ FailChat(s) \/ OfferTools(s) \/ FailToolChat(s)
           \/ FailTranscription(s) \/ ReadIndexCharge(s) \/ LockTimeout(s)
  BY <1>6
     DEF RollbackPurchase, RollbackTopup, AuthorizeChat, FailChat, OfferTools,
         FailToolChat, FailTranscription, ReadIndexCharge, LockTimeout
<1> QED
  BY <1>1, <1>2, <1>3, <1>4, <1>5, <1>6 DEF Advance

LEMMA BookInitial == ASSUME Init PROVE Book!BookInit
<1>1. \A u \in Users : /\ account[u].gift = Opening[u].gift
                       /\ account[u].paid = Opening[u].paid
  <2> SUFFICES ASSUME NEW u \in Users
               PROVE  /\ account[u].gift = Opening[u].gift
                      /\ account[u].paid = Opening[u].paid
    OBVIOUS
  <2>1. OpeningAccount(u).gift = Opening[u].gift
        /\ OpeningAccount(u).paid = Opening[u].paid
    BY OpeningAssumption DEF OpeningAccount, Moved, NewAccount, Columns
  <2> QED
    BY <2>1 DEF Init
<1>2. \A k \in Keys : ~Posted(k)
  BY DEF Init, Posted
<1> QED
  BY <1>1, <1>2 DEF Book!BookInit

(* As long as no session holds a stale row, every commit is one move of    *)
(* the credit book: each event takes effect at most once, as if it had run *)
(* alone, and a usage spends gift credit before paid credit.               *)
THEOREM FreshImplements == Spec /\ []NoStaleRow => ImplementsCreditBook
<1>1. SolventInv /\ NoStaleRow /\ [Next]_vars => [Book!BookNext]_(Book!bookVars)
  BY OnlyAdvanceWrites, AdvanceBooked, NothingBooked
<1>2. Spec => []SolventInv
  BY SolventInit, SolventStep, PTL DEF Spec
<1> QED
  BY <1>1, <1>2, BookInitial, PTL DEF Spec, ImplementsCreditBook, Book!BookSpec

(* Requests served one after the other, interrupted, refused and           *)
(* redelivered, are a run of the credit book.                              *)
THEOREM SerialImplements ==
    ASSUME OneSession
    PROVE  Spec => ImplementsCreditBook
BY FreshImplements, OneSessionFresh, PTL
=============================================================================
