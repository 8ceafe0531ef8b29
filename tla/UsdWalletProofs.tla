--------------------------- MODULE UsdWalletProofs ---------------------------
(***************************************************************************)
(* Proofs about UsdWallet, for every set of users, codes and sessions and  *)
(* every amount.                                                           *)
(***************************************************************************)
EXTENDS UsdWallet, FiniteSetTheorems, TLAPS

-----------------------------------------------------------------------------
(* Type correctness: an operation under way has a user, and a redemption a *)
(* code.                                                                   *)
Names(x) == x.pc # "idle" => /\ x.user \in Users
                             /\ x.op = "redeem" => x.code \in Codes

TInv == TypeOK /\ \A s \in Sessions : Names(session[s])

(* An operation put in place of another keeps session well formed.         *)
Fits(x) == x \in Session /\ Names(x)

LEMMA Replaced ==
    ASSUME TInv, NEW s \in Sessions, NEW x, Fits(x), session' = [session EXCEPT ![s] = x]
    PROVE  session' \in [Sessions -> Session] /\ \A t \in Sessions : Names(session'[t])
  BY DEF TInv, TypeOK, Fits

LEMMA IdleFits == Fits(Idle)
  BY DEF Fits, Names, Idle, Session, Balance, Account

LEMMA Under ==
    ASSUME TInv, NEW s \in Sessions, Row(s).pc # "idle"
    PROVE  Row(s) \in Session /\ Row(s).user \in Users
           /\ (Row(s).op = "redeem" => Row(s).code \in Codes)
  BY DEF TInv, TypeOK, Names, Row

LEMMA CloseFits ==
    ASSUME TInv, NEW s \in Sessions, Close(s)
    PROVE  session' \in [Sessions -> Session] /\ \A t \in Sessions : Names(session'[t])
  BY IdleFits, Replaced DEF Close

LEMMA OpenFits ==
    ASSUME TInv, NEW s \in Sessions, NEW op \in {"redeem", "image", "convert"},
           NEW u \in Users, NEW c \in Codes \cup {NoCode}, NEW charge \in Nat,
           op = "redeem" => c \in Codes, Open(s, op, u, c, charge)
    PROVE  /\ session' \in [Sessions -> Session] /\ \A t \in Sessions : Names(session'[t])
           /\ overlapped' \in BOOLEAN
  <1>. DEFINE x == [Idle EXCEPT !.pc = "loaded", !.op = op, !.user = u,
                                !.mirror = mirror[u], !.code = c, !.charge = charge]
  <1>1. mirror[u] \in Nat
    BY DEF TInv, TypeOK
  <1>2. Fits(x)
    BY <1>1, IdleFits DEF Fits, Names, Idle, Session
  <1>3. session' = [session EXCEPT ![s] = x]
    BY DEF Open
  <1>4. overlapped' \in BOOLEAN
    BY DEF Open, TInv, TypeOK
  <1>. HIDE DEF x
  <1>. QED
    BY <1>2, <1>3, <1>4, Replaced

LEMMA LoadFits ==
    ASSUME TInv, NEW s \in Sessions, Row(s).pc = "loaded", Load(s)
    PROVE  session' \in [Sessions -> Session] /\ \A t \in Sessions : Names(session'[t])
  <1>1. /\ session[s] \in Session /\ session[s].user \in Users
        /\ session[s].op = "redeem" => session[s].code \in Codes
    BY Under DEF Row
  <1>. DEFINE x == [session[s] EXCEPT !.pc = "ready", !.wallet = wallet[session[s].user],
                                      !.toman = toman[session[s].user]]
  <1>2. wallet[session[s].user] \in Balance /\ toman[session[s].user] \in Account
    BY <1>1 DEF TInv, TypeOK
  <1>3. Fits(x)
    BY <1>1, <1>2 DEF Fits, Names, Session
  <1>4. session' = [session EXCEPT ![s] = x]
    BY DEF Load, Row, TInv, TypeOK
  <1>. HIDE DEF x
  <1>. QED
    BY <1>3, <1>4, Replaced

(* What an operation computes from is a natural number.                    *)
LEMMA Amounts ==
    ASSUME TInv, NEW s \in Sessions, Row(s).pc # "idle"
    PROVE  /\ Current(s) \in Nat /\ Row(s).charge \in Nat /\ Row(s).mirror \in Nat
           /\ Row(s).toman.gift \in Nat /\ Row(s).toman.paid \in Nat
           /\ Row(s).op = "redeem" => TotalCredit(s) \in Nat
  <1>1. Row(s) \in Session /\ (Row(s).op = "redeem" => Row(s).code \in Codes)
    BY Under
  <1>2. /\ Row(s).mirror \in Nat /\ Row(s).wallet \in Balance
        /\ Row(s).charge \in Nat /\ Row(s).toman \in Account
    BY <1>1 DEF Session
  <1>3. Current(s) \in Nat
    BY <1>2 DEF Current, Balance
  <1>4. ASSUME NEW c \in Codes
        PROVE  Bonus(c, Row(s).charge) \in Nat
    <2>1. Code[c].value \in Nat
      BY CodeAssumption DEF PromoCode
    <2>. QED
      BY <1>2, <2>1 DEF Bonus
  <1>5. Row(s).op = "redeem" => TotalCredit(s) \in Nat
    BY <1>1, <1>2, <1>4 DEF TotalCredit
  <1>. QED
    BY <1>2, <1>3, <1>5 DEF Account

LEMMA WriteBalanceType ==
    ASSUME TInv, NEW s \in Sessions, NEW new \in Nat, Row(s).pc # "idle", WriteBalance(s, new)
    PROVE  mirror' \in [Users -> Nat] /\ wallet' \in [Users -> Balance]
  BY DEF WriteBalance, TInv, TypeOK, Balance

LEMMA AddRedemptionType ==
    ASSUME TInv, IsFiniteSet(redemptions), NEW s \in Sessions, At(s, "redeem", "ready"),
           AddRedemption(s)
    PROVE  redemptions' \subseteq Redemption
  <1>. DEFINE c == Row(s).code
  <1>1. c \in Codes /\ Row(s).user \in Users
    BY Under DEF At
  <1>2. IsFiniteSet(OfCode(c))
    BY FS_Subset DEF OfCode
  <1>3. Cardinality(OfCode(c)) + 1 \in Nat
    BY <1>2, FS_CardinalityType
  <1>. QED
    BY <1>1, <1>3 DEF AddRedemption, Redemption, TInv, TypeOK

-----------------------------------------------------------------------------
(* The limits of a code.  A request past CheckCode has a place among those *)
(* that may still pass the limit, and keeps it until its redemption is     *)
(* counted; there are no more of them than sessions.                       *)
Pending(c) == {s \in Sessions : At(s, "redeem", "ready") /\ Row(s).code = c}
PendingOf(c, u) == {s \in Pending(c) : Row(s).user = u}

Numbered == /\ IsFiniteSet(redemptions)
            /\ \A r \in redemptions : r.n \in 1..Cardinality(OfCode(r.code))

RoomOf(c) ==
    ~Code[c].unlimited =>
        Cardinality(OfCode(c)) + Cardinality(Pending(c))
            < Code[c].total + Cardinality(Sessions)

RoomOfUser(c, u) ==
    Code[c].perUser > 0 =>
        Cardinality(OfUser(c, u)) + Cardinality(PendingOf(c, u))
            < Code[c].perUser + Cardinality(Sessions)

Room == \A c \in Codes : RoomOf(c) /\ \A u \in Users : RoomOfUser(c, u)

IInv == TInv /\ Numbered /\ Room

LEMMA Limits ==
    ASSUME NEW c \in Codes
    PROVE  Code[c].total \in Nat /\ Code[c].perUser \in Nat
  BY CodeAssumption DEF PromoCode

LEMMA SessionsCounted == IsFiniteSet(Sessions) /\ Cardinality(Sessions) \in Nat \ {0}
  BY SetsAssumption, FS_CardinalityType, FS_EmptySet

LEMMA Counted ==
    ASSUME IsFiniteSet(redemptions), NEW c, NEW u
    PROVE  /\ IsFiniteSet(OfCode(c)) /\ Cardinality(OfCode(c)) \in Nat
           /\ IsFiniteSet(OfUser(c, u)) /\ Cardinality(OfUser(c, u)) \in Nat
  <1>1. OfCode(c) \subseteq redemptions /\ OfUser(c, u) \subseteq redemptions
    BY DEF OfCode, OfUser
  <1>. QED
    BY <1>1, FS_Subset, FS_CardinalityType

LEMMA PendingCounted ==
    ASSUME NEW c, NEW u
    PROVE  /\ IsFiniteSet(Pending(c)) /\ Cardinality(Pending(c)) \in 0..Cardinality(Sessions)
           /\ IsFiniteSet(PendingOf(c, u))
           /\ Cardinality(PendingOf(c, u)) \in 0..Cardinality(Sessions)
  <1>1. Pending(c) \subseteq Sessions /\ PendingOf(c, u) \subseteq Sessions
    BY DEF Pending, PendingOf
  <1>. QED
    BY <1>1, SessionsCounted, FS_Subset, FS_CardinalityType

(* A step that counts no redemption and makes no request ready keeps the   *)
(* room.                                                                   *)
LEMMA RoomStays ==
    ASSUME IInv, redemptions' = redemptions,
           \A c \in Codes : Pending(c)' \subseteq Pending(c),
           \A c \in Codes, u \in Users : PendingOf(c, u)' \subseteq PendingOf(c, u)
    PROVE  Numbered' /\ Room'
  <1>1. Numbered'
    BY DEF IInv, Numbered, OfCode
  <1>2. ASSUME NEW c \in Codes
        PROVE  RoomOf(c)'
    <2>1. OfCode(c)' = OfCode(c)
      BY DEF OfCode
    <2>2. Cardinality(Pending(c)') <= Cardinality(Pending(c)) /\ Cardinality(Pending(c)') \in Nat
      BY PendingCounted, FS_Subset, FS_CardinalityType
    <2>3. RoomOf(c)
      BY DEF IInv, Room
    <2>4. Cardinality(OfCode(c)) \in Nat /\ Cardinality(Pending(c)) \in Nat
      BY Counted, PendingCounted, SessionsCounted DEF IInv, Numbered
    <2>. QED
      BY <2>1, <2>2, <2>3, <2>4, Limits, SessionsCounted DEF RoomOf
  <1>3. ASSUME NEW c \in Codes, NEW u \in Users
        PROVE  RoomOfUser(c, u)'
    <2>1. OfUser(c, u)' = OfUser(c, u)
      BY DEF OfUser, OfCode
    <2>2. /\ Cardinality(PendingOf(c, u)') <= Cardinality(PendingOf(c, u))
          /\ Cardinality(PendingOf(c, u)') \in Nat
      BY PendingCounted, FS_Subset, FS_CardinalityType
    <2>3. RoomOfUser(c, u)
      BY DEF IInv, Room
    <2>4. Cardinality(OfUser(c, u)) \in Nat /\ Cardinality(PendingOf(c, u)) \in Nat
      BY Counted, PendingCounted, SessionsCounted DEF IInv, Numbered
    <2>. QED
      BY <2>1, <2>2, <2>3, <2>4, Limits, SessionsCounted DEF RoomOfUser
  <1>. QED
    BY <1>1, <1>2, <1>3 DEF Room

(* The same, for a step that replaces one operation by x.                  *)
LEMMA RoomKept ==
    ASSUME IInv, redemptions' = redemptions, NEW s \in Sessions, NEW x,
           session' = [session EXCEPT ![s] = x], ~(x.op = "redeem" /\ x.pc = "ready")
    PROVE  Numbered' /\ Room'
  <1>1. \A t \in Sessions : session'[t] = IF t = s THEN x ELSE session[t]
    BY DEF IInv, TInv, TypeOK
  <1>. QED
    BY <1>1, RoomStays DEF Pending, PendingOf, At, Row

LEMMA RoomClosed ==
    ASSUME IInv, redemptions' = redemptions, NEW s \in Sessions, Close(s)
    PROVE  Numbered' /\ Room'
  BY RoomKept DEF Close, Idle

LEMMA RoomOpened ==
    ASSUME IInv, redemptions' = redemptions, NEW s \in Sessions, NEW op, NEW u, NEW c,
           NEW charge, Open(s, op, u, c, charge)
    PROVE  Numbered' /\ Room'
  <1>. DEFINE x == [Idle EXCEPT !.pc = "loaded", !.op = op, !.user = u,
                                !.mirror = mirror[u], !.code = c, !.charge = charge]
  <1>1. session' = [session EXCEPT ![s] = x] /\ x.pc = "loaded"
    BY DEF Open, Idle
  <1>. HIDE DEF x
  <1>. QED
    BY <1>1, RoomKept

LEMMA RoomLoaded ==
    ASSUME IInv, redemptions' = redemptions, NEW s \in Sessions, Load(s), Row(s).op # "redeem"
    PROVE  Numbered' /\ Room'
  <1>. DEFINE x == [session[s] EXCEPT !.pc = "ready", !.wallet = wallet[session[s].user],
                                      !.toman = toman[session[s].user]]
  <1>1. session[s] \in Session
    BY DEF IInv, TInv, TypeOK
  <1>2. session' = [session EXCEPT ![s] = x] /\ x.op = session[s].op
    BY <1>1 DEF Load, Row, Session
  <1>. HIDE DEF x
  <1>. QED
    BY <1>2, RoomKept DEF Row

(* A checked request finds the code below its limits.                      *)
LEMMA RoomChecked ==
    ASSUME IInv, NEW s \in Sessions, CheckCode(s)
    PROVE  Numbered' /\ Room'
  <1>. DEFINE c == Row(s).code
              u == Row(s).user
              x == [session[s] EXCEPT !.pc = "ready", !.wallet = wallet[session[s].user],
                                      !.toman = toman[session[s].user]]
  <1>0. session[s] \in Session
    BY DEF IInv, TInv, TypeOK
  <1>1. /\ session' = [session EXCEPT ![s] = x] /\ redemptions' = redemptions
        /\ x.code = c /\ x.user = u
    BY <1>0 DEF CheckCode, Load, Row, Session
  <1>. HIDE DEF x
  <1>2. \A t \in Sessions : session'[t] = IF t = s THEN x ELSE session[t]
    BY <1>1 DEF IInv, TInv, TypeOK
  <1>3. Numbered'
    BY <1>1 DEF IInv, Numbered, OfCode
  <1>4. ASSUME NEW d \in Codes
        PROVE  RoomOf(d)'
    <2>1. OfCode(d)' = OfCode(d) /\ Cardinality(OfCode(d)) \in Nat
      BY <1>1, Counted DEF OfCode, IInv, Numbered
    <2>2. CASE d = c
      <3>1. Code[d].unlimited \/ Cardinality(OfCode(d)) < Code[d].total
        BY <2>2 DEF CheckCode, Redeemable, BelowTotal
      <3>2. Cardinality(Pending(d)') \in 0..Cardinality(Sessions)
        <4>1. Pending(d)' \subseteq Sessions
          BY DEF Pending
        <4>. QED
          BY <4>1, SessionsCounted, FS_Subset, FS_CardinalityType
      <3>. QED
        BY <2>1, <3>1, <3>2, Limits, SessionsCounted DEF RoomOf
    <2>3. CASE d # c
      <3>1. Pending(d)' = Pending(d)
        BY <1>1, <1>2, <2>3 DEF Pending, At, Row, CheckCode
      <3>. QED
        BY <2>1, <3>1 DEF RoomOf, IInv, Room
    <2>. QED
      BY <2>2, <2>3
  <1>5. ASSUME NEW d \in Codes, NEW v \in Users
        PROVE  RoomOfUser(d, v)'
    <2>0. OfUser(d, v)' = OfUser(d, v)
      BY <1>1 DEF OfUser, OfCode
    <2>1. OfUser(d, v)' = OfUser(d, v) /\ Cardinality(OfUser(d, v)) \in Nat
      BY <2>0, Counted DEF IInv, Numbered
    <2>2. CASE d = c /\ v = u
      <3>1. Code[d].perUser > 0 => Cardinality(OfUser(d, v)) < Code[d].perUser
        BY <2>2 DEF CheckCode, Redeemable
      <3>2. Cardinality(PendingOf(d, v)') \in 0..Cardinality(Sessions)
        <4>1. PendingOf(d, v)' \subseteq Sessions
          BY DEF Pending, PendingOf
        <4>. QED
          BY <4>1, SessionsCounted, FS_Subset, FS_CardinalityType
      <3>. QED
        BY <2>1, <3>1, <3>2, Limits, SessionsCounted DEF RoomOfUser
    <2>3. CASE ~(d = c /\ v = u)
      <3>1. PendingOf(d, v)' = PendingOf(d, v)
        BY <1>1, <1>2, <2>3 DEF Pending, PendingOf, At, Row, CheckCode
      <3>. QED
        BY <2>1, <3>1 DEF RoomOfUser, IInv, Room
    <2>. QED
      BY <2>2, <2>3
  <1>. QED
    BY <1>3, <1>4, <1>5 DEF Room

(* Counting a redemption frees its place.                                  *)
LEMMA RoomCounted ==
    ASSUME IInv, NEW s \in Sessions, At(s, "redeem", "ready"), AddRedemption(s), Close(s),
           NEW k \in Codes, Row(s).code = k, NEW w \in Users, Row(s).user = w
    PROVE  Numbered' /\ Room'
  <1>. DEFINE r == [code |-> k, user |-> w, n |-> Cardinality(OfCode(k)) + 1]
  <1>1. redemptions' = redemptions \cup {r}
    BY DEF AddRedemption
  <1>2. \A t \in Sessions : session'[t] = IF t = s THEN Idle ELSE session[t]
    BY DEF Close, IInv, TInv, TypeOK
  <1>3. IsFiniteSet(redemptions) /\ Numbered
    BY DEF IInv, Numbered
  <1>4. IsFiniteSet(OfCode(k)) /\ Cardinality(OfCode(k)) \in Nat
    BY <1>3, Counted
  <1>5. r.code = k /\ r.user = w /\ r.n = Cardinality(OfCode(k)) + 1
    OBVIOUS
  <1>6. r \notin redemptions
    BY <1>3, <1>4, <1>5 DEF Numbered
  <1>. HIDE DEF r
  <1>7. /\ OfCode(k)' = OfCode(k) \cup {r}
        /\ \A d : d # k => OfCode(d)' = OfCode(d)
    BY <1>1, <1>5 DEF OfCode
  <1>8. /\ OfUser(k, w)' = OfUser(k, w) \cup {r}
        /\ \A d, v : ~(d = k /\ v = w) => OfUser(d, v)' = OfUser(d, v)
    BY <1>5, <1>7 DEF OfUser
  <1>9. r \notin OfCode(k) /\ r \notin OfUser(k, w)
    BY <1>6 DEF OfCode, OfUser
  <1>10. /\ IsFiniteSet(OfUser(k, w)) /\ Cardinality(OfUser(k, w)) \in Nat
    BY <1>3, Counted
  <1>11. /\ Cardinality(OfCode(k)') = Cardinality(OfCode(k)) + 1
         /\ Cardinality(OfUser(k, w)') = Cardinality(OfUser(k, w)) + 1
    <2>1. Cardinality(OfCode(k) \cup {r}) = Cardinality(OfCode(k)) + 1
      BY <1>4, <1>9, FS_AddElement
    <2>2. Cardinality(OfUser(k, w) \cup {r}) = Cardinality(OfUser(k, w)) + 1
      BY <1>9, <1>10, FS_AddElement
    <2>. QED
      BY <1>7, <1>8, <2>1, <2>2
  <1>12. /\ Pending(k)' = Pending(k) \ {s} /\ s \in Pending(k)
         /\ PendingOf(k, w)' = PendingOf(k, w) \ {s} /\ s \in PendingOf(k, w)
    BY <1>2 DEF Pending, PendingOf, At, Row, Idle
  <1>13. /\ Cardinality(Pending(k)') = Cardinality(Pending(k)) - 1
         /\ Cardinality(PendingOf(k, w)') = Cardinality(PendingOf(k, w)) - 1
    <2>1. IsFiniteSet(Pending(k)) /\ IsFiniteSet(PendingOf(k, w))
      BY PendingCounted
    <2>2. Cardinality(Pending(k) \ {s}) = Cardinality(Pending(k)) - 1
      BY <1>12, <2>1, FS_RemoveElement
    <2>3. Cardinality(PendingOf(k, w) \ {s}) = Cardinality(PendingOf(k, w)) - 1
      BY <1>12, <2>1, FS_RemoveElement
    <2>. QED
      BY <1>12, <2>2, <2>3
  <1>14. /\ \A d \in Codes : d # k => Pending(d)' = Pending(d)
         /\ \A d \in Codes, v \in Users :
               ~(d = k /\ v = w) => PendingOf(d, v)' = PendingOf(d, v)
    BY <1>2 DEF Pending, PendingOf, At, Row, Idle
  <1>15. Numbered'
    <2>1. IsFiniteSet(redemptions)'
      BY <1>1, <1>3, FS_AddElement
    <2>2. ASSUME NEW q \in redemptions'
          PROVE  q.n \in 1..Cardinality(OfCode(q.code)')
      <3>1. CASE q = r
        BY <3>1, <1>4, <1>5, <1>11
      <3>2. CASE q \in redemptions
        <4>1. q.n \in 1..Cardinality(OfCode(q.code))
          BY <3>2, <1>3 DEF Numbered
        <4>2. CASE q.code = k
          BY <4>1, <4>2, <1>4, <1>11
        <4>3. CASE q.code # k
          BY <4>1, <4>3, <1>7
        <4>. QED
          BY <4>2, <4>3
      <3>. QED
        BY <3>1, <3>2, <1>1
    <2>. QED
      BY <2>1, <2>2 DEF Numbered
  <1>16. ASSUME NEW d \in Codes
         PROVE  RoomOf(d)'
    <2>1. RoomOf(d)
      BY DEF IInv, Room
    <2>2. CASE d = k
      <3>1. Cardinality(Pending(k)) \in Nat
        BY PendingCounted, SessionsCounted
      <3>. QED
        BY <2>1, <2>2, <3>1, <1>4, <1>11, <1>13 DEF RoomOf
    <2>3. CASE d # k
      BY <2>1, <2>3, <1>7, <1>14 DEF RoomOf
    <2>. QED
      BY <2>2, <2>3
  <1>17. ASSUME NEW d \in Codes, NEW v \in Users
         PROVE  RoomOfUser(d, v)'
    <2>1. RoomOfUser(d, v)
      BY DEF IInv, Room
    <2>2. CASE d = k /\ v = w
      <3>1. Cardinality(PendingOf(k, w)) \in Nat
        BY PendingCounted, SessionsCounted
      <3>. QED
        BY <2>1, <2>2, <3>1, <1>10, <1>11, <1>13 DEF RoomOfUser
    <2>3. CASE ~(d = k /\ v = w)
      BY <2>1, <2>3, <1>8, <1>14 DEF RoomOfUser
    <2>. QED
      BY <2>2, <2>3
  <1>. QED
    BY <1>15, <1>16, <1>17 DEF Room

-----------------------------------------------------------------------------
LEMMA InitIInv == Init => IInv
  <1>. SUFFICES ASSUME Init
                PROVE  IInv
    OBVIOUS
  <1>1. mirror \in [Users -> Nat]
    BY AmountsAssumption DEF Init
  <1>2. posted \in [Users -> Sums]
    <2>1. \A u \in Users : mirror[u] \in Nat
      BY <1>1
    <2>. QED
      BY <2>1 DEF Init, Sums
  <1>3. toman \in [Users -> Account] /\ wallet \in [Users -> Balance]
    BY DEF Init, Account, Balance
  <1>4. session \in [Sessions -> Session] /\ \A s \in Sessions : Names(session[s])
    BY IdleFits DEF Init, Fits
  <1>5. joined \subseteq Users /\ redemptions = {} /\ active \subseteq Codes
        /\ overlapped \in BOOLEAN
    BY DEF Init
  <1>6. TInv
    BY <1>1, <1>2, <1>3, <1>4, <1>5 DEF TInv, TypeOK
  <1>7. \A c, u : OfCode(c) = {} /\ OfUser(c, u) = {}
    BY <1>5 DEF OfCode, OfUser
  <1>8. \A c, u : Pending(c) = {} /\ PendingOf(c, u) = {}
    BY DEF Init, Pending, PendingOf, At, Row, Idle
  <1>9. Numbered
    BY <1>5, FS_EmptySet DEF Numbered
  <1>10. Room
    <2>1. \A c \in Codes : RoomOf(c)
      BY <1>7, <1>8, FS_EmptySet, Limits, SessionsCounted DEF RoomOf
    <2>2. \A c \in Codes, u \in Users : RoomOfUser(c, u)
      BY <1>7, <1>8, FS_EmptySet, Limits, SessionsCounted DEF RoomOfUser
    <2>. QED
      BY <2>1, <2>2 DEF Room
  <1>. QED
    BY <1>6, <1>9, <1>10 DEF IInv

LEMMA IInvStep == IInv /\ [Next]_vars => IInv'
  <1>. SUFFICES ASSUME IInv, [Next]_vars
                PROVE  IInv'
    OBVIOUS
  <1>0. TInv /\ IsFiniteSet(redemptions)
    BY DEF IInv, Numbered
  <1>1. ASSUME NEW s \in Sessions, NEW u \in Users, NEW c \in Codes, NEW charge \in Charges,
               BeginRedeem(s, u, c, charge)
        PROVE  IInv'
    <2>1. charge \in Nat
      BY AmountsAssumption
    <2>2. TInv'
      BY <1>0, <1>1, <2>1, OpenFits DEF BeginRedeem, TInv, TypeOK, money
    <2>. QED
      BY <1>1, <2>2, RoomOpened DEF BeginRedeem, IInv
  <1>2. ASSUME NEW s \in Sessions, NEW u \in Users, BeginImage(s, u)
        PROVE  IInv'
    <2>1. TInv'
      BY <1>0, <1>2, OpenFits DEF BeginImage, TInv, TypeOK, money
    <2>. QED
      BY <1>2, <2>1, RoomOpened DEF BeginImage, IInv
  <1>3. ASSUME NEW s \in Sessions, NEW u \in Users, BeginConvert(s, u)
        PROVE  IInv'
    <2>1. TInv'
      BY <1>0, <1>3, OpenFits DEF BeginConvert, TInv, TypeOK, money
    <2>. QED
      BY <1>3, <2>1, RoomOpened DEF BeginConvert, IInv
  <1>4. ASSUME NEW s \in Sessions, CheckCode(s)
        PROVE  IInv'
    <2>1. TInv'
      BY <1>0, <1>4, LoadFits DEF CheckCode, At, TInv, TypeOK, money
    <2>. QED
      BY <1>4, <2>1, RoomChecked DEF IInv
  <1>5. ASSUME NEW s \in Sessions, RefuseCode(s)
        PROVE  IInv'
    <2>1. TInv'
      BY <1>0, <1>5, CloseFits DEF RefuseCode, TInv, TypeOK, money
    <2>. QED
      BY <1>5, <2>1, RoomClosed DEF RefuseCode, IInv
  <1>6. ASSUME NEW s \in Sessions, RedeemUsd(s)
        PROVE  IInv'
    <2>1. Row(s).pc # "idle" /\ Row(s).user \in Users /\ Row(s).code \in Codes
      BY <1>0, <1>6, Under DEF RedeemUsd, At
    <2>2. TotalCredit(s) \in Nat /\ Current(s) + TotalCredit(s) \in Nat
      BY <1>0, <1>6, <2>1, Amounts DEF RedeemUsd, At
    <2>3. mirror' \in [Users -> Nat] /\ wallet' \in [Users -> Balance]
      BY <1>0, <1>6, <2>1, <2>2, WriteBalanceType DEF RedeemUsd
    <2>4. posted' \in [Users -> Sums]
      <3>1. posted[Row(s).user] \in Sums
        BY <1>0, <2>1 DEF TInv, TypeOK
      <3>2. posted[Row(s).user].usdIn + TotalCredit(s) \in Nat
        BY <2>2, <3>1 DEF Sums
      <3>. QED
        BY <1>0, <1>6, <3>1, <3>2 DEF RedeemUsd, TInv, TypeOK, Sums
    <2>5. redemptions' \subseteq Redemption
      BY <1>0, <1>6, AddRedemptionType DEF RedeemUsd
    <2>6. TInv'
      BY <1>0, <1>6, <2>3, <2>4, <2>5, CloseFits DEF RedeemUsd, TInv, TypeOK
    <2>. QED
      BY <1>6, <2>1, <2>6, RoomCounted DEF RedeemUsd, IInv
  <1>7. ASSUME NEW s \in Sessions, RedeemToman(s)
        PROVE  IInv'
    <2>1. Row(s).pc # "idle" /\ Row(s).user \in Users /\ Row(s).code \in Codes
      BY <1>0, <1>7, Under DEF RedeemToman, At
    <2>2. TotalCredit(s) \in Nat /\ Row(s).toman.gift + TotalCredit(s) \in Nat
      BY <1>0, <1>7, <2>1, Amounts DEF RedeemToman, At
    <2>3. toman' \in [Users -> Account]
      BY <1>0, <1>7, <2>2 DEF RedeemToman, TInv, TypeOK, Account
    <2>4. posted' \in [Users -> Sums]
      <3>1. posted[Row(s).user] \in Sums
        BY <1>0, <2>1 DEF TInv, TypeOK
      <3>2. posted[Row(s).user].tomanIn + TotalCredit(s) \in Nat
        BY <2>2, <3>1 DEF Sums
      <3>. QED
        BY <1>0, <1>7, <3>1, <3>2 DEF RedeemToman, TInv, TypeOK, Sums
    <2>5. redemptions' \subseteq Redemption
      BY <1>0, <1>7, AddRedemptionType DEF RedeemToman
    <2>6. TInv'
      BY <1>0, <1>7, <2>3, <2>4, <2>5, CloseFits DEF RedeemToman, TInv, TypeOK
    <2>. QED
      BY <1>7, <2>1, <2>6, RoomCounted DEF RedeemToman, IInv
  <1>8. ASSUME NEW s \in Sessions, ReadWallet(s)
        PROVE  IInv'
    <2>1. TInv'
      BY <1>0, <1>8, LoadFits DEF ReadWallet, At, TInv, TypeOK, money
    <2>. QED
      BY <1>8, <2>1, RoomLoaded DEF ReadWallet, At, IInv
  <1>9. ASSUME NEW s \in Sessions, DebitImage(s)
        PROVE  IInv'
    <2>1. Row(s).pc # "idle" /\ Row(s).user \in Users
      BY <1>0, <1>9, Under DEF DebitImage, At
    <2>2. Current(s) - ImagePrice \in Nat
      BY <1>0, <1>9, <2>1, Amounts, AmountsAssumption DEF DebitImage, Sufficient
    <2>3. mirror' \in [Users -> Nat] /\ wallet' \in [Users -> Balance]
      BY <1>0, <1>9, <2>1, <2>2, WriteBalanceType DEF DebitImage
    <2>4. posted' \in [Users -> Sums]
      <3>1. posted[Row(s).user] \in Sums
        BY <1>0, <2>1 DEF TInv, TypeOK
      <3>2. posted[Row(s).user].usdOut + ImagePrice \in Nat
        BY <3>1, AmountsAssumption DEF Sums
      <3>. QED
        BY <1>0, <1>9, <3>1, <3>2 DEF DebitImage, TInv, TypeOK, Sums
    <2>5. TInv'
      BY <1>0, <1>9, <2>3, <2>4, CloseFits DEF DebitImage, TInv, TypeOK
    <2>. QED
      BY <1>9, <2>5, RoomClosed DEF DebitImage, IInv
  <1>10. ASSUME NEW s \in Sessions, RefuseImage(s)
         PROVE  IInv'
    <2>1. Current(s) \in Nat
      BY <1>0, <1>10, Amounts DEF RefuseImage, At
    <2>2. wallet' \in [Users -> Balance]
      BY <1>0, <1>10, <2>1 DEF RefuseImage, TInv, TypeOK, Balance
    <2>3. TInv'
      BY <1>0, <1>10, <2>2, CloseFits DEF RefuseImage, TInv, TypeOK
    <2>. QED
      BY <1>10, <2>3, RoomClosed DEF RefuseImage, IInv
  <1>11. ASSUME NEW s \in Sessions, WalletRefused(s)
         PROVE  IInv'
    <2>1. TInv'
      BY <1>0, <1>11, CloseFits DEF WalletRefused, TInv, TypeOK, money
    <2>. QED
      BY <1>11, <2>1, RoomClosed DEF WalletRefused, IInv
  <1>12. ASSUME NEW s \in Sessions, ReadAccount(s)
         PROVE  IInv'
    <2>1. TInv'
      BY <1>0, <1>12, LoadFits DEF ReadAccount, At, TInv, TypeOK, money
    <2>. QED
      BY <1>12, <2>1, RoomLoaded DEF ReadAccount, At, IInv
  <1>13. ASSUME NEW s \in Sessions, Convert(s)
         PROVE  IInv'
    <2>1. /\ Row(s).pc # "idle" /\ Row(s).user \in Users
          /\ Row(s).toman.paid \in Nat /\ Row(s).mirror \in Nat
      BY <1>0, <1>13, Under, Amounts DEF Convert, At
    <2>2. Rate * Row(s).mirror \in Nat
      BY <2>1, AmountsAssumption
    <2>3. Row(s).toman.paid + Rate * Row(s).mirror \in Nat
      BY <2>1, <2>2
    <2>4. toman' \in [Users -> Account]
      BY <1>0, <1>13, <2>3 DEF Convert, Credit, TInv, TypeOK, Account
    <2>5. wallet' \in [Users -> Balance] /\ mirror' \in [Users -> Nat]
      BY <1>0, <1>13 DEF Convert, TInv, TypeOK, Balance
    <2>6. TInv'
      BY <1>0, <1>13, <2>4, <2>5, CloseFits DEF Convert, TInv, TypeOK
    <2>. QED
      BY <1>13, <2>6, RoomClosed DEF Convert, IInv
  <1>14. ASSUME NEW s \in Sessions, Abandon(s)
         PROVE  IInv'
    <2>1. TInv'
      BY <1>0, <1>14, CloseFits DEF Abandon, TInv, TypeOK, money
    <2>. QED
      BY <1>14, <2>1, RoomClosed DEF Abandon, IInv
  <1>15. ASSUME NEW u \in Users, SignUp(u)
         PROVE  IInv'
    <2>1. wallet' \in [Users -> Balance] /\ mirror' \in [Users -> Nat]
      BY <1>0, <1>15, AmountsAssumption DEF SignUp, TInv, TypeOK, Balance
    <2>2. toman' \in [Users -> Account] /\ posted' \in [Users -> Sums]
      <3>1. toman[u] \in Account /\ posted[u] \in Sums
        BY <1>0 DEF TInv, TypeOK
      <3>2. /\ toman[u].gift + StarterToman \in Nat
            /\ posted[u].usdIn + StarterUsd \in Nat
            /\ posted[u].tomanIn + StarterToman \in Nat
        BY <3>1, AmountsAssumption DEF Account, Sums
      <3>3. toman' \in [Users -> Account]
        BY <1>0, <1>15, <3>1, <3>2 DEF SignUp, TInv, TypeOK, Account
      <3>4. posted' \in [Users -> Sums]
        BY <1>0, <1>15, <3>1, <3>2 DEF SignUp, TInv, TypeOK, Sums
      <3>. QED
        BY <3>3, <3>4
    <2>3. TInv'
      BY <1>0, <1>15, <2>1, <2>2 DEF SignUp, TInv, TypeOK
    <2>4. Numbered' /\ Room'
      BY <1>15, RoomStays DEF SignUp, Pending, PendingOf, At, Row
    <2>. QED
      BY <2>3, <2>4 DEF IInv
  <1>16. ASSUME NEW c \in Codes, SwitchCode(c)
         PROVE  IInv'
    <2>1. TInv'
      BY <1>0, <1>16 DEF SwitchCode, TInv, TypeOK, money
    <2>2. Numbered' /\ Room'
      BY <1>16, RoomStays DEF SwitchCode, Pending, PendingOf, At, Row
    <2>. QED
      BY <2>1, <2>2 DEF IInv
  <1>17. CASE UNCHANGED vars
    <2>1. TInv'
      BY <1>0, <1>17 DEF vars, TInv, TypeOK
    <2>2. Numbered' /\ Room'
      BY <1>17, RoomStays DEF vars, Pending, PendingOf, At, Row
    <2>. QED
      BY <2>1, <2>2 DEF IInv
  <1>. QED
    BY <1>1, <1>2, <1>3, <1>4, <1>5, <1>6, <1>7, <1>8, <1>9, <1>10, <1>11, <1>12, <1>13,
       <1>14, <1>15, <1>16, <1>17 DEF Next, Step

LEMMA IInvHolds == Spec => []IInv
  <1>. QED
    BY InitIInv, IInvStep, PTL DEF Spec

(* Every state of the wallets, codes and sessions is well typed: no        *)
(* balance is negative, although a debit is computed from a stale row.     *)
THEOREM TypeCorrect == Spec => []TypeOK
  <1>1. IInv => TypeOK
    BY DEF IInv, TInv
  <1>. QED
    BY <1>1, IInvHolds, PTL

(* redeem_promo_code_for_user counts without a lock, and still passes a    *)
(* limit by no more than the other sessions open: each request past its    *)
(* check holds one of these places until its redemption is counted.        *)
THEOREM LimitsNearlyKept == Spec => []RedemptionsBounded
  <1>1. IInv => RedemptionsBounded
    <2>. SUFFICES ASSUME IInv
                  PROVE  RedemptionsBounded
      OBVIOUS
    <2>1. ASSUME NEW c \in Codes, ~Code[c].unlimited
          PROVE  Cardinality(OfCode(c)) < Code[c].total + Cardinality(Sessions)
      <3>1. RoomOf(c)
        BY DEF IInv, Room
      <3>2. Cardinality(OfCode(c)) \in Nat /\ Cardinality(Pending(c)) \in Nat
        BY Counted, PendingCounted, SessionsCounted DEF IInv, Numbered
      <3>. QED
        BY <2>1, <3>1, <3>2, Limits, SessionsCounted DEF RoomOf
    <2>2. ASSUME NEW c \in Codes, NEW u \in Users, Code[c].perUser > 0
          PROVE  Cardinality(OfUser(c, u)) < Code[c].perUser + Cardinality(Sessions)
      <3>1. RoomOfUser(c, u)
        BY DEF IInv, Room
      <3>2. Cardinality(OfUser(c, u)) \in Nat /\ Cardinality(PendingOf(c, u)) \in Nat
        BY Counted, PendingCounted, SessionsCounted DEF IInv, Numbered
      <3>. QED
        BY <2>2, <3>1, <3>2, Limits, SessionsCounted DEF RoomOfUser
    <2>. QED
      BY <2>1, <2>2 DEF RedemptionsBounded
  <1>. QED
    BY <1>1, IInvHolds, PTL

-----------------------------------------------------------------------------
(* Dollars are conserved.  The strengthening: a user who has not joined    *)
(* has nothing; as long as no two operations were under way at once there  *)
(* is at most one, and what it has selected is what the tables hold.       *)

Exact(u) ==
    /\ InWallet(u) = mirror[u]
    /\ Rate * (posted[u].usdIn - posted[u].usdOut - mirror[u]) = toman[u].paid
    /\ toman[u].gift = posted[u].tomanIn

Untouched(u) ==
    /\ wallet[u] = NoWallet /\ mirror[u] = 0
    /\ toman[u].gift = 0 /\ toman[u].paid = 0
    /\ posted[u].usdIn = 0 /\ posted[u].usdOut = 0 /\ posted[u].tomanIn = 0

Members ==
    /\ \A s \in Sessions : session[s].pc # "idle" => session[s].user \in joined
    /\ \A u \in Users \ joined : Untouched(u)

Fresh(x) ==
    x.pc # "idle" =>
        /\ x.mirror = mirror[x.user]
        /\ x.pc = "ready" => x.wallet = wallet[x.user] /\ x.toman = toman[x.user]

Lone == \A s, t \in Sessions :
           session[s].pc # "idle" /\ session[t].pc # "idle" => s = t

Undisturbed == Lone /\ (\A s \in Sessions : Fresh(session[s])) /\ \A u \in joined : Exact(u)

UInv == Members /\ (~overlapped => Undisturbed)

LEMMA OpenConserves ==
    ASSUME TInv, UInv, NEW s \in Sessions, NEW op, NEW u \in Users, NEW c, NEW charge,
           Open(s, op, u, c, charge), UNCHANGED <<joined, money>>
    PROVE  UInv'
  <1>. DEFINE x == [Idle EXCEPT !.pc = "loaded", !.op = op, !.user = u,
                                !.mirror = mirror[u], !.code = c, !.charge = charge]
  <1>1. /\ x.pc = "loaded" /\ x.user = u /\ x.mirror = mirror[u] /\ u \in joined
        /\ session' = [session EXCEPT ![s] = x]
    BY DEF Open, Idle
  <1>. HIDE DEF x
  <1>2. \A t \in Sessions : session'[t] = IF t = s THEN x ELSE session[t]
    BY <1>1 DEF TInv, TypeOK
  <1>3. UNCHANGED <<joined, mirror, wallet, toman, posted>>
    BY DEF money
  <1>4. Members'
    BY <1>1, <1>2, <1>3 DEF UInv, Members, Untouched
  <1>5. ~overlapped' => ~overlapped /\ \A t \in Sessions : session[t].pc = "idle"
    BY DEF Open, Row
  <1>6. ~overlapped' => Undisturbed'
    BY <1>1, <1>2, <1>3, <1>5 DEF UInv, Undisturbed, Lone, Fresh, Exact, InWallet
  <1>. QED
    BY <1>4, <1>6 DEF UInv

LEMMA LoadConserves ==
    ASSUME TInv, UInv, NEW s \in Sessions, Row(s).pc = "loaded", Load(s),
           UNCHANGED <<joined, money, overlapped>>
    PROVE  UInv'
  <1>. DEFINE x == [session[s] EXCEPT !.pc = "ready", !.wallet = wallet[session[s].user],
                                      !.toman = toman[session[s].user]]
  <1>1. /\ x.pc = "ready" /\ x.user = session[s].user /\ x.mirror = session[s].mirror
        /\ x.wallet = wallet[x.user] /\ x.toman = toman[x.user]
        /\ session' = [session EXCEPT ![s] = x] /\ session[s].pc = "loaded"
    BY DEF Load, Row, TInv, TypeOK, Session
  <1>. HIDE DEF x
  <1>2. \A t \in Sessions : session'[t] = IF t = s THEN x ELSE session[t]
    BY <1>1 DEF TInv, TypeOK
  <1>3. UNCHANGED <<joined, mirror, wallet, toman, posted, overlapped>>
    BY DEF money
  <1>4. Members'
    BY <1>1, <1>2, <1>3 DEF UInv, Members, Untouched
  <1>5. ~overlapped' => Undisturbed'
    BY <1>1, <1>2, <1>3 DEF UInv, Undisturbed, Lone, Fresh, Exact, InWallet
  <1>. QED
    BY <1>4, <1>5 DEF UInv

(* An operation ends, having written its user's columns or nothing.  When  *)
(* it was alone, only its own user's balances need to be looked at.        *)
LEMMA CommitConserves ==
    ASSUME TInv, UInv, NEW s \in Sessions, Row(s).pc # "idle", Close(s),
           NEW u, u = Row(s).user,
           \A v \in Users \ {u} : /\ wallet'[v] = wallet[v] /\ mirror'[v] = mirror[v]
                                  /\ toman'[v] = toman[v] /\ posted'[v] = posted[v],
           ~overlapped => Exact(u)',
           UNCHANGED <<joined, overlapped>>
    PROVE  UInv'
  <1>1. /\ \A t \in Sessions : session'[t] = IF t = s THEN Idle ELSE session[t]
        /\ Idle.pc = "idle" /\ session[s].pc # "idle" /\ u \in joined /\ joined \subseteq Users
    BY DEF Close, Row, Idle, TInv, TypeOK, UInv, Members
  <1>2. Members'
    BY <1>1 DEF UInv, Members, Untouched
  <1>3. ASSUME ~overlapped
        PROVE  Undisturbed'
    <2>1. \A t \in Sessions : session'[t].pc = "idle"
      BY <1>1, <1>3 DEF UInv, Undisturbed, Lone
    <2>2. \A v \in joined \ {u} : Exact(v)'
      BY <1>1, <1>3 DEF UInv, Undisturbed, Exact, InWallet
    <2>. QED
      BY <1>3, <2>1, <2>2 DEF Undisturbed, Lone, Fresh
  <1>. QED
    BY <1>2, <1>3 DEF UInv

LEMMA CloseConserves ==
    ASSUME TInv, UInv, NEW s \in Sessions, Row(s).pc # "idle", Close(s),
           UNCHANGED <<joined, money, overlapped>>
    PROVE  UInv'
  <1>1. PICK u : u = Row(s).user
    OBVIOUS
  <1>2. u \in joined
    BY <1>1 DEF Row, UInv, Members
  <1>3. UNCHANGED <<mirror, wallet, toman, posted>>
    BY DEF money
  <1>4. ~overlapped => Exact(u)'
    BY <1>2, <1>3 DEF UInv, Undisturbed, Exact, InWallet
  <1>. QED
    BY <1>1, <1>3, <1>4, CommitConserves

(* What a lone operation computes from.                                    *)
LEMMA LoneFacts ==
    ASSUME TInv, UInv, NEW s \in Sessions, Row(s).pc = "ready", ~overlapped,
           NEW u, u = Row(s).user
    PROVE  /\ u \in joined /\ u \in Users /\ Exact(u)
           /\ Row(s).mirror = mirror[u] /\ Row(s).wallet = wallet[u]
           /\ Row(s).toman = toman[u] /\ Current(s) = mirror[u]
           /\ mirror[u] \in Nat /\ wallet[u] \in Balance
           /\ toman[u].gift \in Nat /\ toman[u].paid \in Nat
           /\ posted[u].usdIn \in Nat /\ posted[u].usdOut \in Nat
           /\ posted[u].tomanIn \in Nat /\ Rate \in Nat
  <1>1. u \in joined /\ u \in Users
    BY DEF UInv, Members, Row, TInv, TypeOK
  <1>2. /\ Row(s).mirror = mirror[u] /\ Row(s).wallet = wallet[u]
        /\ Row(s).toman = toman[u] /\ Exact(u)
    BY <1>1 DEF UInv, Undisturbed, Fresh, Row
  <1>3. Current(s) = mirror[u]
    BY <1>2 DEF Current, Exact, InWallet
  <1>4. /\ mirror[u] \in Nat /\ wallet[u] \in Balance
        /\ toman[u].gift \in Nat /\ toman[u].paid \in Nat
        /\ posted[u].usdIn \in Nat /\ posted[u].usdOut \in Nat
        /\ posted[u].tomanIn \in Nat /\ Rate \in Nat
    BY <1>1, AmountsAssumption DEF TInv, TypeOK, Account, Sums
  <1>. QED
    BY <1>1, <1>2, <1>3, <1>4

LEMMA WriteExact ==
    ASSUME TInv, UInv, NEW s \in Sessions, Row(s).pc = "ready", ~overlapped,
           NEW u, u = Row(s).user, NEW new \in Nat, WriteBalance(s, new),
           toman' = toman, posted'[u].tomanIn = posted[u].tomanIn,
           NEW in \in Nat, NEW out \in Nat,
           posted'[u].usdIn = in, posted'[u].usdOut = out,
           in - out - new = posted[u].usdIn - posted[u].usdOut - mirror[u]
    PROVE  Exact(u)'
  <1>1. /\ u \in Users /\ Exact(u) /\ Row(s).mirror = mirror[u]
    BY LoneFacts
  <1>2. wallet'[u] = new /\ mirror'[u] = new
    BY <1>1 DEF WriteBalance, TInv, TypeOK
  <1>3. new # NoWallet
    BY SetsAssumption
  <1>4. Rate * (in - out - new) = toman'[u].paid
    BY <1>1, Zenon DEF Exact
  <1>. QED
    BY <1>1, <1>2, <1>3, <1>4 DEF Exact, InWallet

LEMMA RedeemUsdConserves ==
    ASSUME TInv, UInv, NEW s \in Sessions, RedeemUsd(s)
    PROVE  UInv'
  <1>1. PICK u : u = Row(s).user
    OBVIOUS
  <1>2. PICK credit : credit = TotalCredit(s)
    OBVIOUS
  <1>3. PICK new : new = Current(s) + credit
    OBVIOUS
  <1>4. /\ Row(s).pc = "ready" /\ Row(s).op = "redeem" /\ u \in Users
        /\ credit \in Nat /\ new \in Nat
    BY <1>1, <1>2, <1>3, Under, Amounts DEF RedeemUsd, At
  <1>5. /\ WriteBalance(s, new) /\ toman' = toman /\ Close(s)
        /\ posted' = [posted EXCEPT ![u].usdIn = @ + credit]
        /\ UNCHANGED <<joined, overlapped>>
    BY <1>1, <1>2, <1>3 DEF RedeemUsd
  <1>6. /\ posted'[u].usdIn = posted[u].usdIn + credit
        /\ posted'[u].usdOut = posted[u].usdOut
        /\ posted'[u].tomanIn = posted[u].tomanIn
        /\ \A v \in Users \ {u} : posted'[v] = posted[v]
    BY <1>4, <1>5 DEF TInv, TypeOK, Sums
  <1>7. \A v \in Users \ {u} : wallet'[v] = wallet[v] /\ mirror'[v] = mirror[v]
    BY <1>1, <1>5 DEF WriteBalance, TInv, TypeOK
  <1>8. ~overlapped => Exact(u)'
    <2>1. SUFFICES ASSUME ~overlapped
                   PROVE  Exact(u)'
      OBVIOUS
    <2>2. /\ posted[u].usdIn \in Nat /\ posted[u].usdOut \in Nat
          /\ Current(s) = mirror[u] /\ mirror[u] \in Nat
      BY <1>1, <1>4, <2>1, LoneFacts
    <2>3. posted'[u].usdIn \in Nat /\ posted'[u].usdOut \in Nat
      BY <1>4, <1>6, <2>2
    <2>4. posted'[u].usdIn - posted'[u].usdOut - new
             = posted[u].usdIn - posted[u].usdOut - mirror[u]
      BY <1>3, <1>4, <1>6, <2>2
    <2>. QED
      BY <1>1, <1>4, <1>5, <1>6, <2>1, <2>3, <2>4, WriteExact
  <1>. QED
    BY <1>1, <1>4, <1>5, <1>6, <1>7, <1>8, CommitConserves

LEMMA DebitConserves ==
    ASSUME TInv, UInv, NEW s \in Sessions, DebitImage(s)
    PROVE  UInv'
  <1>1. PICK u : u = Row(s).user
    OBVIOUS
  <1>2. PICK new : new = Current(s) - ImagePrice
    OBVIOUS
  <1>3. /\ Row(s).pc = "ready" /\ u \in Users /\ ImagePrice \in Nat /\ new \in Nat
    BY <1>1, <1>2, Under, Amounts, AmountsAssumption DEF DebitImage, At, Sufficient
  <1>4. /\ WriteBalance(s, new) /\ toman' = toman /\ Close(s)
        /\ posted' = [posted EXCEPT ![u].usdOut = @ + ImagePrice]
        /\ UNCHANGED <<joined, overlapped>>
    BY <1>1, <1>2 DEF DebitImage
  <1>5. /\ posted'[u].usdOut = posted[u].usdOut + ImagePrice
        /\ posted'[u].usdIn = posted[u].usdIn
        /\ posted'[u].tomanIn = posted[u].tomanIn
        /\ \A v \in Users \ {u} : posted'[v] = posted[v]
    BY <1>3, <1>4 DEF TInv, TypeOK, Sums
  <1>6. \A v \in Users \ {u} : wallet'[v] = wallet[v] /\ mirror'[v] = mirror[v]
    BY <1>1, <1>4 DEF WriteBalance, TInv, TypeOK
  <1>7. ~overlapped => Exact(u)'
    <2>1. SUFFICES ASSUME ~overlapped
                   PROVE  Exact(u)'
      OBVIOUS
    <2>2. /\ posted[u].usdIn \in Nat /\ posted[u].usdOut \in Nat
          /\ Current(s) = mirror[u] /\ mirror[u] \in Nat
      BY <1>1, <1>3, <2>1, LoneFacts
    <2>3. posted'[u].usdIn \in Nat /\ posted'[u].usdOut \in Nat
      BY <1>3, <1>5, <2>2
    <2>4. posted'[u].usdIn - posted'[u].usdOut - new
             = posted[u].usdIn - posted[u].usdOut - mirror[u]
      BY <1>2, <1>3, <1>5, <2>2
    <2>. QED
      BY <1>1, <1>3, <1>4, <1>5, <2>1, <2>3, <2>4, WriteExact
  <1>. QED
    BY <1>1, <1>3, <1>4, <1>5, <1>6, <1>7, CommitConserves

LEMMA RedeemTomanConserves ==
    ASSUME TInv, UInv, NEW s \in Sessions, RedeemToman(s)
    PROVE  UInv'
  <1>1. PICK u : u = Row(s).user
    OBVIOUS
  <1>2. PICK credit : credit = TotalCredit(s)
    OBVIOUS
  <1>3. /\ Row(s).pc = "ready" /\ u \in Users /\ credit \in Nat
    BY <1>1, <1>2, Under, Amounts DEF RedeemToman, At
  <1>4. /\ toman' = [toman EXCEPT ![u].gift = Row(s).toman.gift + credit]
        /\ posted' = [posted EXCEPT ![u].tomanIn = @ + credit]
        /\ Close(s) /\ UNCHANGED <<joined, mirror, wallet, overlapped>>
    BY <1>1, <1>2 DEF RedeemToman
  <1>5. /\ toman'[u].gift = Row(s).toman.gift + credit
        /\ toman'[u].paid = toman[u].paid
        /\ posted'[u].tomanIn = posted[u].tomanIn + credit
        /\ posted'[u].usdIn = posted[u].usdIn
        /\ posted'[u].usdOut = posted[u].usdOut
        /\ \A v \in Users \ {u} : posted'[v] = posted[v] /\ toman'[v] = toman[v]
    BY <1>3, <1>4 DEF TInv, TypeOK, Sums, Account
  <1>6. ~overlapped => Exact(u)'
    <2>1. SUFFICES ASSUME ~overlapped
                   PROVE  Exact(u)'
      OBVIOUS
    <2>2. Exact(u) /\ Row(s).toman = toman[u]
      BY <1>1, <1>3, <2>1, LoneFacts
    <2>. QED
      BY <1>4, <1>5, <2>2 DEF Exact, InWallet
  <1>. QED
    BY <1>1, <1>3, <1>4, <1>5, <1>6, CommitConserves

LEMMA RefuseImageConserves ==
    ASSUME TInv, UInv, NEW s \in Sessions, RefuseImage(s)
    PROVE  UInv'
  <1>1. PICK u : u = Row(s).user
    OBVIOUS
  <1>2. /\ Row(s).pc = "ready" /\ u \in Users /\ Close(s)
        /\ wallet' = [wallet EXCEPT ![u] = IF @ = NoWallet THEN Current(s) ELSE @]
        /\ UNCHANGED <<joined, mirror, toman, posted, overlapped>>
    BY <1>1, Under DEF RefuseImage, At
  <1>3. /\ wallet'[u] = IF wallet[u] = NoWallet THEN Current(s) ELSE wallet[u]
        /\ \A v \in Users \ {u} : wallet'[v] = wallet[v]
    BY <1>2 DEF TInv, TypeOK
  <1>4. ~overlapped => Exact(u)'
    <2>1. SUFFICES ASSUME ~overlapped
                   PROVE  Exact(u)'
      OBVIOUS
    <2>2. Exact(u) /\ Current(s) = mirror[u]
      BY <1>1, <1>2, <2>1, LoneFacts
    <2>. QED
      BY <1>2, <1>3, <2>2 DEF Exact, InWallet
  <1>. QED
    BY <1>1, <1>2, <1>3, <1>4, CommitConserves

LEMMA Distributes ==
    ASSUME NEW r \in Nat, NEW i \in Nat, NEW o \in Nat, NEW m \in Nat
    PROVE  r * (i - o - 0) = r * (i - o - m) + r * m
  <1>1. \A a, b, c \in Int : a * (b + c) = a * b + a * c
    OBVIOUS
  <1>2. i - o - m \in Int /\ (i - o - m) + m = i - o - 0
    OBVIOUS
  <1>. QED
    BY <1>1, <1>2

LEMMA ConvertConserves ==
    ASSUME TInv, UInv, NEW s \in Sessions, Convert(s)
    PROVE  UInv'
  <1>1. PICK u : u = Row(s).user
    OBVIOUS
  <1>2. /\ Row(s).pc = "ready" /\ u \in Users /\ Close(s)
        /\ toman' = [toman EXCEPT ![u].paid = Row(s).toman.paid + Rate * Row(s).mirror]
        /\ mirror' = [mirror EXCEPT ![u] = 0]
        /\ wallet' = [wallet EXCEPT ![u] = IF @ = NoWallet THEN @ ELSE 0]
        /\ UNCHANGED <<joined, posted, overlapped>>
    BY <1>1, Under DEF Convert, Credit, At
  <1>3. /\ toman'[u].paid = Row(s).toman.paid + Rate * Row(s).mirror
        /\ toman'[u].gift = toman[u].gift
        /\ mirror'[u] = 0 /\ wallet'[u] = IF wallet[u] = NoWallet THEN NoWallet ELSE 0
        /\ \A v \in Users \ {u} : /\ wallet'[v] = wallet[v] /\ mirror'[v] = mirror[v]
                                  /\ toman'[v] = toman[v]
    BY <1>2 DEF TInv, TypeOK, Account
  <1>4. ~overlapped => Exact(u)'
    <2>1. SUFFICES ASSUME ~overlapped
                   PROVE  Exact(u)'
      OBVIOUS
    <2>2. /\ Exact(u) /\ Row(s).mirror = mirror[u] /\ Row(s).toman = toman[u]
          /\ mirror[u] \in Nat /\ Rate \in Nat
          /\ posted[u].usdIn \in Nat /\ posted[u].usdOut \in Nat
      BY <1>1, <1>2, <2>1, LoneFacts
    <2>3. PICK i \in Nat, o \in Nat, m \in Nat :
             i = posted[u].usdIn /\ o = posted[u].usdOut /\ m = mirror[u]
      BY <2>2
    <2>4. Rate * (i - o - 0) = Rate * (i - o - m) + Rate * m
      BY <2>2, Distributes
    <2>5. Rate * (posted'[u].usdIn - posted'[u].usdOut - mirror'[u]) = toman'[u].paid
      BY <1>2, <1>3, <2>2, <2>3, <2>4 DEF Exact
    <2>. QED
      BY <1>2, <1>3, <2>2, <2>5 DEF Exact, InWallet
  <1>. QED
    BY <1>1, <1>2, <1>3, <1>4, CommitConserves

LEMMA SignUpConserves ==
    ASSUME TInv, UInv, NEW u \in Users, SignUp(u)
    PROVE  UInv'
  <1>1. /\ u \notin joined /\ joined' = joined \cup {u} /\ Untouched(u)
        /\ UNCHANGED <<session, overlapped>>
        /\ StarterUsd \in Nat /\ StarterToman \in Nat /\ Rate \in Nat
    BY AmountsAssumption DEF SignUp, UInv, Members
  <1>2. /\ toman'[u].gift = toman[u].gift + StarterToman /\ toman'[u].paid = toman[u].paid
        /\ posted'[u].usdIn = posted[u].usdIn + StarterUsd
        /\ posted'[u].usdOut = posted[u].usdOut
        /\ posted'[u].tomanIn = posted[u].tomanIn + StarterToman
        /\ \A v \in Users \ {u} : posted'[v] = posted[v] /\ toman'[v] = toman[v]
    BY DEF SignUp, TInv, TypeOK, Account, Sums
  <1>3. /\ StarterUsd > 0 => wallet'[u] = StarterUsd /\ mirror'[u] = StarterUsd
        /\ ~(StarterUsd > 0) => wallet'[u] = wallet[u] /\ mirror'[u] = mirror[u]
        /\ \A v \in Users \ {u} : wallet'[v] = wallet[v] /\ mirror'[v] = mirror[v]
    BY DEF SignUp, TInv, TypeOK
  <1>4. Exact(u)'
    <2>1. mirror'[u] = StarterUsd /\ InWallet(u)' = StarterUsd
      BY <1>1, <1>3, SetsAssumption DEF InWallet, Untouched
    <2>2. /\ posted'[u].usdIn = StarterUsd /\ posted'[u].usdOut = 0
          /\ toman'[u].paid = 0 /\ toman'[u].gift = posted'[u].tomanIn
      BY <1>1, <1>2 DEF Untouched
    <2>3. StarterUsd - 0 - StarterUsd = 0 /\ Rate * 0 = 0
      BY <1>1
    <2>. QED
      BY <2>1, <2>2, <2>3 DEF Exact
  <1>5. \A s \in Sessions : session[s].pc # "idle" => session[s].user \in joined
    BY DEF UInv, Members
  <1>6. Members'
    BY <1>1, <1>2, <1>3, <1>5 DEF UInv, Members, Untouched
  <1>7. joined \subseteq Users /\ \A v \in joined : v # u
    BY <1>1 DEF TInv, TypeOK
  <1>8. ~overlapped => \A v \in joined : Exact(v)'
    BY <1>2, <1>3, <1>7 DEF UInv, Undisturbed, Exact, InWallet
  <1>9. ~overlapped' => Undisturbed'
    BY <1>1, <1>2, <1>3, <1>4, <1>5, <1>7, <1>8 DEF UInv, Undisturbed, Lone, Fresh
  <1>. QED
    BY <1>6, <1>9 DEF UInv

LEMMA NothingConserves ==
    ASSUME UInv, UNCHANGED <<joined, money, session, overlapped>>
    PROVE  UInv'
  BY DEF UInv, Members, Untouched, Undisturbed, Lone, Fresh, Exact, InWallet, money

LEMMA UInvInit == Init => UInv
  <1>. SUFFICES ASSUME Init
                PROVE  UInv
    OBVIOUS
  <1>1. \A s \in Sessions : session[s].pc = "idle"
    BY DEF Init, Idle
  <1>2. Members
    BY <1>1 DEF Init, Members, Untouched
  <1>3. ASSUME NEW u \in joined
        PROVE  Exact(u)
    <2>1. u \in Users /\ LegacyUsd \in Nat /\ Rate \in Nat
      BY AmountsAssumption DEF Init
    <2>2. /\ mirror[u] = LegacyUsd /\ wallet[u] = NoWallet
          /\ posted[u].usdIn = LegacyUsd /\ posted[u].usdOut = 0 /\ posted[u].tomanIn = 0
          /\ toman[u].gift = 0 /\ toman[u].paid = 0
      BY <2>1 DEF Init
    <2>3. LegacyUsd - 0 - LegacyUsd = 0 /\ Rate * 0 = 0
      BY <2>1
    <2>. QED
      BY <2>2, <2>3 DEF Exact, InWallet
  <1>. QED
    BY <1>1, <1>2, <1>3 DEF UInv, Undisturbed, Lone, Fresh

LEMMA UInvStep == TInv /\ UInv /\ [Next]_vars => UInv'
  <1>. SUFFICES ASSUME TInv, UInv, [Next]_vars
                PROVE  UInv'
    OBVIOUS
  <1>1. ASSUME NEW s \in Sessions, NEW u \in Users, NEW c \in Codes, NEW charge \in Charges,
               BeginRedeem(s, u, c, charge)
        PROVE  UInv'
    BY <1>1, OpenConserves DEF BeginRedeem
  <1>2. ASSUME NEW s \in Sessions, NEW u \in Users, BeginImage(s, u) \/ BeginConvert(s, u)
        PROVE  UInv'
    BY <1>2, OpenConserves DEF BeginImage, BeginConvert
  <1>3. ASSUME NEW s \in Sessions, CheckCode(s) \/ ReadWallet(s) \/ ReadAccount(s)
        PROVE  UInv'
    BY <1>3, LoadConserves DEF CheckCode, ReadWallet, ReadAccount, At
  <1>4. ASSUME NEW s \in Sessions, RefuseCode(s) \/ WalletRefused(s) \/ Abandon(s)
        PROVE  UInv'
    BY <1>4, CloseConserves DEF RefuseCode, WalletRefused, Abandon, At
  <1>5. ASSUME NEW c \in Codes, SwitchCode(c)
        PROVE  UInv'
    BY <1>5, NothingConserves DEF SwitchCode
  <1>6. CASE UNCHANGED vars
    BY <1>6, NothingConserves DEF vars, money
  <1>. QED
    BY <1>1, <1>2, <1>3, <1>4, <1>5, <1>6, RedeemUsdConserves, RedeemTomanConserves,
       DebitConserves, RefuseImageConserves, ConvertConserves, SignUpConserves
       DEF Next, Step

(* What has come in is in the wallet, spent, or was converted at the rate, *)
(* however often the conversion runs, whatever fails or is given up, as    *)
(* long as no two operations have been under way at once.                  *)
THEOREM DollarsConserved == Spec => []UsdConserved
  <1>1. UInv => UsdConserved
    BY DEF UInv, Undisturbed, Exact, UsdConserved
  <1>2. IInv => TInv
    BY DEF IInv
  <1>. QED
    BY <1>1, <1>2, UInvInit, UInvStep, IInvHolds, PTL DEF Spec
=============================================================================
