------------------------------ MODULE UsdWallet ------------------------------
(***************************************************************************)
(* The dollar wallet of the BOZ GPT backend (services/wallet_service.py),  *)
(* what fills and empties it (starter credit, promo codes of               *)
(* services/promo_code_service.py, generated images) and the conversion to *)
(* Tomans that init_db runs whenever one of the two processes, API and     *)
(* bot, starts.                                                            *)
(*                                                                         *)
(* A balance is held twice, in wallets.available_minor and in              *)
(* user_preferences.credit_balance_usd.  An operation computes the new     *)
(* balance from the wallet row it selected and writes it to both, but the  *)
(* ORM omits a column that is set to the value it was loaded with: the     *)
(* column of the user is written unless the user row, selected earlier,    *)
(* held the new balance already.  Selects take no lock; what is written    *)
(* between the first flush and the commit is one step.                     *)
(*                                                                         *)
(* held_minor stays 0, is_pro, total_charged_usd and the minimum charge    *)
(* are left out, as is the second commit of a Toman redemption, which      *)
(* stores an id nobody reads.  The conversion handles its users one after  *)
(* the other and commits once; their rows are disjoint, so here each user  *)
(* is converted by itself.  Administrators, who are never debited, are     *)
(* left out.                                                               *)
(***************************************************************************)
EXTENDS Integers, FiniteSets

CONSTANTS
    Users,
    Codes,
    Sessions,      \* database sessions open at once, of both processes
    NoUser, NoCode, NoWallet,
    Code,          \* [Codes -> PromoCode]
    Charges,       \* charge amounts a caller may pass with a code
    ImagePrice,
    StarterUsd, StarterToman,
    LegacyUsd,     \* in credit_balance_usd of a user from before the wallets
    Rate           \* Tomans per dollar

(* unlimited: max_redemptions_total is not set.  perUser = 0: no limit per *)
(* user.  expires: expires_at is set; its comparison with a time without   *)
(* zone raises a TypeError.                                                *)
PromoCode == [currency : {"USD", "TOMAN"}, percent : BOOLEAN, value : Nat,
              unlimited : BOOLEAN, total : Nat, perUser : Nat, expires : BOOLEAN]

ASSUME CodeAssumption == Code \in [Codes -> PromoCode]
ASSUME AmountsAssumption ==
    /\ Charges \subseteq Nat
    /\ {StarterUsd, StarterToman, LegacyUsd} \subseteq Nat
    /\ ImagePrice \in Nat \ {0} /\ Rate \in Nat \ {0}
ASSUME SetsAssumption ==
    /\ IsFiniteSet(Sessions) /\ Sessions # {}
    /\ NoUser \notin Users /\ NoCode \notin Codes /\ NoWallet \notin Int

VARIABLES
    joined,       \* users with a row in user_preferences
    mirror,       \* user_preferences.credit_balance_usd
    wallet,       \* wallets.available_minor, or NoWallet
    toman,        \* user_billing_accounts: gift and paid balance
    posted,       \* dollars in (the opening balance too) and out, Tomans in,
                  \* by the ledgers' rows
    redemptions,  \* promo_code_redemptions; n numbers those of a code
    active,       \* promo codes with is_active
    session,      \* the operations under way
    overlapped    \* two operations have been under way at once

vars == <<joined, mirror, wallet, toman, posted, redemptions, active, session,
          overlapped>>

money == <<mirror, wallet, toman, posted>>

Account == [gift : Nat, paid : Nat]
Sums == [usdIn : Nat, usdOut : Nat, tomanIn : Nat]
Balance == Nat \cup {NoWallet}
Redemption == [code : Codes, user : Users, n : Nat]

(* "loaded": the user's row is; "ready": what the operation computes with  *)
(* is, and it only has to be written.                                      *)
Session == [pc : {"idle", "loaded", "ready"}, op : {"redeem", "image", "convert"},
            user : Users \cup {NoUser}, code : Codes \cup {NoCode}, charge : Nat,
            mirror : Nat, wallet : Balance, toman : Account]

Idle == [pc |-> "idle", op |-> "image", user |-> NoUser, code |-> NoCode, charge |-> 0,
         mirror |-> 0, wallet |-> NoWallet, toman |-> [gift |-> 0, paid |-> 0]]

TypeOK ==
    /\ joined \subseteq Users
    /\ mirror \in [Users -> Nat]
    /\ wallet \in [Users -> Balance]
    /\ toman \in [Users -> Account]
    /\ posted \in [Users -> Sums]
    /\ redemptions \subseteq Redemption
    /\ active \subseteq Codes
    /\ session \in [Sessions -> Session]
    /\ overlapped \in BOOLEAN

-----------------------------------------------------------------------------
Init ==
    /\ joined \in SUBSET Users
    /\ mirror = [u \in Users |-> IF u \in joined THEN LegacyUsd ELSE 0]
    /\ wallet = [u \in Users |-> NoWallet]
    /\ toman = [u \in Users |-> [gift |-> 0, paid |-> 0]]
    /\ posted = [u \in Users |-> [usdIn |-> mirror[u], usdOut |-> 0, tomanIn |-> 0]]
    /\ redemptions = {}
    /\ active = Codes
    /\ session = [s \in Sessions |-> Idle]
    /\ overlapped = FALSE

Row(s) == session[s]

Open(s, op, u, c, charge) ==
    /\ Row(s).pc = "idle"
    /\ u \in joined
    /\ overlapped' = (overlapped \/ \E t \in Sessions : Row(t).pc # "idle")
    /\ session' = [session EXCEPT ![s] = [Idle EXCEPT
          !.pc = "loaded", !.op = op, !.user = u, !.mirror = mirror[u],
          !.code = c, !.charge = charge]]

Close(s) == session' = [session EXCEPT ![s] = Idle]

(* The columns the operation computes from, selected together.             *)
Load(s) ==
    session' = [session EXCEPT ![s] = [@ EXCEPT
        !.pc = "ready", !.wallet = wallet[Row(s).user], !.toman = toman[Row(s).user]]]

At(s, op, pc) == Row(s).op = op /\ Row(s).pc = pc

(* get_or_create_wallet: a new row starts from the user's column.          *)
Current(s) == IF Row(s).wallet = NoWallet THEN Row(s).mirror ELSE Row(s).wallet

(* wallets.user_id is unique.                                              *)
WalletTaken(s) == Row(s).wallet = NoWallet /\ wallet[Row(s).user] # NoWallet

(* apply_credit_delta, once the balance is known to suffice.               *)
WriteWalletOnly(s, new) ==
    /\ wallet' = [wallet EXCEPT ![Row(s).user] = new]
    /\ mirror' = mirror
WriteBalance(s, new) ==
    /\ wallet' = [wallet EXCEPT ![Row(s).user] = new]
    /\ mirror' = [mirror EXCEPT ![Row(s).user] = IF new = Row(s).mirror THEN @ ELSE new]

-----------------------------------------------------------------------------
(* A new user: the row, the wallet with the starter credit and both        *)
(* ledgers' rows are one transaction, and the Telegram id is unique.       *)
SignUp(u) ==
    /\ u \notin joined
    /\ joined' = joined \cup {u}
    /\ IF StarterUsd > 0
          THEN /\ wallet' = [wallet EXCEPT ![u] = StarterUsd]
               /\ mirror' = [mirror EXCEPT ![u] = StarterUsd]
          ELSE UNCHANGED <<wallet, mirror>>
    /\ toman' = [toman EXCEPT ![u].gift = @ + StarterToman]
    /\ posted' = [posted EXCEPT ![u].usdIn = @ + StarterUsd, ![u].tomanIn = @ + StarterToman]
    /\ UNCHANGED <<redemptions, active, session, overlapped>>

-----------------------------------------------------------------------------
(* redeem_promo_code_for_user *)

OfCode(c) == {r \in redemptions : r.code = c}
OfUser(c, u) == {r \in OfCode(c) : r.user = u}

(* _bonus_minor, _bonus_toman: a percentage, here a multiple, or a sum.    *)
Bonus(c, charge) == IF Code[c].percent THEN charge * Code[c].value ELSE Code[c].value

BelowTotal(c) == Code[c].unlimited \/ Cardinality(OfCode(c)) < Code[c].total

OneTooMany(c, u) ==
    /\ c \in active
    /\ ~Code[c].expires
    /\ Code[c].unlimited \/ Cardinality(OfCode(c)) <= Code[c].total
    /\ Code[c].perUser > 0 => Cardinality(OfUser(c, u)) < Code[c].perUser
Redeemable(c, u) ==
    /\ c \in active
    /\ ~Code[c].expires
    /\ BelowTotal(c)
    /\ Code[c].perUser > 0 => Cardinality(OfUser(c, u)) < Code[c].perUser

BeginRedeem(s, u, c, charge) ==
    /\ Open(s, "redeem", u, c, charge)
    /\ UNCHANGED <<joined, money, redemptions, active>>

CheckCode(s) ==
    /\ At(s, "redeem", "loaded")
    /\ Redeemable(Row(s).code, Row(s).user)
    /\ Bonus(Row(s).code, Row(s).charge) > 0
    /\ Load(s)
    /\ UNCHANGED <<joined, money, redemptions, active, overlapped>>

RefuseCode(s) ==
    /\ At(s, "redeem", "loaded")
    /\ \/ ~Redeemable(Row(s).code, Row(s).user)
       \/ Bonus(Row(s).code, Row(s).charge) = 0
    /\ Close(s)
    /\ UNCHANGED <<joined, money, redemptions, active, overlapped>>

(* credit_charge_amount is left at its default: the charge is credited too. *)
TotalCredit(s) == Row(s).charge + Bonus(Row(s).code, Row(s).charge)

AddRedemption(s) ==
    redemptions' = redemptions \cup
        {[code |-> Row(s).code, user |-> Row(s).user,
          n |-> Cardinality(OfCode(Row(s).code)) + 1]}

RedeemUsd(s) ==
    /\ At(s, "redeem", "ready")
    /\ Code[Row(s).code].currency = "USD"
    /\ ~WalletTaken(s)
    /\ WriteBalance(s, Current(s) + TotalCredit(s))
    /\ posted' = [posted EXCEPT ![Row(s).user].usdIn = @ + TotalCredit(s)]
    /\ AddRedemption(s)
    /\ Close(s)
    /\ UNCHANGED <<joined, toman, active, overlapped>>

RedeemToman(s) ==
    /\ At(s, "redeem", "ready")
    /\ Code[Row(s).code].currency = "TOMAN"
    /\ toman' = [toman EXCEPT ![Row(s).user].gift = Row(s).toman.gift + TotalCredit(s)]
    /\ posted' = [posted EXCEPT ![Row(s).user].tomanIn = @ + TotalCredit(s)]
    /\ AddRedemption(s)
    /\ Close(s)
    /\ UNCHANGED <<joined, mirror, wallet, active, overlapped>>

(* update_promo_code, deactivate_promo_code.                               *)
SwitchCode(c) ==
    /\ active' = IF c \in active THEN active \ {c} ELSE active \cup {c}
    /\ UNCHANGED <<joined, money, redemptions, session, overlapped>>

-----------------------------------------------------------------------------
(* run_image_generator_tool: the wallet is debited before the provider is  *)
(* asked, and not credited again when the provider fails.                  *)

BeginImage(s, u) ==
    /\ Open(s, "image", u, NoCode, 0)
    /\ UNCHANGED <<joined, money, redemptions, active>>

ReadWallet(s) ==
    /\ At(s, "image", "loaded")
    /\ Load(s)
    /\ UNCHANGED <<joined, money, redemptions, active, overlapped>>

Unchecked(s) == TRUE
Sufficient(s) == Current(s) >= ImagePrice

DebitImage(s) ==
    /\ At(s, "image", "ready")
    /\ ~WalletTaken(s)
    /\ Sufficient(s)
    /\ WriteBalance(s, Current(s) - ImagePrice)
    /\ posted' = [posted EXCEPT ![Row(s).user].usdOut = @ + ImagePrice]
    /\ Close(s)
    /\ UNCHANGED <<joined, toman, redemptions, active, overlapped>>

(* insufficient_credit; a wallet row that was missing has been inserted.   *)
RefuseImage(s) ==
    /\ At(s, "image", "ready")
    /\ ~WalletTaken(s)
    /\ ~Sufficient(s)
    /\ wallet' = [wallet EXCEPT ![Row(s).user] = IF @ = NoWallet THEN Current(s) ELSE @]
    /\ Close(s)
    /\ UNCHANGED <<joined, mirror, toman, posted, redemptions, active, overlapped>>

(* The insertion of the wallet row fails: another session has one.         *)
WalletRefused(s) ==
    /\ \/ At(s, "image", "ready")
       \/ At(s, "redeem", "ready") /\ Code[Row(s).code].currency = "USD"
    /\ WalletTaken(s)
    /\ Close(s)
    /\ UNCHANGED <<joined, money, redemptions, active, overlapped>>

-----------------------------------------------------------------------------
(* _migrate_usd_balances_to_toman, when a process starts.                  *)

BeginConvert(s, u) ==
    /\ mirror[u] > 0
    /\ Open(s, "convert", u, NoCode, 0)
    /\ UNCHANGED <<joined, money, redemptions, active>>

ReadAccount(s) ==
    /\ At(s, "convert", "loaded")
    /\ Load(s)
    /\ UNCHANGED <<joined, money, redemptions, active, overlapped>>

(* The account's column is written before the wallet is selected, so the   *)
(* wallet is read and emptied under the lock.                              *)
Credit(s) ==
    toman' = [toman EXCEPT ![Row(s).user].paid = Row(s).toman.paid + Rate * Row(s).mirror]

ConvertKeepingWallet(s) ==
    /\ At(s, "convert", "ready")
    /\ Credit(s)
    /\ mirror' = [mirror EXCEPT ![Row(s).user] = 0]
    /\ Close(s)
    /\ UNCHANGED <<joined, wallet, posted, redemptions, active, overlapped>>
Convert(s) ==
    /\ At(s, "convert", "ready")
    /\ Credit(s)
    /\ mirror' = [mirror EXCEPT ![Row(s).user] = 0]
    /\ wallet' = [wallet EXCEPT ![Row(s).user] = IF @ = NoWallet THEN @ ELSE 0]
    /\ Close(s)
    /\ UNCHANGED <<joined, posted, redemptions, active, overlapped>>

(* An error, or the end of the process: nothing was committed.             *)
Abandon(s) ==
    /\ Row(s).pc # "idle"
    /\ Close(s)
    /\ UNCHANGED <<joined, money, redemptions, active, overlapped>>

Step(s) ==
    \/ \E u \in Users :
          \/ \E c \in Codes, charge \in Charges : BeginRedeem(s, u, c, charge)
          \/ BeginImage(s, u)
          \/ BeginConvert(s, u)
    \/ CheckCode(s)
    \/ RefuseCode(s)
    \/ RedeemUsd(s)
    \/ RedeemToman(s)
    \/ ReadWallet(s)
    \/ DebitImage(s)
    \/ RefuseImage(s)
    \/ WalletRefused(s)
    \/ ReadAccount(s)
    \/ Convert(s)
    \/ Abandon(s)

Next ==
    \/ \E s \in Sessions : Step(s)
    \/ \E u \in Users : SignUp(u)
    \/ \E c \in Codes : SwitchCode(c)

Spec == Init /\ [][Next]_vars

-----------------------------------------------------------------------------
(* The limits of a code are compared with counts no lock protects, so they *)
(* may be passed, but by no more than the other requests open at the time: *)
(* for each further one a redemption must have been counted.               *)
RedemptionsBounded ==
    \A c \in Codes :
        /\ \/ Code[c].unlimited
           \/ Cardinality(OfCode(c)) < Code[c].total + Cardinality(Sessions)
        /\ Code[c].perUser > 0 =>
              \A u \in Users :
                  Cardinality(OfUser(c, u)) < Code[c].perUser + Cardinality(Sessions)

(* What has come in is in the wallet, spent on images, or was converted to *)
(* Tomans, across restarts of the processes and requests given up at any   *)
(* point, and both columns hold the balance: as long as no two operations  *)
(* have been under way at once.  (When they have, a debit may be lost and  *)
(* the same dollar converted by both processes.)                           *)
InWallet(u) == IF wallet[u] = NoWallet THEN mirror[u] ELSE wallet[u]

UsdConserved ==
    ~overlapped =>
        \A u \in joined :
            /\ InWallet(u) = mirror[u]
            /\ Rate * (posted[u].usdIn - posted[u].usdOut - mirror[u])
                  = toman[u].paid
            /\ toman[u].gift = posted[u].tomanIn
=============================================================================
