-------------------------- MODULE WebSpendingProofs --------------------------
(***************************************************************************)
(* Proofs about WebSpending, for every set of messages and savers, every   *)
(* cost, balance and bound.                                                *)
(***************************************************************************)
EXTENDS WebSpending, TLAPS

-----------------------------------------------------------------------------
(* Type correctness: a save that is under way has a message.               *)
Named == \A s \in Savers : save[s] # Idle => save[s].message \in Messages

TInv == TypeOK /\ Named

(* A save put in place of another keeps save well formed.                  *)
Fits(x) == x \in Save /\ (x # Idle => x.message \in Messages)

LEMMA Replaced ==
    ASSUME TInv, NEW s \in Savers, NEW x, Fits(x), save' = [save EXCEPT ![s] = x]
    PROVE  save' \in [Savers -> Save] /\ Named'
  BY DEF TInv, TypeOK, Named, Fits

LEMMA IdleFits == Fits(Idle)
  BY DEF Fits, Idle, Save, Entry, NoEntry, Row, NoRow

LEMMA Started ==
    ASSUME TInv, NEW s \in Savers, save[s].pc # "idle"
    PROVE  save[s] \in Save /\ save[s].message \in Messages
  BY DEF TInv, TypeOK, Named, Idle

(* A save that goes on keeps everything but its pc.                        *)
LEMMA GotoFits ==
    ASSUME TInv, NEW s \in Savers, save[s].pc # "idle",
           NEW p \in {"recording", "creating"},
           Goto(s, p)
    PROVE  save' \in [Savers -> Save] /\ Named'
  <1>1. save[s] \in Save /\ save[s].message \in Messages
    BY Started
  <1>. DEFINE x == [save[s] EXCEPT !.pc = p]
  <1>2. Fits(x)
    BY <1>1 DEF Fits, Save, Recording
  <1>3. save' = [save EXCEPT ![s] = x]
    BY DEF Goto, TInv, TypeOK
  <1>. HIDE DEF x
  <1>. QED
    BY <1>2, <1>3, Replaced

(* One that has only the document left to write keeps it and its message.  *)
LEMMA WritingFits ==
    ASSUME TInv, NEW s \in Savers, save[s].pc # "idle"
    PROVE  /\ Fits(Writing(s)) /\ Writing(s).pc = "writing"
           /\ Writing(s).message = save[s].message
           /\ Writing(s).document = save[s].document
  <1>1. save[s] \in Save /\ save[s].message \in Messages
    BY Started
  <1>2. Idle \in Save
    BY IdleFits DEF Fits
  <1>. QED
    BY <1>1, <1>2 DEF Writing, Fits, Save

LEMMA GotoWritingFits ==
    ASSUME TInv, NEW s \in Savers, save[s].pc # "idle", GotoWriting(s)
    PROVE  save' \in [Savers -> Save] /\ Named'
  BY WritingFits, Replaced DEF GotoWriting

LEMMA BeginFits ==
    ASSUME TInv, NEW s \in Savers, NEW m \in Messages, NEW patch \in Entry,
           NEW text \in BOOLEAN, Begin(s, m, patch, text)
    PROVE  TInv'
  <1>. DEFINE x == [Idle EXCEPT !.pc = "read", !.message = m,
                                !.document = Merged(m, patch), !.text = text]
  <1>1. Merged(m, patch) \in [Messages -> Entry]
    BY DEF Merged, Entry, TInv, TypeOK
  <1>2. Fits(x)
    BY <1>1, IdleFits DEF Fits, Save
  <1>3. save' = [save EXCEPT ![s] = x]
    BY DEF Begin
  <1>. HIDE DEF x
  <1>4. save' \in [Savers -> Save] /\ Named'
    BY <1>2, <1>3, Replaced
  <1>. QED
    BY <1>4 DEF TInv, TypeOK, Begin, chat, billing, tally

(* A recorder's loaded values are numbers; what it takes is at most them.  *)
LEMMA UsedFacts ==
    ASSUME TInv, NEW s \in Savers
    PROVE  /\ save[s].cost \in Nat /\ save[s].balance \in Nat /\ save[s].quota \in Nat
           /\ Used(s) \in Nat
           /\ save[s].balance - Used(s) \in Nat
  <1>1. save[s] \in Save
    BY DEF TInv, TypeOK
  <1>2. save[s].cost \in Nat /\ save[s].balance \in Nat /\ save[s].quota \in Nat
    BY <1>1 DEF Save
  <1>. QED
    BY <1>2 DEF Used

(* Who is settled, and who is owed.                                        *)
LEMMA TallyType ==
    ASSUME TInv, NEW s \in Savers, save[s].pc # "idle",
           GiveUp(s) \/ UNCHANGED tally
    PROVE  failed' \subseteq Messages /\ unpaid' \subseteq Messages
  BY Started DEF GiveUp, tally, Message, TInv, TypeOK

LEMMA TypeStep == TInv /\ [Next]_vars => TInv'
  <1>. SUFFICES ASSUME TInv, [Next]_vars
                PROVE  TInv'
    OBVIOUS
  <1>1. ASSUME NEW s \in Savers, NEW m \in Messages, Place(s, m)
        PROVE  TInv'
    BY <1>1, BeginFits DEF Place, NoEntry, Entry
  <1>2. ASSUME NEW s \in Savers, NEW m \in Messages, Finish(s, m)
        PROVE  TInv'
    <2>1. PICK counts, text \in BOOLEAN :
              Begin(s, m, [done |-> TRUE, usage |-> counts], text)
      BY <1>2 DEF Finish
    <2>2. [done |-> TRUE, usage |-> counts] \in Entry
      BY DEF Entry
    <2>. QED
      BY <2>1, <2>2, BeginFits
  <1>3. ASSUME NEW s \in Savers, NEW m \in Messages, Patch(s, m)
        PROVE  TInv'
    <2>1. document[m] \in Entry /\ document[m].done \in BOOLEAN
      BY DEF TInv, TypeOK, Entry
    <2>2. PICK text \in {FALSE, document[m].done} : Begin(s, m, document[m], text)
      BY <1>3 DEF Patch
    <2>. QED
      BY <2>1, <2>2, BeginFits
  <1>4. ASSUME NEW s \in Savers, NEW m \in Messages, Note(s, m)
        PROVE  TInv'
    <2>. DEFINE x == [Idle EXCEPT !.pc = "writing", !.message = m, !.document = document]
    <2>1. Fits(x)
      BY IdleFits DEF Fits, Save, TInv, TypeOK
    <2>2. save' = [save EXCEPT ![s] = x]
      BY <1>4 DEF Note
    <2>. HIDE DEF x
    <2>3. save' \in [Savers -> Save] /\ Named'
      BY <2>1, <2>2, Replaced
    <2>. QED
      BY <1>4, <2>3 DEF TInv, TypeOK, Note, chat, billing, tally
  <1>5. ASSUME NEW s \in Savers, LoadRow(s)
        PROVE  TInv'
    <2>. DEFINE x == [save[s] EXCEPT !.pc = "loaded", !.row = row[Message(s)]]
    <2>1. save[s] \in Save /\ save[s].message \in Messages
      BY <1>5, Started DEF LoadRow
    <2>2. row[Message(s)] \in Row
      BY <2>1 DEF Message, TInv, TypeOK
    <2>3. Fits(x)
      BY <2>1, <2>2 DEF Fits, Save
    <2>4. save' = [save EXCEPT ![s] = x]
      BY <1>5 DEF LoadRow, TInv, TypeOK
    <2>. HIDE DEF x
    <2>5. save' \in [Savers -> Save] /\ Named'
      BY <2>3, <2>4, Replaced
    <2>. QED
      BY <1>5, <2>5 DEF TInv, TypeOK, LoadRow, chat, billing, tally
  <1>6. ASSUME NEW s \in Savers, CommitRow(s)
        PROVE  TInv'
    <2>1. save[s].pc # "idle" /\ save[s] \in Save /\ save[s].message \in Messages
      BY <1>6, Started DEF CommitRow
    <2>2. Data(s) \in Entry
      BY <2>1 DEF Data, Message, Save
    <2>3. row' \in [Messages -> Row]
      BY <1>6, <2>1, <2>2 DEF CommitRow, Row, Entry, TInv, TypeOK, Message
    <2>. DEFINE x == [save[s] EXCEPT !.pc = "triggered", !.row = NoRow]
    <2>4. Fits(x)
      BY <2>1 DEF Fits, Save, NoRow, Row
    <2>5. save' = [save EXCEPT ![s] = IF Triggered(s) THEN x ELSE Writing(s)]
      BY <1>6 DEF CommitRow, TInv, TypeOK
    <2>. HIDE DEF x
    <2>6. save' \in [Savers -> Save] /\ Named'
      BY <2>1, <2>4, <2>5, WritingFits, Replaced
    <2>7. unpaid' \subseteq Messages
      BY <1>6, <2>1 DEF CommitRow, Message, TInv, TypeOK
    <2>. QED
      BY <1>6, <2>3, <2>6, <2>7 DEF TInv, TypeOK, CommitRow, billing
  <1>7. ASSUME NEW s \in Savers, RowFails(s)
        PROVE  TInv'
    <2>1. save' \in [Savers -> Save] /\ Named'
      BY <1>7, GotoWritingFits DEF RowFails
    <2>. QED
      BY <1>7, <2>1 DEF TInv, TypeOK, RowFails, chat, billing, tally
  <1>8. ASSUME NEW s \in Savers, CalculateCost(s)
        PROVE  TInv'
    <2>. DEFINE x == [save[s] EXCEPT !.pc = "recording", !.text = FALSE]
    <2>1. save[s].pc # "idle" /\ save[s] \in Save /\ save[s].message \in Messages
      BY <1>8, Started DEF CalculateCost
    <2>2. Fits(x)
      BY <2>1 DEF Fits, Save, Recording
    <2>3. save' = [save EXCEPT ![s] = x] \/ GotoWriting(s)
      BY <1>8 DEF CalculateCost, TInv, TypeOK
    <2>. HIDE DEF x
    <2>4. save' \in [Savers -> Save] /\ Named'
      BY <2>1, <2>2, <2>3, GotoWritingFits, Replaced
    <2>. QED
      BY <1>8, <2>4 DEF TInv, TypeOK, CalculateCost, chat, billing, tally
  <1>9. ASSUME NEW s \in Savers, FindUser(s) \/ CreateUser(s)
        PROVE  TInv'
    <2>1. save' \in [Savers -> Save] /\ Named'
      BY <1>9, GotoFits DEF FindUser, CreateUser
    <2>. QED
      BY <1>9, <2>1 DEF TInv, TypeOK, FindUser, CreateUser, chat, billing, tally
  <1>10. ASSUME NEW s \in Savers, ReadBilling(s)
         PROVE  TInv'
    <2>1. save' \in [Savers -> Save] /\ Named'
      <3>1. CASE GotoWriting(s)
        BY <1>10, <3>1, GotoWritingFits DEF ReadBilling
      <3>2. CASE ~GotoWriting(s)
        <4>1. PICK c \in Costs : save' = [save EXCEPT ![s] = [@ EXCEPT
                    !.pc = "charging", !.cost = c, !.balance = balance, !.quota = quota]]
          BY <1>10, <3>2 DEF ReadBilling
        <4>. DEFINE x == [save[s] EXCEPT !.pc = "charging", !.cost = c,
                                         !.balance = balance, !.quota = quota]
        <4>2. save[s] \in Save /\ save[s].message \in Messages
          BY <1>10, Started DEF ReadBilling
        <4>3. c \in Nat /\ balance \in Nat /\ quota \in Nat
          BY CostsAssumption DEF TInv, TypeOK
        <4>4. Fits(x)
          BY <4>2, <4>3 DEF Fits, Save, Recording
        <4>5. save' = [save EXCEPT ![s] = x]
          BY <4>1 DEF TInv, TypeOK
        <4>. HIDE DEF x
        <4>. QED
          BY <4>4, <4>5, Replaced
      <3>. QED
        BY <3>1, <3>2
    <2>. QED
      BY <1>10, <2>1 DEF TInv, TypeOK, ReadBilling, chat, billing, tally
  <1>11. ASSUME NEW s \in Savers, CommitSpending(s)
         PROVE  TInv'
    <2>1. save' \in [Savers -> Save] /\ Named'
      BY <1>11, GotoWritingFits DEF CommitSpending
    <2>2. save[s].message \in Messages
      BY <1>11, Started DEF CommitSpending
    <2>3. balance' \in Nat /\ quota' \in Nat /\ posted' \in Nat /\ debited' \in Nat
      <3>1. posted \in Nat /\ debited \in Nat
        BY DEF TInv, TypeOK
      <3>. QED
        BY <1>11, <3>1, UsedFacts DEF CommitSpending, Charge, Post
    <2>4. /\ charged' \subseteq Messages /\ failed' \subseteq Messages
          /\ unpaid' \subseteq Messages
      BY <1>11, <2>2 DEF CommitSpending, Post, Message, TInv, TypeOK
    <2>. QED
      BY <1>11, <2>1, <2>3, <2>4 DEF TInv, TypeOK, CommitSpending, chat
  <1>12. ASSUME NEW s \in Savers, RecordFails(s)
         PROVE  TInv'
    <2>1. save[s].pc # "idle"
      BY <1>12 DEF RecordFails, Recording
    <2>2. save' \in [Savers -> Save] /\ Named'
      BY <1>12, <2>1, GotoWritingFits DEF RecordFails
    <2>3. failed' \subseteq Messages /\ unpaid' \subseteq Messages
      BY <1>12, <2>1, TallyType DEF RecordFails
    <2>. QED
      BY <1>12, <2>2, <2>3 DEF TInv, TypeOK, RecordFails, chat, billing
  <1>13. ASSUME NEW s \in Savers, WriteDocument(s)
         PROVE  TInv'
    <2>1. save' \in [Savers -> Save] /\ Named'
      BY <1>13, IdleFits, Replaced DEF WriteDocument
    <2>2. document' \in [Messages -> Entry]
      <3>1. save[s] \in Save
        BY DEF TInv, TypeOK
      <3>. QED
        BY <1>13, <3>1 DEF WriteDocument, Save
    <2>. QED
      BY <1>13, <2>1, <2>2 DEF TInv, TypeOK, WriteDocument, billing, tally
  <1>14. ASSUME NEW s \in Savers, Cancel(s)
         PROVE  TInv'
    <2>1. save' \in [Savers -> Save] /\ Named'
      BY <1>14, IdleFits, Replaced DEF Cancel
    <2>2. failed' \subseteq Messages /\ unpaid' \subseteq Messages
      <3>1. Recorder(s) => save[s].pc # "idle"
        BY DEF Recorder, Recording
      <3>2. CASE UNCHANGED tally
        BY <3>2 DEF tally, TInv, TypeOK
      <3>. QED
        BY <1>14, <3>1, <3>2, TallyType DEF Cancel
    <2>. QED
      BY <1>14, <2>1, <2>2 DEF TInv, TypeOK, Cancel, chat, billing
  <1>15. CASE TopUp
    BY <1>15 DEF TopUp, TInv, TypeOK, Named, chat, tally
  <1>16. CASE BotCharge
    BY <1>16 DEF BotCharge, TInv, TypeOK, Named, chat, tally
  <1>17. CASE Link
    BY <1>17 DEF Link, TInv, TypeOK, Named, chat, tally
  <1>18. CASE UNCHANGED vars
    BY <1>18 DEF vars, TInv, TypeOK, Named
  <1>. QED
    BY <1>1, <1>2, <1>3, <1>4, <1>5, <1>6, <1>7, <1>8, <1>9, <1>10, <1>11, <1>12,
       <1>13, <1>14, <1>15, <1>16, <1>17, <1>18 DEF Next, Step

LEMMA InitTyped == Init => TInv
  <1>. SUFFICES ASSUME Init
                PROVE  TInv
    OBVIOUS
  <1>1. Idle \in Save
    BY IdleFits DEF Fits
  <1>2. save \in [Savers -> Save] /\ Named
    BY <1>1 DEF Init, Named
  <1>3. document \in [Messages -> Entry] /\ row \in [Messages -> Row]
    BY DEF Init, NoEntry, NoRow, Entry, Row
  <1>4. {balance, quota, posted, debited, credited, exposed} \subseteq Nat
    BY BoundsAssumption DEF Init
  <1>5. /\ known \in BOOLEAN /\ charged \subseteq Messages
        /\ failed \subseteq Messages /\ unpaid \subseteq Messages
    BY DEF Init
  <1>. QED
    BY <1>2, <1>3, <1>4, <1>5 DEF TInv, TypeOK

(* Every value stays of its type: WebSpending's messages, rows, saves and  *)
(* sums.                                                                   *)
THEOREM TypeCorrect == Spec => []TypeOK
  <1>1. TInv => TypeOK
    BY DEF TInv
  <1>. QED
    BY <1>1, InitTyped, TypeStep, PTL DEF Spec

-----------------------------------------------------------------------------
(* What a recorder has loaded owes nothing either: its commit replaces the *)
(* balance and the quota by values made from these.                        *)
Loaded(x) ==
    x.pc = "charging" =>
        /\ x.quota <= posted
        /\ Start + credited - exposed <= x.balance + debited

CInv == TInv /\ NeverOvercharged /\ \A s \in Savers : Loaded(save[s])

(* A step that leaves the sums alone, and turns one save into another that *)
(* is not charging.                                                        *)
LEMMA QuietStep ==
    ASSUME CInv, NEW s \in Savers, NEW x, x.pc # "charging",
           save' = [save EXCEPT ![s] = x],
           UNCHANGED <<balance, quota, posted, debited, credited, exposed>>
    PROVE  NeverOvercharged' /\ \A r \in Savers : Loaded(save[r])'
  <1>1. ASSUME NEW r \in Savers
        PROVE  save'[r] = x \/ save'[r] = save[r]
    BY DEF CInv, TInv, TypeOK
  <1>2. NeverOvercharged /\ \A r \in Savers : Loaded(save[r])
    BY DEF CInv
  <1>. QED
    BY <1>1, <1>2 DEF NeverOvercharged, Loaded

LEMMA QuietGoto ==
    ASSUME CInv, NEW s \in Savers, NEW p, p # "charging", Goto(s, p),
           UNCHANGED <<balance, quota, posted, debited, credited, exposed>>
    PROVE  NeverOvercharged' /\ \A r \in Savers : Loaded(save[r])'
  <1>. DEFINE x == [save[s] EXCEPT !.pc = p]
  <1>1. save[s] \in Save
    BY DEF CInv, TInv, TypeOK
  <1>2. x.pc = p
    BY <1>1 DEF Save
  <1>3. save' = [save EXCEPT ![s] = x]
    BY DEF Goto, CInv, TInv, TypeOK
  <1>. HIDE DEF x
  <1>. QED
    BY <1>2, <1>3, QuietStep

LEMMA QuietWriting ==
    ASSUME CInv, NEW s \in Savers, GotoWriting(s) \/ save' = [save EXCEPT ![s] = Idle],
           UNCHANGED <<balance, quota, posted, debited, credited, exposed>>
    PROVE  NeverOvercharged' /\ \A r \in Savers : Loaded(save[r])'
  <1>1. Writing(s).pc # "charging" /\ Idle.pc # "charging"
    BY DEF Writing, Idle
  <1>. QED
    BY <1>1, QuietStep DEF GotoWriting

LEMMA QuietBegin ==
    ASSUME CInv, NEW s \in Savers, NEW m, NEW patch, NEW text,
           Begin(s, m, patch, text)
    PROVE  NeverOvercharged' /\ \A r \in Savers : Loaded(save[r])'
  <1>. DEFINE x == [Idle EXCEPT !.pc = "read", !.message = m,
                                !.document = Merged(m, patch), !.text = text]
  <1>1. x.pc # "charging"
    BY DEF Idle
  <1>2. save' = [save EXCEPT ![s] = x]
    BY DEF Begin
  <1>. HIDE DEF x
  <1>. QED
    BY <1>1, <1>2, QuietStep DEF Begin, billing

(* The steps of a save before and after it charges.                        *)
LEMMA QuietSaves ==
    ASSUME CInv, NEW s \in Savers,
           \/ \E m \in Messages : Note(s, m)
           \/ LoadRow(s) \/ CommitRow(s) \/ RowFails(s) \/ CalculateCost(s)
           \/ FindUser(s) \/ CreateUser(s)
           \/ RecordFails(s) \/ WriteDocument(s) \/ Cancel(s)
    PROVE  NeverOvercharged' /\ \A r \in Savers : Loaded(save[r])'
  <1>0. UNCHANGED <<balance, quota, posted, debited, credited, exposed>>
    BY DEF Note, LoadRow, CommitRow, RowFails, CalculateCost, FindUser, CreateUser,
           RecordFails, WriteDocument, Cancel, billing
  <1>1. save[s] \in Save
    BY DEF CInv, TInv, TypeOK
  <1>2. ASSUME NEW m \in Messages, Note(s, m)
        PROVE  \E x : x.pc # "charging" /\ save' = [save EXCEPT ![s] = x]
    BY <1>2 DEF Note, Idle
  <1>3. CASE LoadRow(s) \/ CommitRow(s) \/ CalculateCost(s)
    <2>1. \A x, q : [save[s] EXCEPT !.pc = "loaded", !.row = x].pc # "charging"
                 /\ [save[s] EXCEPT !.pc = "triggered", !.row = x].pc # "charging"
                 /\ [save[s] EXCEPT !.pc = "recording", !.text = q].pc # "charging"
                 /\ Writing(s).pc # "charging"
      BY <1>1 DEF Save, Writing, Idle
    <2>2. \E x : x.pc # "charging" /\ save' = [save EXCEPT ![s] = x]
      BY <1>3, <2>1 DEF LoadRow, CommitRow, CalculateCost, GotoWriting, CInv, TInv, TypeOK
    <2>. QED
      BY <1>0, <2>2, QuietStep
  <1>4. CASE FindUser(s) \/ CreateUser(s)
    BY <1>0, <1>4, QuietGoto DEF FindUser, CreateUser
  <1>5. CASE RowFails(s) \/ RecordFails(s) \/ WriteDocument(s) \/ Cancel(s)
    BY <1>0, <1>5, QuietWriting DEF RowFails, RecordFails, WriteDocument, Cancel
  <1>. QED
    BY <1>0, <1>2, <1>3, <1>4, <1>5, QuietStep

LEMMA ChargeStep == CInv /\ [Next]_vars => CInv'
  <1>. SUFFICES ASSUME CInv, [Next]_vars
                PROVE  NeverOvercharged' /\ \A r \in Savers : Loaded(save[r])'
    BY TypeStep DEF CInv
  <1>0. /\ balance \in Nat /\ quota \in Nat /\ posted \in Nat /\ debited \in Nat
        /\ credited \in Nat /\ exposed \in Nat /\ Start \in Nat
        /\ \A r \in Savers : save[r].balance \in Nat /\ save[r].quota \in Nat
    BY UsedFacts, BoundsAssumption DEF CInv, TInv, TypeOK
  <1>1. ASSUME NEW s \in Savers, NEW m \in Messages,
               Place(s, m) \/ Finish(s, m) \/ Patch(s, m)
        PROVE  NeverOvercharged' /\ \A r \in Savers : Loaded(save[r])'
    BY <1>1, QuietBegin DEF Place, Finish, Patch
  <1>2. ASSUME NEW s \in Savers,
               \/ \E m \in Messages : Note(s, m)
               \/ LoadRow(s) \/ CommitRow(s) \/ RowFails(s) \/ CalculateCost(s)
               \/ FindUser(s) \/ CreateUser(s)
               \/ RecordFails(s) \/ WriteDocument(s) \/ Cancel(s)
        PROVE  NeverOvercharged' /\ \A r \in Savers : Loaded(save[r])'
    BY <1>2, QuietSaves
  <1>3. ASSUME NEW s \in Savers, ReadBilling(s)
        PROVE  NeverOvercharged' /\ \A r \in Savers : Loaded(save[r])'
    <2>1. CASE GotoWriting(s)
      BY <1>3, <2>1, QuietWriting DEF ReadBilling, billing
    <2>2. CASE ~GotoWriting(s)
      <3>1. PICK c \in Costs : save' = [save EXCEPT ![s] = [@ EXCEPT
                  !.pc = "charging", !.cost = c, !.balance = balance, !.quota = quota]]
        BY <1>3, <2>2 DEF ReadBilling
      <3>. DEFINE x == [save[s] EXCEPT !.pc = "charging", !.cost = c,
                                       !.balance = balance, !.quota = quota]
      <3>2. save[s] \in Save
        BY DEF CInv, TInv, TypeOK
      <3>3. x.balance = balance /\ x.quota = quota
        BY <3>2 DEF Save
      <3>4. save' = [save EXCEPT ![s] = x]
        BY <3>1 DEF CInv, TInv, TypeOK
      <3>. HIDE DEF x
      <3>5. UNCHANGED <<balance, quota, posted, debited, credited, exposed>>
        BY <1>3 DEF ReadBilling, billing
      <3>. QED
        BY <3>3, <3>4, <3>5 DEF CInv, NeverOvercharged, Loaded, TInv, TypeOK
    <2>. QED
      BY <2>1, <2>2
  <1>4. ASSUME NEW s \in Savers, CommitSpending(s)
        PROVE  NeverOvercharged' /\ \A r \in Savers : Loaded(save[r])'
    <2>. DEFINE x == Writing(s)
    <2>1. save[s] \in Save /\ Loaded(save[s]) /\ save[s].pc = "charging"
      BY <1>4 DEF CInv, TInv, TypeOK, CommitSpending
    <2>2. x.pc = "writing"
      BY DEF Writing, Idle
    <2>3. save' = [save EXCEPT ![s] = x]
      BY <1>4 DEF CommitSpending, GotoWriting
    <2>4. /\ save[s].cost \in Nat /\ Used(s) \in Nat
          /\ save[s].balance \in Nat /\ save[s].quota \in Nat
      BY UsedFacts DEF CInv
    <2>5. /\ balance' = save[s].balance - Used(s) /\ quota' = save[s].quota + save[s].cost
          /\ posted' = posted + save[s].cost /\ debited' = debited + Used(s)
          /\ credited' = credited /\ exposed' = exposed
      BY <1>4 DEF CommitSpending, Charge, Post
    <2>. HIDE DEF x
    <2>6. NeverOvercharged'
      BY <1>0, <2>1, <2>4, <2>5 DEF Loaded, NeverOvercharged
    <2>7. ASSUME NEW r \in Savers
          PROVE  Loaded(save[r])'
      <3>1. CASE r = s
        BY <2>2, <2>3, <3>1 DEF Loaded, CInv, TInv, TypeOK
      <3>2. CASE r # s
        <4>1. save'[r] = save[r] /\ Loaded(save[r])
          BY <2>3, <3>2 DEF CInv, TInv, TypeOK
        <4>. QED
          BY <1>0, <2>4, <2>5, <4>1 DEF Loaded
      <3>. QED
        BY <3>1, <3>2
    <2>. QED
      BY <2>6, <2>7
  <1>5. CASE TopUp
    <2>1. balance' = balance + 1 /\ credited' = credited + 1
          /\ UNCHANGED <<quota, posted, debited, save>>
      BY <1>5 DEF TopUp
    <2>2. CASE Charging = {}
      <3>1. exposed' = exposed /\ \A r \in Savers : save[r].pc # "charging"
        BY <1>5, <2>2 DEF TopUp, Charging
      <3>. QED
        BY <1>0, <2>1, <3>1 DEF CInv, NeverOvercharged, Loaded
    <2>3. CASE Charging # {}
      <3>1. exposed' = exposed + 1
        BY <1>5, <2>3 DEF TopUp
      <3>. QED
        BY <1>0, <2>1, <3>1 DEF CInv, NeverOvercharged, Loaded
    <2>. QED
      BY <2>2, <2>3
  <1>6. CASE BotCharge
    <2>1. balance' = balance - 1 /\ debited' = debited + 1
          /\ UNCHANGED <<quota, posted, credited, exposed, save>>
      BY <1>6 DEF BotCharge
    <2>. QED
      BY <1>0, <2>1 DEF CInv, NeverOvercharged, Loaded
  <1>7. CASE Link
    BY <1>7 DEF Link, CInv, NeverOvercharged, Loaded
  <1>8. CASE UNCHANGED vars
    BY <1>8 DEF vars, CInv, NeverOvercharged, Loaded
  <1>. QED
    BY <1>1, <1>2, <1>3, <1>4, <1>5, <1>6, <1>7, <1>8 DEF Next, Step

(* However saves overlap with each other and with the bot, no message      *)
(* takes more from the quota and the balance than its entry says, but for  *)
(* top-ups that fall between a recorder's read and its commit.             *)
THEOREM Overcharge == Spec => []NeverOvercharged
  <1>1. Init => CInv
    <2>. SUFFICES ASSUME Init
                  PROVE  CInv
      OBVIOUS
    <2>1. Idle.pc # "charging"
      BY DEF Idle
    <2>2. \A s \in Savers : Loaded(save[s])
      BY <2>1 DEF Init, Loaded
    <2>3. NeverOvercharged
      BY BoundsAssumption DEF Init, NeverOvercharged
    <2>. QED
      BY <2>2, <2>3, InitTyped DEF CInv
  <1>2. CInv => NeverOvercharged
    BY DEF CInv
  <1>. QED
    BY <1>1, <1>2, ChargeStep, PTL DEF Spec


-----------------------------------------------------------------------------
(* Every answer is charged.  The strengthening: token counts come with a   *)
(* complete answer, in every copy of the document; a row that has tokens,  *)
(* and so keeps later saves from charging, is charged, given up or owed;   *)
(* and what a save has read of a row is still there.                       *)

Sound(copy) == \A m \in Messages : copy[m].usage => copy[m].done
Copies == Sound(document) /\ \A s \in Savers : Sound(save[s].document)

Counted == \A m \in Messages : row[m].usage => m \in charged \cup failed \cup unpaid
Owed == unpaid \cap (charged \cup failed) = {}
Fresh(x) == x.pc = "loaded" /\ x.row.usage => row[x.message].usage

FInv == Copies /\ Counted /\ Owed /\ FinishedCharged /\ \A s \in Savers : Fresh(save[s])

(* A step of one save: the others stay recorders of what they were.        *)
LEMMA Others ==
    ASSUME TInv, NEW s \in Savers, NEW x, save' = [save EXCEPT ![s] = x],
           \A m \in Messages : row[m].usage => row'[m].usage
    PROVE  \A r \in Savers : /\ save'[r] = IF r = s THEN x ELSE save[r]
                             /\ r # s /\ Recorder(r) => Recorder(r)'
  <1>1. \A r \in Savers : save'[r] = IF r = s THEN x ELSE save[r]
    BY DEF TInv, TypeOK
  <1>2. \A r \in Savers : save[r].pc = "triggered" => save[r].message \in Messages
    BY Started
  <1>. QED
    BY <1>1, <1>2 DEF Recorder, Priced, Message

(* A save that goes on without a word about its message: it stays the      *)
(* recorder of it, or was none, or there is nothing owed.                  *)
LEMMA GoesOn ==
    ASSUME TInv, FInv, NEW s \in Savers, NEW x, save' = [save EXCEPT ![s] = x],
           Sound(x.document),
           x.pc = "loaded" /\ x.row.usage => row[x.message].usage,
           UNCHANGED <<row, charged, failed, unpaid>>, Sound(document'),
           \/ ~Recorder(s)
           \/ x.pc \in Recording /\ x.message = Message(s)
           \/ Message(s) \in charged
    PROVE  FInv'
  <1>1. \A r \in Savers : /\ save'[r] = IF r = s THEN x ELSE save[r]
                          /\ r # s /\ Recorder(r) => Recorder(r)'
    BY Others
  <1>2. Copies'
    BY <1>1 DEF FInv, Copies, Sound
  <1>3. Counted' /\ Owed'
    BY DEF FInv, Counted, Owed
  <1>4. \A r \in Savers : Fresh(save[r])'
    BY <1>1 DEF FInv, Fresh
  <1>5. FinishedCharged'
    <2>1. SUFFICES ASSUME NEW m \in unpaid
                   PROVE  \E r \in Savers : (Message(r) = m /\ Recorder(r))'
      BY DEF FinishedCharged
    <2>2. PICK r \in Savers : Message(r) = m /\ Recorder(r)
      BY DEF FInv, FinishedCharged
    <2>3. CASE r # s
      BY <1>1, <2>2, <2>3 DEF Message
    <2>4. CASE r = s
      <3>1. m \notin charged
        BY DEF FInv, Owed
      <3>2. x.pc \in Recording /\ x.message = m
        BY <2>2, <2>4, <3>1
      <3>3. (Message(s) = m /\ Recorder(s))'
        BY <1>1, <3>2 DEF Message, Recorder
      <3>. QED
        BY <3>3
    <2>. QED
      BY <2>3, <2>4
  <1>. QED
    BY <1>2, <1>3, <1>4, <1>5 DEF FInv

(* A save that settles its message, and has no more than the document to   *)
(* write.                                                                  *)
LEMMA Settles ==
    ASSUME TInv, FInv, NEW s \in Savers, NEW x, save' = [save EXCEPT ![s] = x],
           Sound(x.document), x.pc # "loaded", UNCHANGED chat,
           Message(s) \in Messages,
           \/ charged' = charged /\ GiveUp(s)
           \/ Post(s)
    PROVE  FInv'
  <1>1. \A r \in Savers : /\ save'[r] = IF r = s THEN x ELSE save[r]
                          /\ r # s /\ Recorder(r) => Recorder(r)'
    BY Others DEF chat
  <1>2. Copies'
    BY <1>1 DEF FInv, Copies, Sound, chat
  <1>3. /\ charged \subseteq charged' /\ Message(s) \in charged' \cup failed'
        /\ unpaid' = unpaid \ {Message(s)}
        /\ charged \cup failed \subseteq charged' \cup failed'
        /\ charged' \cup failed' \subseteq charged \cup failed \cup {Message(s)}
    BY DEF GiveUp, Post
  <1>4. Counted' /\ Owed'
    BY <1>3 DEF FInv, Counted, Owed, chat
  <1>5. \A r \in Savers : Fresh(save[r])'
    BY <1>1 DEF FInv, Fresh, chat
  <1>6. FinishedCharged'
    <2>1. SUFFICES ASSUME NEW m \in unpaid'
                   PROVE  \E r \in Savers : (Message(r) = m /\ Recorder(r))'
      BY DEF FinishedCharged
    <2>2. m \in unpaid /\ m # Message(s)
      BY <1>3
    <2>3. PICK r \in Savers : Message(r) = m /\ Recorder(r)
      BY <2>2 DEF FInv, FinishedCharged
    <2>. QED
      BY <1>1, <2>2, <2>3 DEF Message
  <1>. QED
    BY <1>2, <1>4, <1>5, <1>6 DEF FInv

(* The row shows the answer: either this save is to record it, or the row  *)
(* had tokens before, and another save has recorded it, or is at it.       *)
LEMMA CommitRowCounted ==
    ASSUME TInv, FInv, NEW s \in Savers, CommitRow(s)
    PROVE  FInv'
  <1>0. PICK m : m = Message(s)
    OBVIOUS
  <1>1. /\ save[s].pc = "loaded" /\ save[s] \in Save
        /\ m = Message(s) /\ m \in Messages /\ m = save[s].message
    BY <1>0, Started DEF CommitRow, Message
  <1>2. /\ Data(s).usage => Data(s).done
        /\ Data(s).usage \in BOOLEAN /\ Data(s).done \in BOOLEAN
        /\ save[s].text \in BOOLEAN /\ row[m].usage \in BOOLEAN
    BY <1>1 DEF Data, Save, FInv, Copies, Sound, Entry, TInv, TypeOK, Row
  <1>3. /\ row'[m].usage = (row[m].usage \/ Data(s).usage)
        /\ \A n \in Messages \ {m} : row'[n] = row[n]
        /\ UNCHANGED <<document, charged, failed>>
    BY <1>1 DEF CommitRow, billing, TInv, TypeOK
  <1>. DEFINE x == IF Triggered(s) THEN [save[s] EXCEPT !.pc = "triggered", !.row = NoRow]
                                   ELSE Writing(s)
              answer == Data(s).done /\ (row'[m].usage \/ save[s].text)
  <1>4. unpaid' = unpaid \cup {n \in {m} \ (charged \cup failed) : answer}
    BY <1>1 DEF CommitRow
  <1>5. save' = [save EXCEPT ![s] = x]
    BY DEF CommitRow, TInv, TypeOK
  <1>6. /\ x.document = save[s].document /\ x.message = m /\ x.pc # "loaded"
        /\ Triggered(s) => x.pc = "triggered" /\ x.text = save[s].text
    BY <1>1, WritingFits DEF Save
  <1>. HIDE DEF x
  <1>7. \A r \in Savers : /\ save'[r] = IF r = s THEN x ELSE save[r]
                          /\ r # s /\ Recorder(r) => Recorder(r)'
    BY <1>3, <1>5, Others
  <1>8. Copies'
    BY <1>3, <1>6, <1>7 DEF FInv, Copies, Sound
  <1>9. Counted' /\ Owed'
    BY <1>1, <1>2, <1>3, <1>4 DEF FInv, Counted, Owed
  <1>10. \A r \in Savers : Fresh(save[r])'
    <2>1. SUFFICES ASSUME NEW r \in Savers, save'[r].pc = "loaded", save'[r].row.usage
                   PROVE  row'[save'[r].message].usage
      BY DEF Fresh
    <2>2. r # s /\ save'[r] = save[r]
      BY <1>6, <1>7, <2>1
    <2>3. row[save[r].message].usage /\ save[r].message \in Messages
      BY <2>1, <2>2, Started DEF FInv, Fresh
    <2>4. CASE save[r].message = m
      BY <1>3, <2>2, <2>3, <2>4
    <2>5. CASE save[r].message # m
      BY <1>3, <2>2, <2>3, <2>5
    <2>. QED
      BY <2>4, <2>5
  <1>11. FinishedCharged'
    <2>1. SUFFICES ASSUME NEW n \in unpaid'
                   PROVE  \E r \in Savers : (Message(r) = n /\ Recorder(r))'
      BY DEF FinishedCharged
    <2>2. CASE n \in unpaid
      <3>1. PICK r \in Savers : Message(r) = n /\ Recorder(r)
        BY <2>2 DEF FInv, FinishedCharged
      <3>2. r # s
        BY <1>1, <3>1 DEF Recorder, Recording
      <3>. QED
        BY <1>7, <3>1, <3>2 DEF Message
    <2>3. CASE n \notin unpaid
      <3>1. n = m /\ m \notin charged \cup failed \cup unpaid /\ answer
        BY <1>4, <2>1, <2>3
      <3>2. ~row[m].usage
        BY <1>1, <3>1 DEF FInv, Counted
      <3>3. ~save[s].row.usage
        BY <1>1, <3>2 DEF FInv, Fresh
      <3>4. Triggered(s)
        BY <3>1, <3>3 DEF Triggered
      <3>5. (Message(s) = m /\ Recorder(s))'
        BY <1>6, <1>7, <3>1, <3>4 DEF Message, Recorder, Priced
      <3>. QED
        BY <3>1, <3>5
    <2>. QED
      BY <2>2, <2>3
  <1>. QED
    BY <1>8, <1>9, <1>10, <1>11 DEF FInv

(* A save begins with the document as it is, but for its own message.      *)
LEMMA BeginCounted ==
    ASSUME TInv, FInv, NEW s \in Savers, NEW m \in Messages, NEW patch \in Entry,
           NEW text, Begin(s, m, patch, text),
           patch.usage \/ document[m].usage => patch.done
    PROVE  FInv'
  <1>. DEFINE copy == Merged(m, patch)
              x == [Idle EXCEPT !.pc = "read", !.message = m, !.document = copy,
                                !.text = text]
  <1>1. /\ \A n \in Messages \ {m} : copy[n] = document[n]
        /\ copy[m].done = patch.done
        /\ copy[m].usage = (patch.usage \/ document[m].usage)
    BY DEF Merged, Entry, TInv, TypeOK
  <1>. HIDE DEF copy
  <1>2. x.pc = "read" /\ x.document = copy
    BY DEF Idle
  <1>3. save' = [save EXCEPT ![s] = x] /\ save[s] = Idle
    BY DEF Begin, copy
  <1>. HIDE DEF x
  <1>4. Sound(copy)
    BY <1>1 DEF FInv, Copies, Sound
  <1>5. ~Recorder(s)
    BY <1>3 DEF Recorder, Recording, Idle
  <1>6. UNCHANGED <<row, charged, failed, unpaid, document>> /\ Sound(document')
    BY DEF Begin, chat, billing, tally, FInv, Copies
  <1>. QED
    BY <1>2, <1>3, <1>4, <1>5, <1>6, GoesOn

LEMMA BeginsCounted ==
    ASSUME TInv, FInv, NEW s \in Savers, NEW m \in Messages,
           Place(s, m) \/ Finish(s, m) \/ Patch(s, m) \/ Note(s, m)
    PROVE  FInv'
  <1>1. CASE Place(s, m)
    <2>1. document[m] = NoEntry /\ NoEntry \in Entry /\ ~NoEntry.usage
      BY <1>1 DEF Place, NoEntry, Entry
    <2>. QED
      BY <1>1, <2>1, BeginCounted DEF Place
  <1>2. CASE Finish(s, m)
    <2>1. PICK counts, text \in BOOLEAN :
              Begin(s, m, [done |-> TRUE, usage |-> counts], text)
      BY <1>2 DEF Finish
    <2>2. [done |-> TRUE, usage |-> counts] \in Entry
      BY DEF Entry
    <2>. QED
      BY <2>1, <2>2, BeginCounted
  <1>3. CASE Patch(s, m)
    <2>1. document[m] \in Entry /\ (document[m].usage => document[m].done)
      BY DEF TInv, TypeOK, FInv, Copies, Sound
    <2>. QED
      BY <1>3, <2>1, BeginCounted DEF Patch
  <1>4. CASE Note(s, m)
    <2>. DEFINE x == [Idle EXCEPT !.pc = "writing", !.message = m, !.document = document]
    <2>1. x.pc = "writing" /\ x.document = document
      BY DEF Idle
    <2>2. save' = [save EXCEPT ![s] = x] /\ save[s] = Idle
      BY <1>4 DEF Note
    <2>. HIDE DEF x
    <2>3. ~Recorder(s)
      BY <2>2 DEF Recorder, Recording, Idle
    <2>4. UNCHANGED <<row, charged, failed, unpaid, document>>
      BY <1>4 DEF Note, chat, billing, tally
    <2>5. Sound(document) /\ Sound(document')
      BY <2>4 DEF FInv, Copies, Sound
    <2>. QED
      BY <2>1, <2>2, <2>3, <2>4, <2>5, GoesOn
  <1>. QED
    BY <1>1, <1>2, <1>3, <1>4

(* The steps of a save that change neither row nor tally.                  *)
LEMMA QuietCounted ==
    ASSUME TInv, FInv, NEW s \in Savers,
           \/ LoadRow(s) \/ RowFails(s) \/ CalculateCost(s) \/ FindUser(s)
           \/ CreateUser(s) \/ ReadBilling(s) \/ WriteDocument(s)
    PROVE  FInv'
  <1>1. /\ save[s] \in Save /\ save[s].message \in Messages
        /\ save[s].pc \in Recording \cup {"read", "loaded", "triggered", "writing"}
        /\ save[s].pc # "idle"
    BY Started DEF LoadRow, RowFails, CalculateCost, FindUser, CreateUser, ReadBilling,
                   WriteDocument, Recording
  <1>2. UNCHANGED <<row, charged, failed, unpaid>>
    BY DEF LoadRow, RowFails, CalculateCost, FindUser, CreateUser, ReadBilling,
           WriteDocument, chat, billing, tally
  <1>3. Sound(save[s].document) /\ Sound(document')
    <2>1. document' = document \/ document' = save[s].document
      BY DEF LoadRow, RowFails, CalculateCost, FindUser, CreateUser, ReadBilling,
             WriteDocument, chat
    <2>. QED
      BY <2>1 DEF FInv, Copies, Sound
  <1>4. /\ Writing(s).document = save[s].document /\ Writing(s).pc = "writing"
    BY <1>1, WritingFits
  <1>5. CASE LoadRow(s)
    <2>. DEFINE x == [save[s] EXCEPT !.pc = "loaded", !.row = row[Message(s)]]
    <2>1. /\ x.document = save[s].document /\ x.message = save[s].message
          /\ x.row = row[Message(s)]
      BY <1>1 DEF Save
    <2>2. save' = [save EXCEPT ![s] = x]
      BY <1>5 DEF LoadRow, TInv, TypeOK
    <2>3. ~Recorder(s)
      BY <1>5 DEF LoadRow, Recorder, Recording
    <2>. HIDE DEF x
    <2>. QED
      BY <1>2, <1>3, <2>1, <2>2, <2>3, GoesOn DEF Message
  <1>6. CASE GotoWriting(s) /\ ~Recorder(s)
    BY <1>2, <1>3, <1>4, <1>6, GoesOn DEF GotoWriting
  <1>7. CASE GotoWriting(s) /\ Message(s) \in charged
    BY <1>2, <1>3, <1>4, <1>7, GoesOn DEF GotoWriting
  <1>8. CASE RowFails(s)
    BY <1>6, <1>8 DEF RowFails, Recorder, Recording
  <1>9. ASSUME NEW x, save' = [save EXCEPT ![s] = x], x.pc \in Recording,
               x.document = save[s].document, x.message = save[s].message
        PROVE  FInv'
    <2>1. x.pc # "loaded"
      BY <1>9 DEF Recording
    <2>. QED
      BY <1>2, <1>3, <1>9, <2>1, GoesOn DEF Message
  <1>10. CASE CalculateCost(s)
    <2>. DEFINE x == [save[s] EXCEPT !.pc = "recording", !.text = FALSE]
    <2>1. /\ x.pc \in Recording /\ x.document = save[s].document
          /\ x.message = save[s].message
      BY <1>1 DEF Save, Recording
    <2>2. Priced(s) => save' = [save EXCEPT ![s] = x]
      BY <1>10 DEF CalculateCost, TInv, TypeOK
    <2>3. ~Priced(s) => GotoWriting(s) /\ ~Recorder(s)
      BY <1>10 DEF CalculateCost, Recorder, Recording
    <2>. HIDE DEF x
    <2>. QED
      BY <1>6, <1>9, <2>1, <2>2, <2>3
  <1>11. CASE FindUser(s) \/ CreateUser(s)
    <2>1. PICK p \in {"creating", "recording"} : Goto(s, p)
      BY <1>11 DEF FindUser, CreateUser
    <2>. DEFINE x == [save[s] EXCEPT !.pc = p]
    <2>2. /\ x.pc \in Recording /\ x.document = save[s].document
          /\ x.message = save[s].message
      BY <1>1, <2>1 DEF Save, Recording
    <2>3. save' = [save EXCEPT ![s] = x]
      BY <2>1 DEF Goto, TInv, TypeOK
    <2>. HIDE DEF x
    <2>. QED
      BY <1>9, <2>2, <2>3
  <1>12. CASE ReadBilling(s)
    <2>1. CASE GotoWriting(s) /\ AlreadyCharged(Message(s))
      BY <1>7, <2>1 DEF AlreadyCharged
    <2>2. ASSUME NEW c \in Costs,
                 save' = [save EXCEPT ![s] = [@ EXCEPT
                    !.pc = "charging", !.cost = c, !.balance = balance, !.quota = quota]]
          PROVE  FInv'
      <3>. DEFINE x == [save[s] EXCEPT !.pc = "charging", !.cost = c,
                                       !.balance = balance, !.quota = quota]
      <3>1. /\ x.pc \in Recording /\ x.message = save[s].message
            /\ x.document = save[s].document
        BY <1>1 DEF Save, Recording
      <3>2. save' = [save EXCEPT ![s] = x]
        BY <2>2 DEF TInv, TypeOK
      <3>. HIDE DEF x
      <3>. QED
        BY <1>9, <3>1, <3>2
    <2>. QED
      BY <1>12, <2>1, <2>2 DEF ReadBilling
  <1>13. CASE WriteDocument(s)
    <2>1. save' = [save EXCEPT ![s] = Idle] /\ ~Recorder(s)
      BY <1>13 DEF WriteDocument, Recorder, Recording
    <2>2. Sound(Idle.document) /\ Idle.pc # "loaded"
      BY DEF Sound, Idle, NoEntry
    <2>. QED
      BY <1>2, <1>3, <2>1, <2>2, GoesOn
  <1>. QED
    BY <1>5, <1>8, <1>10, <1>11, <1>12, <1>13

LEMMA CountedStep == TInv /\ FInv /\ [Next]_vars => FInv'
  <1>. SUFFICES ASSUME TInv, FInv, [Next]_vars
                PROVE  FInv'
    OBVIOUS
  <1>1. Sound(Idle.document) /\ Idle.pc # "loaded"
    BY DEF Sound, Idle, NoEntry
  <1>2. ASSUME NEW s \in Savers, CommitSpending(s) \/ RecordFails(s)
        PROVE  FInv'
    <2>1. save[s].pc # "idle" /\ Message(s) \in Messages
      BY <1>2, Started DEF CommitSpending, RecordFails, Recording, Message
    <2>2. Sound(Writing(s).document) /\ Writing(s).pc # "loaded"
      BY <2>1, WritingFits DEF FInv, Copies
    <2>3. (charged' = charged /\ GiveUp(s)) \/ Post(s)
      BY <1>2 DEF CommitSpending, RecordFails, billing
    <2>. QED
      BY <1>2, <2>1, <2>2, <2>3, Settles DEF CommitSpending, RecordFails, GotoWriting
  <1>3. ASSUME NEW s \in Savers, Cancel(s)
        PROVE  FInv'
    <2>1. CASE Recorder(s)
      <3>1. Message(s) \in Messages
        BY <2>1, Started DEF Recorder, Recording, Message
      <3>. QED
        BY <1>1, <1>3, <2>1, <3>1, Settles DEF Cancel, billing
    <2>2. CASE ~Recorder(s)
      <3>1. UNCHANGED <<row, charged, failed, unpaid>> /\ Sound(document')
        BY <1>3, <2>2 DEF Cancel, chat, billing, tally, FInv, Copies
      <3>. QED
        BY <1>1, <1>3, <2>2, <3>1, GoesOn DEF Cancel
    <2>. QED
      BY <2>1, <2>2
  <1>4. CASE TopUp \/ BotCharge \/ Link \/ UNCHANGED vars
    <2>1. UNCHANGED <<document, row, charged, failed, unpaid, save>>
      BY <1>4 DEF TopUp, BotCharge, Link, vars, chat, tally
    <2>. QED
      BY <2>1 DEF FInv, Copies, Sound, Counted, Owed, Fresh, FinishedCharged, Recorder,
                  Priced, Message
  <1>. QED
    BY <1>2, <1>3, <1>4, CommitRowCounted, BeginsCounted, QuietCounted DEF Next, Step

(* An answer whose row was once written complete, with tokens or text, is  *)
(* charged, being recorded or given up: no order in which saves decide,    *)
(* each on a row and a document that others write over, leaves one nobody  *)
(* charges.                                                                *)
THEOREM AnswersCharged == Spec => []FinishedCharged
  <1>1. Init => FInv
    <2>. SUFFICES ASSUME Init
                  PROVE  FInv
      OBVIOUS
    <2>1. \A s \in Savers : save[s] = Idle
      BY DEF Init
    <2>2. Sound(Idle.document) /\ Idle.pc # "loaded"
      BY DEF Sound, Idle, NoEntry
    <2>3. Copies
      BY <2>1, <2>2 DEF Init, Copies, Sound, NoEntry
    <2>4. Counted /\ Owed /\ FinishedCharged
      BY DEF Init, Counted, Owed, FinishedCharged, NoRow
    <2>5. \A s \in Savers : Fresh(save[s])
      BY <2>1, <2>2 DEF Fresh
    <2>. QED
      BY <2>3, <2>4, <2>5 DEF FInv
  <1>2. FInv => FinishedCharged
    BY DEF FInv
  <1>. QED
    BY <1>1, <1>2, InitTyped, TypeStep, CountedStep, PTL DEF Spec
=============================================================================
