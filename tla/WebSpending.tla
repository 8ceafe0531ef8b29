----------------------------- MODULE WebSpending -----------------------------
(***************************************************************************)
(* Spending of the web front end: each save of an assistant's message      *)
(* (upsert_message_to_chat_by_id_and_message_id in models/chats.py,        *)
(* upsert_message in models/chat_messages.py) decides whether the message  *)
(* is to be charged, and record_spending_from_message (utils/spending.py)  *)
(* charges it to the quota and to the balance in the bot's database.       *)
(*                                                                         *)
(* A save reads the whole chat document, merges its patch into one         *)
(* message, writes the message's row, charges it, and only then writes the *)
(* document back: what another save wrote to it meanwhile is lost.  When a *)
(* prompt goes to several models their messages are saved concurrently;    *)
(* edits and a stopped answer are saves as well.  A status or a file is    *)
(* saved in the document only.                                             *)
(*                                                                         *)
(* One user and one chat.  A row's columns are written as loaded plus or   *)
(* minus the cost; the bot's own writes land between (TomanBilling has     *)
(* their detail).  Gift and paid balance are one number, as are the two    *)
(* counters of the quota; their windows are those of TieredQuota and do    *)
(* not end here.                                                           *)
(***************************************************************************)
EXTENDS Integers

CONSTANTS
    Messages,
    Savers,      \* saves under way at once
    NoMessage,
    Costs,       \* what _calculate_cost returns when there are tokens or text
    Start,       \* the balance at the start
    MaxCredits,  \* bound: top-ups
    MaxDebits    \* bound: charges by the bot

ASSUME CostsAssumption == Costs \subseteq Nat \ {0}
ASSUME BoundsAssumption == {Start, MaxCredits, MaxDebits} \subseteq Nat
ASSUME MessageAssumption == NoMessage \notin Messages

VARIABLES
    document,  \* chat.chat: done and usage of each message
    row,       \* the row of each message in chat_message
    known,     \* the user has a row in user_preferences of the bot
    balance,   \* user_billing_accounts
    quota,     \* user_subscriptions: what was spent
    charged,   \* messages with a ledger entry
    posted,    \* the sum of the entries' costs
    debited,   \* the sum of what entries, the bot's too, took off the balance
    credited,  \* the sum of top-ups
    exposed,   \* the part of it that came between a recorder's read and commit
    failed,    \* uncharged messages one of whose charges was given up
    unpaid,    \* answers (the row was written complete, with tokens or text)
               \* neither charged nor given up
    save       \* the saves under way

vars == <<document, row, known, balance, quota, charged, posted, debited,
          credited, exposed, failed, unpaid, save>>

chat == <<document, row>>
tally == <<failed, unpaid>>
billing == <<known, balance, quota, charged, posted, debited, credited, exposed>>

Entry == [done : BOOLEAN, usage : BOOLEAN]
NoEntry == [done |-> FALSE, usage |-> FALSE]

(* usage: the row's usage column holds token counts.                       *)
Row == [exists : BOOLEAN, usage : BOOLEAN]
NoRow == [exists |-> FALSE, usage |-> FALSE]

(* "read": the document is read and the patch merged; "loaded": the row is *)
(* read; "triggered": it is written and is to be charged; "recording": it  *)
(* has a price; "creating": the user was not found; "charging": account    *)
(* and subscription are loaded; "writing": the document is to be written.  *)
(* text: the merged message is complete and _extract_output_text finds     *)
(* some in it; its content may be the patch's or any other save's.         *)
Recording == {"recording", "creating", "charging"}
Save == [pc : Recording \cup {"idle", "read", "loaded", "triggered", "writing"},
         message : Messages \cup {NoMessage}, document : [Messages -> Entry],
         text : BOOLEAN, row : Row, cost : Nat, balance : Nat, quota : Nat]

Idle == [pc |-> "idle", message |-> NoMessage,
         document |-> [m \in Messages |-> NoEntry],
         text |-> FALSE, row |-> NoRow, cost |-> 0, balance |-> 0, quota |-> 0]

TypeOK ==
    /\ document \in [Messages -> Entry]
    /\ row \in [Messages -> Row]
    /\ known \in BOOLEAN
    /\ {balance, quota, posted, debited, credited, exposed} \subseteq Nat
    /\ charged \subseteq Messages
    /\ failed \subseteq Messages
    /\ unpaid \subseteq Messages
    /\ save \in [Savers -> Save]

-----------------------------------------------------------------------------
Init ==
    /\ document = [m \in Messages |-> NoEntry]
    /\ row = [m \in Messages |-> NoRow]
    /\ known = FALSE
    /\ balance = Start
    /\ quota = 0
    /\ charged = {} /\ failed = {} /\ unpaid = {}
    /\ posted = 0 /\ debited = 0 /\ credited = 0 /\ exposed = 0
    /\ save = [s \in Savers |-> Idle]

Goto(s, pc) == save' = [save EXCEPT ![s].pc = pc]
Message(s) == save[s].message

(* All is done but the document.                                           *)
Writing(s) == [Idle EXCEPT !.pc = "writing", !.message = save[s].message,
                           !.document = save[s].document]
GotoWriting(s) == save' = [save EXCEPT ![s] = Writing(s)]

Data(s) == save[s].document[Message(s)]

(* The merge; usage, once in the document, stays.                          *)
Merged(m, patch) == [document EXCEPT ![m] = [patch EXCEPT !.usage = @ \/ document[m].usage]]

Begin(s, m, patch, text) ==
    /\ save[s] = Idle
    /\ save' = [save EXCEPT ![s] = [Idle EXCEPT
          !.pc = "read", !.message = m, !.document = Merged(m, patch), !.text = text]]
    /\ UNCHANGED <<chat, billing, tally>>

(* The placeholder of an answer to come.                                   *)
Place(s, m) ==
    /\ ~row[m].exists /\ document[m] = NoEntry
    /\ \A r \in Savers : Message(r) # m
    /\ Begin(s, m, NoEntry, FALSE)

(* No save is before a message's first, of the placeholder, which failed   *)
(* if it is over and there is no row.                                      *)
Placed(m) == row[m].exists \/ \A r \in Savers : Message(r) = m => Data(r) # NoEntry

(* The answer, also of a "continue", is complete, with the provider's      *)
(* token counts or without, or it was stopped, perhaps before any text.    *)
Finish(s, m) ==
    /\ Placed(m)
    /\ \E counts, text \in BOOLEAN :
          Begin(s, m, [done |-> TRUE, usage |-> counts], text)

(* An edit of the content, a source; a delta of the answer.                *)
Patch(s, m) ==
    /\ Placed(m)
    /\ \E text \in {FALSE, document[m].done} : Begin(s, m, document[m], text)

(* A status or a file: what it adds is neither done, nor usage, nor text,  *)
(* but the document is written back as it was read.                        *)
Note(s, m) ==
    /\ Placed(m)
    /\ save[s] = Idle
    /\ save' = [save EXCEPT ![s] = [Idle EXCEPT
          !.pc = "writing", !.message = m, !.document = document]]
    /\ UNCHANGED <<chat, billing, tally>>

-----------------------------------------------------------------------------
LoadRow(s) ==
    /\ save[s].pc = "read"
    /\ save' = [save EXCEPT ![s] = [@ EXCEPT !.pc = "loaded", !.row = row[Message(s)]]]
    /\ UNCHANGED <<chat, billing, tally>>

(* upsert_message: an existing row is charged when it is done and had no   *)
(* tokens, a new one when it is done or has tokens.                        *)
TriggeredByTokens(s) == Data(s).done /\ Data(s).usage /\ ~save[s].row.usage
Triggered(s) ==
    IF save[s].row.exists
       THEN Data(s).done /\ ~save[s].row.usage
       ELSE Data(s).done \/ Data(s).usage

(* What _calculate_cost finds a price in: the row's tokens, or the text of *)
(* this save.  (An insert has its own tokens looked at only; if another    *)
(* save has added some to the row since, that one charges as well.)        *)
Priced(s) == row[Message(s)].usage \/ save[s].text

(* Usage without tokens is not written over the row's.  An insert finds no *)
(* other save's row.                                                       *)
CommitRow(s) ==
    /\ save[s].pc = "loaded"
    /\ ~save[s].row.exists => ~row[Message(s)].exists
    /\ row' = [row EXCEPT ![Message(s)] = [exists |-> TRUE, usage |-> @.usage \/ Data(s).usage]]
    /\ unpaid' = unpaid \cup
          {m \in {Message(s)} \ (charged \cup failed) :
              Data(s).done /\ (row'[m].usage \/ save[s].text)}
    /\ save' = [save EXCEPT ![s] =
          IF Triggered(s) THEN [@ EXCEPT !.pc = "triggered", !.row = NoRow] ELSE Writing(s)]
    /\ UNCHANGED <<document, billing, failed>>

(* The error is logged, and the save goes on without row or charge.        *)
RowFails(s) ==
    /\ save[s].pc = "loaded"
    /\ GotoWriting(s)
    /\ UNCHANGED <<chat, billing, tally>>

(* The row is refreshed.  An answer with neither tokens nor text costs 0:  *)
(* nothing is recorded.                                                    *)
CalculateCost(s) ==
    /\ save[s].pc = "triggered"
    /\ IF Priced(s)
          THEN save' = [save EXCEPT ![s] = [@ EXCEPT !.pc = "recording", !.text = FALSE]]
          ELSE GotoWriting(s)
    /\ UNCHANGED <<chat, billing, tally>>

(* A user who is found stays: with one, the recorder goes on to the        *)
(* account.                                                                *)
FindUser(s) ==
    /\ save[s].pc = "recording"
    /\ ~known
    /\ Goto(s, "creating")
    /\ UNCHANGED <<chat, billing, tally>>

CreateUser(s) ==
    /\ save[s].pc = "creating"
    /\ ~known
    /\ known' = TRUE
    /\ Goto(s, "recording")
    /\ UNCHANGED <<chat, balance, quota, charged, posted, debited, credited, exposed, tally>>

AlreadyCharged(m) == m \in charged

(* Nothing is checked but the ledger: neither limit nor balance refuses.   *)
ReadBilling(s) ==
    /\ save[s].pc = "recording"
    /\ known
    /\ \/ AlreadyCharged(Message(s)) /\ GotoWriting(s)
       \/ /\ ~AlreadyCharged(Message(s))
          /\ \E c \in Costs :
                save' = [save EXCEPT ![s] = [@ EXCEPT
                    !.pc = "charging", !.cost = c, !.balance = balance, !.quota = quota]]
    /\ UNCHANGED <<chat, billing, tally>>

(* min(paid_balance, remaining): a cost beyond the balance takes the rest. *)
UsedAnyway(s) == save[s].cost
Used(s) == IF save[s].cost <= save[s].balance THEN save[s].cost ELSE save[s].balance

Charge(s) ==
    /\ balance' = save[s].balance - Used(s)
    /\ quota' = save[s].quota + save[s].cost

Post(s) ==
    /\ charged' = charged \cup {Message(s)}
    /\ posted' = posted + save[s].cost
    /\ debited' = debited + Used(s)
    /\ failed' = failed \ {Message(s)}
    /\ unpaid' = unpaid \ {Message(s)}

(* The entry and the two rows are one transaction.                         *)
CommitSpending(s) ==
    /\ save[s].pc = "charging"
    /\ ~AlreadyCharged(Message(s))
    /\ Charge(s)
    /\ Post(s)
    /\ GotoWriting(s)
    /\ UNCHANGED <<chat, known, credited, exposed>>

GiveUp(s) ==
    /\ failed' = failed \cup ({Message(s)} \ charged)
    /\ unpaid' = unpaid \ {Message(s)}

(* The bot's database is not available or locked, the key or the user was  *)
(* inserted by another: the save goes on.                                  *)
RecordFailsAfterRows(s) ==
    /\ save[s].pc \in Recording
    /\ IF save[s].pc = "charging" THEN Charge(s) ELSE UNCHANGED <<balance, quota>>
    /\ GiveUp(s)
    /\ GotoWriting(s)
    /\ UNCHANGED <<chat, known, charged, posted, debited, credited, exposed>>
RecordFails(s) ==
    /\ save[s].pc \in Recording
    /\ GiveUp(s)
    /\ GotoWriting(s)
    /\ UNCHANGED <<chat, billing>>

WriteDocument(s) ==
    /\ save[s].pc = "writing"
    /\ document' = save[s].document
    /\ save' = [save EXCEPT ![s] = Idle]
    /\ UNCHANGED <<row, billing, tally>>

(* A save that is to charge its message.                                   *)
Recorder(s) == save[s].pc \in Recording \/ (save[s].pc = "triggered" /\ Priced(s))

(* The task of a save is cancelled; when the process dies, of every save.  *)
Cancel(s) ==
    /\ save[s] # Idle
    /\ IF Recorder(s) THEN GiveUp(s) ELSE UNCHANGED tally
    /\ save' = [save EXCEPT ![s] = Idle]
    /\ UNCHANGED <<chat, billing>>

-----------------------------------------------------------------------------
(* The bot and the administration write the account, or create the user.   *)
Charging == {s \in Savers : save[s].pc = "charging"}

TopUp ==
    /\ known
    /\ credited < MaxCredits
    /\ balance' = balance + 1
    /\ credited' = credited + 1
    /\ exposed' = IF Charging = {} THEN exposed ELSE exposed + 1
    /\ UNCHANGED <<chat, known, quota, charged, posted, debited, tally, save>>

BotCharge ==
    /\ known
    /\ balance > 0
    /\ debited < MaxDebits
    /\ balance' = balance - 1
    /\ debited' = debited + 1
    /\ UNCHANGED <<chat, known, quota, charged, posted, credited, exposed, tally, save>>

Link ==
    /\ ~known
    /\ known' = TRUE
    /\ UNCHANGED <<chat, balance, quota, charged, posted, debited, credited, exposed, tally, save>>

Step(s) ==
    \/ \E m \in Messages : Place(s, m) \/ Finish(s, m) \/ Patch(s, m) \/ Note(s, m)
    \/ LoadRow(s)
    \/ CommitRow(s)
    \/ RowFails(s)
    \/ CalculateCost(s)
    \/ FindUser(s)
    \/ CreateUser(s)
    \/ ReadBilling(s)
    \/ CommitSpending(s)
    \/ RecordFails(s)
    \/ WriteDocument(s)
    \/ Cancel(s)

Next ==
    \/ \E s \in Savers : Step(s)
    \/ TopUp
    \/ BotCharge
    \/ Link

Spec == Init /\ [][Next]_vars

-----------------------------------------------------------------------------
(* An answer whose row was once written complete, with tokens or text, is  *)
(* charged, or a save is at work on it, or one of its charges was given    *)
(* up: the decisions of its saves, each on a row and a document another    *)
(* save may have written over, never add up to an answer nobody charges.   *)
(* A save that finds neither tokens nor text, because the answer is empty  *)
(* or another save emptied it, makes no answer in this sense: the code     *)
(* charges nothing for it.                                                 *)
FinishedCharged ==
    \A m \in unpaid : \E s \in Savers : Message(s) = m /\ Recorder(s)

(* A message saved many times, by savers that overlap with each other and  *)
(* with the bot, is never charged beyond its entry: what the quota counts  *)
(* has an entry, and so has all that has left the balance, but for top-ups *)
(* that came between a recorder's read and its commit.                     *)
NeverOvercharged ==
    /\ quota <= posted
    /\ Start + credited - exposed <= balance + debited
=============================================================================
