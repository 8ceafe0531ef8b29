------------------------------ MODULE CodexCalls ------------------------------
(***************************************************************************)
(* Calls to Codex accounts, and the usage that is recorded for them.       *)
(*                                                                         *)
(* A chat turn of the bot calls Codex through stream_codex_direct_completion*)
(* (agent_routes.py), which retries request_codex_completion (llm.py): a   *)
(* session of its own selects an account of the user's pool, runs the      *)
(* Codex program and writes the usage into the account row it had loaded.  *)
(* The turn's own session, open around all that, may hold SQLite's write   *)
(* lock: a photo's turn is offered no tools, so that nothing commits its   *)
(* flushed usage event until the answer is there, and the inner session    *)
(* waits for its own caller until SQLite's busy timeout.  The proxy        *)
(* (codex_proxy.py) runs Codex for HTTP clients, on any account; both its  *)
(* consumers leave the stream at [DONE], before the line that records.     *)
(*                                                                         *)
(* The five-hour and the weekly counter grow by the same amounts and are   *)
(* reset by an administrator only, so one counter and the smaller of the   *)
(* two effective limits stand for both.                                    *)
(***************************************************************************)
EXTENDS Integers, FiniteSets

CONSTANTS
    Turns,       \* chat turns and proxy requests
    Kind,        \* [Turns -> Kinds]
    Accounts,    \* Codex accounts; of one pool, which the turns' users have
    Capacity,    \* [Accounts -> Nat]: smaller effective limit, buffer deducted
    MaxTokens,   \* what one run of the program may consume at most
    HasFallback, \* the pool falls back to an executable model
    MaxRetries,  \* max_retries of stream_codex_direct_completion
    MaxRounds,   \* max_tool_iterations of stream_codex_direct_completion
    MaxRuns,     \* range(10) of request_codex_completion's tool loop
    NoTurn,      \* nobody holds the write lock
    NoAccount

Kinds == {"tools", "photo", "proxy"}

ASSUME KindAssumption == Kind \in [Turns -> Kinds]
ASSUME CapacityAssumption == Capacity \in [Accounts -> Nat]
ASSUME TokensAssumption == MaxTokens \in Nat \ {0}
ASSUME FallbackAssumption == HasFallback \in BOOLEAN
ASSUME BoundsAssumption ==
    MaxRetries \in Nat /\ MaxRounds \in Nat /\ MaxRuns \in Nat \ {0}
ASSUME NobodyAssumption == NoTurn \notin Turns /\ NoAccount \notin Accounts

VARIABLES
    used,        \* codex_accounts.five_hour_used = weekly_used, as committed
    consumed,    \* the tokens of every run, as they are reckoned for billing
    limited,     \* accounts with status "limited"
    loggedOut,   \* accounts whose auth_status is not "authenticated"
    writer,      \* the turn whose session holds the write lock
    turn         \* the state of each turn

vars == <<used, consumed, limited, loggedOut, writer, turn>>

(* "calling": an attempt begins; "running": an account is selected and     *)
(* loaded; "executed": the program has answered, its usage is not written; *)
(* "recorded": it is; "replying": the answer is ready, the charge is not   *)
(* committed; "erring": the retries are used up.  attempt counts failed    *)
(* requests, round repeated ones, run the runs within one, and calls all   *)
(* runs of the program for the turn.                                       *)
Waiting == {"calling", "running", "executed", "recorded", "replying", "erring"}
Over == {"answered", "failed", "crashed"}

TurnState ==
    [pc : {"new"} \cup Waiting \cup Over, account : Accounts \cup {NoAccount},
     loaded : Nat, tokens : Nat, attempt : Nat, round : Nat, run : Nat,
     calls : Nat]

Fresh == [pc |-> "new", account |-> NoAccount, loaded |-> 0, tokens |-> 0,
          attempt |-> 0, round |-> 0, run |-> 0, calls |-> 0]

TypeOK ==
    /\ used \in [Accounts -> Nat]
    /\ consumed \in [Accounts -> Nat]
    /\ limited \subseteq Accounts
    /\ loggedOut \subseteq Accounts
    /\ writer \in Turns \cup {NoTurn}
    /\ turn \in [Turns -> TurnState]

-----------------------------------------------------------------------------
Usable == Accounts \ (limited \cup loggedOut)

Remaining(a) == Capacity[a] - used[a]

(* select_codex_account_for_subscription: accounts with capacity left, the *)
(* largest remaining one first (ties by last use and id are left open).    *)
UsableAnyway == {a \in Usable : Remaining(a) >= 0}
WithCapacity == {a \in Usable : Remaining(a) > 0}
Largest == {a \in WithCapacity : \A b \in WithCapacity : Remaining(b) <= Remaining(a)}

(* The proxy has no user: select_codex_account takes any usable account.   *)
Candidates(t) == IF Kind[t] = "proxy" THEN Usable ELSE Largest

(* The inner session is over with the call it served.                      *)
Closed(x, pc) == [x EXCEPT !.pc = pc, !.account = NoAccount, !.loaded = 0,
                           !.tokens = 0, !.run = 0]

Goto(t, pc) == turn' = [turn EXCEPT ![t] = Closed(turn[t], pc)]

(* The lock is released with the turn's own session.                       *)
LockAfter(t) == IF writer = t THEN NoTurn ELSE writer

(* An attempt of a chat fails: it is repeated, or the last error reported. *)
Retried(x) ==
    [Closed(x, IF x.attempt < MaxRetries THEN "calling" ELSE "erring")
        EXCEPT !.attempt = @ + 1]

RetryForever(t) == Kind[t] # "proxy" /\ Goto(t, "calling")
AttemptFails(t) ==
    /\ Kind[t] # "proxy"
    /\ turn' = [turn EXCEPT ![t] = Retried(turn[t])]

RequestFails(t) ==
    \/ AttemptFails(t)
    \/ Kind[t] = "proxy" /\ Goto(t, "failed")

-----------------------------------------------------------------------------
Init ==
    /\ used = [a \in Accounts |-> 0]
    /\ consumed = [a \in Accounts |-> 0]
    /\ limited = {}
    /\ loggedOut = {}
    /\ writer = NoTurn
    /\ turn = [t \in Turns |-> Fresh]

(* The usage event is flushed; get_chat_tools commits it when tools are    *)
(* offered.                                                                *)
Begin(t) ==
    /\ turn[t].pc = "new"
    /\ Kind[t] # "proxy" => writer = NoTurn
    /\ writer' = IF Kind[t] = "photo" THEN t ELSE writer
    /\ Goto(t, "calling")
    /\ UNCHANGED <<used, consumed, limited, loggedOut>>

Loading(x, a) == [x EXCEPT !.pc = "running", !.account = a, !.loaded = used[a]]

Select(t) ==
    /\ turn[t].pc = "calling"
    /\ \E a \in Candidates(t) :
          turn' = [turn EXCEPT ![t] = Loading(turn[t], a)]
    /\ UNCHANGED <<used, consumed, limited, loggedOut, writer>>

(* No account has capacity: the fallback model answers (or fails as an     *)
(* attempt), or the capacity error is an attempt that failed.              *)
NoneAvailable(t) ==
    /\ turn[t].pc = "calling"
    /\ Candidates(t) = {}
    /\ \/ HasFallback /\ Kind[t] # "proxy" /\ Goto(t, "replying")
       \/ RequestFails(t)
    /\ UNCHANGED <<used, consumed, limited, loggedOut, writer>>

(* The login check finds the account logged out, or a run ends with "usage *)
(* limit" (chat only); the column is committed first.                      *)
LoginLost(t) ==
    /\ turn[t].pc = "running" /\ turn[t].run = 0
    /\ writer = NoTurn
    /\ loggedOut' = loggedOut \cup {turn[t].account}
    /\ RequestFails(t)
    /\ UNCHANGED <<used, consumed, limited, writer>>

LimitReached(t) ==
    /\ turn[t].pc = "running"
    /\ writer = NoTurn
    /\ limited' = limited \cup {turn[t].account}
    /\ AttemptFails(t)
    /\ UNCHANGED <<used, consumed, loggedOut, writer>>

(* The user's subscription has ended or its pool is disabled.              *)
NotEntitled(t) ==
    /\ turn[t].pc = "calling"
    /\ AttemptFails(t)
    /\ UNCHANGED <<used, consumed, limited, loggedOut, writer>>

(* The program fails without an answer.                                    *)
ExecFails(t) ==
    /\ turn[t].pc = "running"
    /\ RequestFails(t)
    /\ UNCHANGED <<used, consumed, limited, loggedOut, writer>>

Answered(x, n) == [x EXCEPT !.pc = "executed", !.tokens = @ + n, !.run = @ + 1,
                            !.calls = @ + 1]

(* n tokens as the code reckons them: the program's count, the estimate    *)
(* from the history when that is higher, and at least one.                 *)
Execute(t) ==
    /\ turn[t].pc = "running"
    /\ \E n \in 1 .. MaxTokens :
          /\ consumed' = [consumed EXCEPT ![turn[t].account] = @ + n]
          /\ turn' = [turn EXCEPT ![t] = Answered(turn[t], n)]
    /\ UNCHANGED <<used, limited, loggedOut, writer>>

(* The answer asks for a tool: execute_tool_call commits its row in the    *)
(* inner session, and its result is the next prompt.                       *)
RunTool(t) ==
    /\ turn[t].pc = "executed"
    /\ Kind[t] # "proxy"
    /\ writer = NoTurn
    /\ turn[t].run < MaxRuns
    /\ turn' = [turn EXCEPT ![t].pc = "running"]
    /\ UNCHANGED <<used, consumed, limited, loggedOut, writer>>

(* record_codex_account_usage: the counter becomes what the session loaded *)
(* plus the tokens; status and another session's logout stay as they are.  *)
CapacityWritten(t) == turn[t].loaded - turn[t].tokens
UsageAndRetries(t) == turn[t].loaded + turn[t].tokens * (turn[t].attempt + 1)
UsageWritten(t) == turn[t].loaded + turn[t].tokens

Record(t) ==
    /\ turn[t].pc = "executed"
    /\ Kind[t] # "proxy"
    /\ writer = NoTurn
    /\ used' = [used EXCEPT ![turn[t].account] = UsageWritten(t)]
    /\ Goto(t, "recorded")
    /\ UNCHANGED <<consumed, limited, loggedOut, writer>>

(* The answer still asks for a tool: the caller runs it and asks again.    *)
AskAgain(t) ==
    /\ turn[t].pc = "recorded"
    /\ turn[t].round < MaxRounds
    /\ turn' = [turn EXCEPT ![t].pc = "calling", ![t].round = @ + 1]
    /\ UNCHANGED <<used, consumed, limited, loggedOut, writer>>

Compose(t) ==
    /\ turn[t].pc = "recorded"
    /\ Goto(t, "replying")
    /\ UNCHANGED <<used, consumed, limited, loggedOut, writer>>

(* The turn's own session charges the chat and commits.                    *)
Reply(t) ==
    /\ turn[t].pc = "replying"
    /\ writer \in {t, NoTurn}
    /\ writer' = LockAfter(t)
    /\ Goto(t, "answered")
    /\ UNCHANGED <<used, consumed, limited, loggedOut>>

(* The usage event becomes "failed".                                       *)
ReportError(t) ==
    /\ turn[t].pc = "erring"
    /\ writer \in {t, NoTurn}
    /\ writer' = LockAfter(t)
    /\ Goto(t, "failed")
    /\ UNCHANGED <<used, consumed, limited, loggedOut>>

(* The proxy's consumer has the whole answer.                              *)
Stream(t) ==
    /\ turn[t].pc = "executed"
    /\ Kind[t] = "proxy"
    /\ Goto(t, "answered")
    /\ UNCHANGED <<used, consumed, limited, loggedOut, writer>>

(* "database is locked": 30 s have passed.  An inner session's error is a  *)
(* failed attempt, also when the lock is its own caller's; the outer one's *)
(* ends the turn.                                                          *)
LockNeverRefused(t) == FALSE /\ UNCHANGED vars
LockRefused(t) ==
    /\ writer # NoTurn
    /\ \/ turn[t].pc \in {"running", "executed"} /\ AttemptFails(t)
       \/ /\ writer # t
          /\ turn[t].pc \in {"new", "replying", "erring"}
          /\ Kind[t] # "proxy"
          /\ Goto(t, "failed")
    /\ UNCHANGED <<used, consumed, limited, loggedOut, writer>>

(* The task is cancelled or the process dies.                              *)
Crash(t) ==
    /\ turn[t].pc \in Waiting
    /\ writer' = LockAfter(t)
    /\ Goto(t, "crashed")
    /\ UNCHANGED <<used, consumed, limited, loggedOut>>

Advance(t) ==
    \/ Select(t)
    \/ NoneAvailable(t)
    \/ NotEntitled(t)
    \/ LoginLost(t)
    \/ LimitReached(t)
    \/ ExecFails(t)
    \/ Execute(t)
    \/ RunTool(t)
    \/ Record(t)
    \/ AskAgain(t)
    \/ Compose(t)
    \/ Reply(t)
    \/ ReportError(t)
    \/ Stream(t)
    \/ LockRefused(t)

Finished ==
    /\ \A t \in Turns : turn[t].pc \in Over
    /\ UNCHANGED vars

Next ==
    \/ \E t \in Turns : Begin(t) \/ Advance(t) \/ Crash(t)
    \/ Finished

Spec == Init /\ [][Next]_vars

(* A started turn goes on: the Codex program ends within its own timeout   *)
(* and a lock is obtained or refused within SQLite's.                      *)
FairSpec == Spec /\ \A t \in Turns : WF_vars(Advance(t))

-----------------------------------------------------------------------------
(* No retry, no tool round and no stale row counts tokens twice: a counter *)
(* never exceeds what the runs of the program on that account amount to.   *)
NeverOvercounted == \A a \in Accounts : used[a] <= consumed[a]

(* However many turns share an account, its counter passes the effective   *)
(* limit by less than one request: each write starts from a row that still *)
(* had capacity.                                                           *)
WithinOneRequest ==
    \A a \in Accounts : used[a] < Capacity[a] + MaxRuns * MaxTokens

(* Retries, repeated requests and tool loops, each with a limit of its own *)
(* that survives the failures of the others, bound together how often one  *)
(* turn runs the program, also when its usage can never be written.        *)
MaxRequests == MaxRetries + MaxRounds + 1
CallsBounded == \A t \in Turns : turn[t].calls <= MaxRequests * MaxRuns

(* A turn that waits for the lock its own session holds is not stuck, and  *)
(* does not hold everybody else up for ever: each one ends.                *)
TurnsFinish == \A t \in Turns : turn[t].pc \in Waiting ~> turn[t].pc \in Over

(* codex-capacity-pools-design.md: "After a successful Codex CLI call,     *)
(* runtime usage is stored on the account and five-hour/weekly usage       *)
(* counters are incremented": with every turn over and none crashed, the   *)
(* counters have reached what the runs consumed.                           *)
SuccessfulCallsRecorded ==
    (\A t \in Turns : turn[t].pc \in {"answered", "failed"})
        => \A a \in Accounts : used[a] = consumed[a]
=============================================================================
