--------------------------- MODULE CodexCallsProofs ---------------------------
(* Theorems about CodexCalls, for any turns, accounts and limits.          *)
EXTENDS CodexCalls, TLAPS

-----------------------------------------------------------------------------
(* How often the program may run in i requests, and what a run may cost.   *)

Runs(i) == i * MaxRuns
Cost(i) == i * MaxTokens

(* i requests of MaxRuns runs each: one more adds MaxRuns.                 *)
LEMMA RunsFacts ==
    /\ MaxRuns \in Nat
    /\ \A i \in Nat : Runs(i) \in Nat /\ Runs(i + 1) = Runs(i) + MaxRuns
    /\ \A i, j \in Nat : i <= j => Runs(i) <= Runs(j)
BY BoundsAssumption DEF Runs

(* i runs of at most MaxTokens each.                                       *)
LEMMA CostFacts ==
    /\ MaxTokens \in Nat
    /\ Cost(0) = 0
    /\ \A i \in Nat : Cost(i) \in Nat /\ Cost(i + 1) = Cost(i) + MaxTokens
    /\ \A i, j \in Nat : i <= j => Cost(i) <= Cost(j)
BY TokensAssumption DEF Cost

-----------------------------------------------------------------------------
(* Of one turn: what its request has loaded is below capacity, and its     *)
(* tokens are among those consumed since; its counters bound its runs.     *)

Requesting(x) == x.pc \in {"running", "executed"}

LoadSound(t) ==
    Requesting(turn[t]) =>
        /\ turn[t].account \in Accounts
        /\ Kind[t] # "proxy" => turn[t].loaded < Capacity[turn[t].account]
        /\ turn[t].loaded + turn[t].tokens <= consumed[turn[t].account]
        /\ turn[t].tokens <= Cost(turn[t].run)

(* What a turn may still spend depends on how many requests have failed or *)
(* been repeated so far.                                                   *)
Spent(x) == x.attempt + x.round

CountsSound(x) ==
    /\ x.round <= MaxRounds
    /\ x.calls <= Runs(MaxRequests)
    /\ x.pc \in {"new", "calling", "running", "executed", "recorded"}
          => x.attempt <= MaxRetries
    /\ x.pc \in {"new", "calling"} => x.calls <= Runs(Spent(x))
    /\ Requesting(x) => x.run <= MaxRuns /\ x.calls <= Runs(Spent(x)) + x.run
    /\ x.pc = "running" => x.run < MaxRuns
    /\ ~Requesting(x) => x.run = 0 /\ x.tokens = 0
    /\ x.pc = "recorded" => x.calls <= Runs(Spent(x) + 1)

CallsInv ==
    /\ TypeOK
    /\ NeverOvercounted
    /\ WithinOneRequest
    /\ \A t \in Turns : LoadSound(t) /\ CountsSound(turn[t])

LEMMA BoundFacts ==
    /\ MaxRetries \in Nat /\ MaxRounds \in Nat /\ MaxRequests \in Nat
    /\ MaxRequests = MaxRetries + MaxRounds + 1
    /\ MaxRuns \in Nat /\ MaxRuns > 0
BY BoundsAssumption DEF MaxRequests

(* An unfinished request or a repeated one stays within the budget.        *)
LEMMA BudgetFacts ==
    ASSUME NEW x \in TurnState, CountsSound(x), x.attempt <= MaxRetries
    PROVE  /\ Spent(x) \in Nat
           /\ Runs(Spent(x) + 1) = Runs(Spent(x)) + MaxRuns
           /\ Runs(Spent(x)) \in Nat
           /\ Runs(Spent(x) + 1) <= Runs(MaxRequests)
<1>1. /\ Spent(x) \in Nat /\ Spent(x) + 1 \in Nat
      /\ Spent(x) + 1 <= MaxRequests
  BY BoundFacts DEF TurnState, CountsSound, Spent
<1> QED
  BY <1>1, RunsFacts, BoundFacts

-----------------------------------------------------------------------------
(* A step of one turn that leaves consumed as it is, or lets it grow.      *)

LEMMA OthersKept ==
    ASSUME CallsInv, NEW t \in Turns, NEW x \in TurnState,
           turn' = [turn EXCEPT ![t] = x],
           consumed' \in [Accounts -> Nat],
           \A a \in Accounts : consumed[a] <= consumed'[a],
           CountsSound(x), LoadSound(t)'
    PROVE  /\ turn' \in [Turns -> TurnState]
           /\ \A s \in Turns : LoadSound(s)' /\ CountsSound(turn'[s])
<1>1. /\ turn' \in [Turns -> TurnState] /\ turn'[t] = x
      /\ \A s \in Turns : s # t => turn'[s] = turn[s]
  BY DEF CallsInv, TypeOK
<1>2. ASSUME NEW s \in Turns
      PROVE  LoadSound(s)' /\ CountsSound(turn'[s])
  <2>1. CASE s = t
    BY <1>1, <2>1
  <2>2. CASE s # t
    <3>1. turn'[s] = turn[s] /\ turn[s] \in TurnState
      BY <1>1, <2>2 DEF CallsInv, TypeOK
    <3>2. LoadSound(s) /\ CountsSound(turn[s])
      BY DEF CallsInv
    <3>3. LoadSound(s)'
      BY <3>1, <3>2 DEF LoadSound, Requesting, CallsInv, TypeOK, TurnState
    <3> QED
      BY <3>1, <3>2, <3>3
  <2> QED
    BY <2>1, <2>2
<1> QED
  BY <1>1, <1>2

PCs == {"new"} \cup Waiting \cup Over

LEMMA ClosedFacts ==
    ASSUME NEW x \in TurnState, NEW pc \in PCs
    PROVE  /\ Closed(x, pc) \in TurnState /\ Closed(x, pc).pc = pc
           /\ Closed(x, pc).attempt = x.attempt /\ Closed(x, pc).round = x.round
           /\ Closed(x, pc).calls = x.calls
           /\ Closed(x, pc).run = 0 /\ Closed(x, pc).tokens = 0
BY DEF Closed, TurnState, PCs

LEMMA RetriedFacts ==
    ASSUME NEW x \in TurnState
    PROVE  /\ Retried(x) \in TurnState
           /\ Retried(x).pc = IF x.attempt < MaxRetries THEN "calling" ELSE "erring"
           /\ Retried(x).attempt = x.attempt + 1 /\ Retried(x).round = x.round
           /\ Retried(x).calls = x.calls
           /\ Retried(x).run = 0 /\ Retried(x).tokens = 0
<1> DEFINE pc == IF x.attempt < MaxRetries THEN "calling" ELSE "erring"
           y == Closed(x, pc)
<1>1. pc \in PCs
  BY DEF PCs, Waiting
<1>2. /\ y \in TurnState /\ y.pc = pc /\ y.attempt = x.attempt
      /\ y.round = x.round /\ y.calls = x.calls /\ y.run = 0 /\ y.tokens = 0
  BY <1>1, ClosedFacts
<1>3. Retried(x) = [y EXCEPT !.attempt = @ + 1]
  BY DEF Retried
<1> HIDE DEF y, pc
<1> QED
  BY <1>2, <1>3 DEF TurnState, pc

LEMMA AnsweredFacts ==
    ASSUME NEW x \in TurnState, NEW n \in Nat
    PROVE  /\ Answered(x, n) \in TurnState /\ Answered(x, n).pc = "executed"
           /\ Answered(x, n).account = x.account
           /\ Answered(x, n).loaded = x.loaded
           /\ Answered(x, n).tokens = x.tokens + n
           /\ Answered(x, n).run = x.run + 1
           /\ Answered(x, n).attempt = x.attempt
           /\ Answered(x, n).round = x.round
           /\ Answered(x, n).calls = x.calls + 1
<1> DEFINE y == Answered(x, n)
<1>1. /\ x.tokens + n \in Nat /\ x.run + 1 \in Nat /\ x.calls + 1 \in Nat
      /\ "executed" \in {"new"} \cup Waiting \cup Over
  BY DEF TurnState, Waiting
<1>2. ASSUME NEW pc, NEW tokens, NEW run, NEW calls,
             pc \in {"new"} \cup Waiting \cup Over,
             tokens \in Nat, run \in Nat, calls \in Nat
      PROVE  [x EXCEPT !.pc = pc, !.tokens = tokens, !.run = run, !.calls = calls]
                \in TurnState
  BY <1>2 DEF TurnState
<1>3. y = [x EXCEPT !.pc = "executed", !.tokens = x.tokens + n,
                    !.run = x.run + 1, !.calls = x.calls + 1]
  BY DEF Answered
<1> HIDE DEF y
<1>4. y \in TurnState
  <2>1. [x EXCEPT !.pc = "executed", !.tokens = x.tokens + n,
                  !.run = x.run + 1, !.calls = x.calls + 1] \in TurnState
    BY <1>1, <1>2, Zenon
  <2> QED
    BY <1>3, <2>1
<1>5. /\ y.pc = "executed" /\ y.account = x.account /\ y.loaded = x.loaded
      /\ y.tokens = x.tokens + n /\ y.run = x.run + 1
      /\ y.attempt = x.attempt /\ y.round = x.round /\ y.calls = x.calls + 1
  BY <1>3 DEF TurnState
<1> QED
  BY <1>4, <1>5 DEF y

LEMMA LoadingFacts ==
    ASSUME NEW x \in TurnState, NEW a \in Accounts, used[a] \in Nat
    PROVE  /\ Loading(x, a) \in TurnState /\ Loading(x, a).pc = "running"
           /\ Loading(x, a).account = a /\ Loading(x, a).loaded = used[a]
           /\ Loading(x, a).tokens = x.tokens /\ Loading(x, a).run = x.run
           /\ Loading(x, a).attempt = x.attempt
           /\ Loading(x, a).round = x.round
           /\ Loading(x, a).calls = x.calls
<1> DEFINE u == used[a]
<1>1. "running" \in {"new"} \cup Waiting \cup Over
  BY DEF Waiting
<1>2. Loading(x, a) = [x EXCEPT !.pc = "running", !.account = a, !.loaded = u]
  BY DEF Loading
<1>3. u \in Nat
  OBVIOUS
<1> HIDE DEF u
<1>4. Loading(x, a) \in TurnState
  BY <1>1, <1>2, <1>3 DEF TurnState
<1> QED
  BY <1>2, <1>4 DEF TurnState, u

(* A turn that stops requesting keeps its counters within their bounds.    *)
LEMMA GotoKeeps ==
    ASSUME CallsInv, NEW t \in Turns, consumed' = consumed,
           NEW pc \in {"calling", "recorded", "replying", "answered", "failed",
                       "crashed"},
           Goto(t, pc),
           pc = "calling" => turn[t].pc = "new",
           pc = "recorded" => turn[t].pc = "executed"
    PROVE  /\ turn' \in [Turns -> TurnState]
           /\ \A s \in Turns : LoadSound(s)' /\ CountsSound(turn'[s])
<1> DEFINE x == turn[t]
           y == Closed(x, pc)
<1>1. x \in TurnState /\ CountsSound(x) /\ turn \in [Turns -> TurnState]
  BY DEF CallsInv, TypeOK
<1>2. turn' = [turn EXCEPT ![t] = y]
  BY DEF Goto
<1>3. /\ y \in TurnState /\ y.pc = pc /\ y.attempt = x.attempt
      /\ y.round = x.round /\ y.calls = x.calls /\ y.run = 0 /\ y.tokens = 0
  BY <1>1, ClosedFacts DEF PCs, Waiting, Over
<1>4. turn'[t] = y
  BY <1>1, <1>2
<1> HIDE DEF y
<1>5. LoadSound(t)'
  BY <1>3, <1>4 DEF LoadSound, Requesting
<1>6. pc = "recorded" => y.calls <= Runs(Spent(y) + 1)
  <2> SUFFICES ASSUME pc = "recorded" PROVE y.calls <= Runs(Spent(y) + 1)
    OBVIOUS
  <2>1. x.attempt <= MaxRetries /\ x.run <= MaxRuns
        /\ x.calls <= Runs(Spent(x)) + x.run
    BY <1>1 DEF CountsSound, Requesting
  <2>2. Runs(Spent(x) + 1) = Runs(Spent(x)) + MaxRuns /\ Runs(Spent(x)) \in Nat
    BY <1>1, <2>1, BudgetFacts
  <2>3. Spent(y) = Spent(x)
    BY <1>3 DEF Spent
  <2> HIDE DEF x
  <2> QED
    BY <1>1, <1>3, <2>1, <2>2, <2>3, BoundFacts DEF TurnState
<1>7. CountsSound(y)
  BY <1>1, <1>3, <1>6 DEF CountsSound, Requesting, Spent
<1>8. /\ consumed' \in [Accounts -> Nat]
      /\ \A a \in Accounts : consumed[a] <= consumed'[a]
  BY DEF CallsInv, TypeOK
<1> HIDE DEF x
<1> QED
  BY <1>2, <1>3, <1>5, <1>7, <1>8, OthersKept

LEMMA AttemptKeeps ==
    ASSUME CallsInv, NEW t \in Turns, consumed' = consumed,
           turn[t].pc \in {"calling", "running", "executed"},
           AttemptFails(t)
    PROVE  /\ turn' \in [Turns -> TurnState]
           /\ \A s \in Turns : LoadSound(s)' /\ CountsSound(turn'[s])
<1> DEFINE x == turn[t]
           y == Retried(x)
<1>1. x \in TurnState /\ CountsSound(x) /\ turn \in [Turns -> TurnState]
  BY DEF CallsInv, TypeOK
<1>2. turn' = [turn EXCEPT ![t] = y]
  BY DEF AttemptFails
<1>3. /\ y \in TurnState
      /\ y.pc = IF x.attempt < MaxRetries THEN "calling" ELSE "erring"
      /\ y.attempt = x.attempt + 1 /\ y.round = x.round /\ y.calls = x.calls
      /\ y.run = 0 /\ y.tokens = 0
  BY <1>1, RetriedFacts
<1>4. turn'[t] = y
  BY <1>1, <1>2
<1> HIDE DEF y
<1>5. LoadSound(t)'
  BY <1>3, <1>4 DEF LoadSound, Requesting
<1>6. /\ x.attempt <= MaxRetries
      /\ x.calls <= Runs(Spent(x)) + MaxRuns
  <2>1. x.run \in Nat /\ x.calls \in Nat
    BY <1>1 DEF TurnState
  <2>2. /\ x.attempt <= MaxRetries /\ Spent(x) \in Nat /\ Runs(Spent(x)) \in Nat
    BY <1>1, BudgetFacts DEF CountsSound, Requesting
  <2>3. x.calls <= Runs(Spent(x)) \/ (x.run <= MaxRuns /\ x.calls <= Runs(Spent(x)) + x.run)
    BY <1>1 DEF CountsSound, Requesting
  <2> HIDE DEF x
  <2> QED
    BY <2>1, <2>2, <2>3, BoundFacts
<1>7. Runs(Spent(x) + 1) = Runs(Spent(x)) + MaxRuns /\ Spent(x) \in Nat
  BY <1>1, <1>6, BudgetFacts
<1>8. Spent(y) = Spent(x) + 1
  BY <1>1, <1>3 DEF Spent, TurnState
<1>9. y.calls <= Runs(Spent(y))
  BY <1>3, <1>6, <1>7, <1>8
<1>10. CountsSound(y)
  BY <1>1, <1>3, <1>9, BoundFacts DEF CountsSound, Requesting, TurnState
<1>11. /\ consumed' \in [Accounts -> Nat]
       /\ \A a \in Accounts : consumed[a] <= consumed'[a]
  BY DEF CallsInv, TypeOK
<1> HIDE DEF x
<1> QED
  BY <1>2, <1>3, <1>5, <1>10, <1>11, OthersKept

LEMMA RequestKeeps ==
    ASSUME CallsInv, NEW t \in Turns, consumed' = consumed,
           turn[t].pc \in {"calling", "running", "executed"},
           RequestFails(t)
    PROVE  /\ turn' \in [Turns -> TurnState]
           /\ \A s \in Turns : LoadSound(s)' /\ CountsSound(turn'[s])
BY AttemptKeeps, GotoKeeps DEF RequestFails

-----------------------------------------------------------------------------
(* The steps that touch a request's own figures.                           *)

TurnsSound == /\ turn' \in [Turns -> TurnState]
              /\ \A s \in Turns : LoadSound(s)' /\ CountsSound(turn'[s])

LEMMA SelectKeeps ==
    ASSUME CallsInv, NEW t \in Turns, Select(t)
    PROVE  TurnsSound
<1>1. PICK a \in Candidates(t) : turn' = [turn EXCEPT ![t] = Loading(turn[t], a)]
  BY DEF Select
<1> DEFINE x == turn[t]
           y == Loading(x, a)
<1>2. x \in TurnState /\ CountsSound(x) /\ x.pc = "calling"
  BY DEF CallsInv, TypeOK, Select
<1>3. /\ a \in Accounts /\ used[a] \in Nat /\ used[a] <= consumed[a]
      /\ consumed[a] \in Nat /\ consumed' = consumed
      /\ Kind[t] # "proxy" => used[a] < Capacity[a]
  BY CapacityAssumption DEF Candidates, Largest, WithCapacity, Usable, Remaining,
     CallsInv, TypeOK, NeverOvercounted, Select
<1>4. /\ y \in TurnState /\ y.pc = "running" /\ y.account = a
      /\ y.loaded = used[a] /\ y.tokens = 0 /\ y.run = 0
      /\ y.attempt = x.attempt /\ y.round = x.round /\ y.calls = x.calls
  BY <1>2, <1>3, LoadingFacts DEF CountsSound, Requesting
<1>5. turn' = [turn EXCEPT ![t] = y] /\ turn'[t] = y
  BY <1>1 DEF CallsInv, TypeOK
<1> HIDE DEF y
<1>6. LoadSound(t)'
  <2>1. y.loaded + y.tokens <= consumed'[a] /\ y.tokens <= Cost(y.run)
    BY <1>3, <1>4, CostFacts
  <2> HIDE DEF x
  <2> QED
    BY <1>3, <1>4, <1>5, <2>1 DEF LoadSound
<1>7. Runs(Spent(x)) \in Nat /\ x.attempt <= MaxRetries
  BY <1>2, BudgetFacts DEF CountsSound
<1>8. CountsSound(y)
  BY <1>2, <1>4, <1>7, BoundFacts DEF CountsSound, Requesting, Spent, TurnState
<1>9. /\ consumed' \in [Accounts -> Nat]
      /\ \A b \in Accounts : consumed[b] <= consumed'[b]
  BY <1>3 DEF CallsInv, TypeOK
<1> HIDE DEF x
<1> QED
  BY <1>4, <1>5, <1>6, <1>8, <1>9, OthersKept DEF TurnsSound

LEMMA ExecuteKeeps ==
    ASSUME CallsInv, NEW t \in Turns, Execute(t)
    PROVE  /\ TurnsSound
           /\ consumed' \in [Accounts -> Nat]
           /\ \A b \in Accounts : consumed[b] <= consumed'[b]
<1> DEFINE x == turn[t]
           a == x.account
<1>1. PICK n \in 1 .. MaxTokens :
         /\ consumed' = [consumed EXCEPT ![a] = @ + n]
         /\ turn' = [turn EXCEPT ![t] = Answered(turn[t], n)]
  BY DEF Execute
<1> DEFINE y == Answered(x, n)
<1>2. /\ x \in TurnState /\ CountsSound(x) /\ x.pc = "running" /\ LoadSound(t)
      /\ turn \in [Turns -> TurnState]
  BY DEF CallsInv, TypeOK, Execute
<1>3. /\ a \in Accounts /\ consumed[a] \in Nat /\ n \in Nat /\ n <= MaxTokens
      /\ Kind[t] # "proxy" => x.loaded < Capacity[a]
      /\ x.loaded + x.tokens <= consumed[a] /\ x.tokens <= Cost(x.run)
  BY <1>2, TokensAssumption DEF LoadSound, Requesting, CallsInv, TypeOK
<1>4. /\ y \in TurnState /\ y.pc = "executed" /\ y.account = a
      /\ y.loaded = x.loaded /\ y.tokens = x.tokens + n /\ y.run = x.run + 1
      /\ y.attempt = x.attempt /\ y.round = x.round /\ y.calls = x.calls + 1
      /\ x.run \in Nat /\ x.tokens \in Nat /\ x.loaded \in Nat /\ x.calls \in Nat
  BY <1>2, <1>3, AnsweredFacts DEF TurnState
<1>5. turn' = [turn EXCEPT ![t] = y] /\ turn'[t] = y
  BY <1>1, <1>2
<1>6. consumed' \in [Accounts -> Nat] /\ consumed'[a] = consumed[a] + n
      /\ \A b \in Accounts : consumed[b] <= consumed'[b]
  BY <1>1, <1>3 DEF CallsInv, TypeOK
<1> HIDE DEF y
<1>7. y.tokens <= Cost(y.run)
  <2>1. /\ Cost(x.run) \in Nat /\ Cost(x.run + 1) = Cost(x.run) + MaxTokens
        /\ MaxTokens \in Nat
    BY <1>4, CostFacts
  <2>2. x.tokens + n <= Cost(x.run) + MaxTokens
    BY <1>3, <1>4, <2>1
  <2> QED
    BY <1>4, <2>1, <2>2
<1>8. LoadSound(t)'
  BY <1>3, <1>4, <1>5, <1>6, <1>7 DEF LoadSound
<1>9. /\ Runs(Spent(x)) \in Nat /\ x.attempt <= MaxRetries
      /\ x.run < MaxRuns /\ x.calls <= Runs(Spent(x)) + x.run
      /\ Runs(Spent(x)) + MaxRuns <= Runs(MaxRequests)
      /\ Runs(MaxRequests) \in Nat
  BY <1>2, BudgetFacts, BoundFacts, RunsFacts DEF CountsSound, Requesting
<1>10. /\ y.calls <= Runs(MaxRequests) /\ y.run <= MaxRuns
       /\ y.calls <= Runs(Spent(y)) + y.run
  <2>1. Spent(y) = Spent(x)
    BY <1>4 DEF Spent
  <2> HIDE DEF x
  <2> QED
    BY <1>4, <1>9, <2>1, BoundFacts
<1>11. CountsSound(y)
  BY <1>2, <1>4, <1>9, <1>10 DEF CountsSound, Requesting
<1> HIDE DEF x
<1> QED
  BY <1>4, <1>5, <1>6, <1>8, <1>11, OthersKept DEF TurnsSound

LEMMA RunToolKeeps ==
    ASSUME CallsInv, NEW t \in Turns, RunTool(t)
    PROVE  TurnsSound
<1> DEFINE x == turn[t]
           y == [x EXCEPT !.pc = "running"]
<1>1. /\ x \in TurnState /\ CountsSound(x) /\ x.pc = "executed" /\ LoadSound(t)
      /\ x.run < MaxRuns /\ turn \in [Turns -> TurnState] /\ consumed' = consumed
  BY DEF CallsInv, TypeOK, RunTool
<1>2. /\ y \in TurnState /\ y.pc = "running" /\ y.account = x.account
      /\ y.loaded = x.loaded /\ y.tokens = x.tokens /\ y.run = x.run
      /\ y.attempt = x.attempt /\ y.round = x.round /\ y.calls = x.calls
  BY <1>1 DEF TurnState, Waiting
<1>3. turn' = [turn EXCEPT ![t] = y] /\ turn'[t] = y
  BY <1>1 DEF RunTool
<1> HIDE DEF y
<1>4. LoadSound(t)'
  BY <1>1, <1>2, <1>3 DEF LoadSound, Requesting
<1>5. CountsSound(y)
  BY <1>1, <1>2 DEF CountsSound, Requesting, Spent
<1>6. /\ consumed' \in [Accounts -> Nat]
      /\ \A b \in Accounts : consumed[b] <= consumed'[b]
  BY <1>1 DEF CallsInv, TypeOK
<1> HIDE DEF x
<1> QED
  BY <1>2, <1>3, <1>4, <1>5, <1>6, OthersKept DEF TurnsSound

LEMMA AskAgainKeeps ==
    ASSUME CallsInv, NEW t \in Turns, AskAgain(t)
    PROVE  TurnsSound
<1> DEFINE x == turn[t]
           y == [x EXCEPT !.pc = "calling", !.round = @ + 1]
<1>1. /\ x \in TurnState /\ CountsSound(x) /\ x.pc = "recorded"
      /\ x.round < MaxRounds /\ turn \in [Turns -> TurnState]
      /\ consumed' = consumed
  BY DEF CallsInv, TypeOK, AskAgain
<1>2. /\ y \in TurnState /\ y.pc = "calling" /\ y.tokens = x.tokens
      /\ y.run = x.run /\ y.attempt = x.attempt /\ y.round = x.round + 1
      /\ y.calls = x.calls
  <2>1. x.round + 1 \in Nat /\ "calling" \in {"new"} \cup Waiting \cup Over
    BY <1>1 DEF TurnState, Waiting
  <2>2. ASSUME NEW round, round \in Nat, NEW pc,
               pc \in {"new"} \cup Waiting \cup Over
        PROVE  [x EXCEPT !.pc = pc, !.round = round] \in TurnState
    BY <1>1, <2>2 DEF TurnState
  <2>3. y \in TurnState
    BY <2>1, <2>2
  <2> HIDE DEF x
  <2> QED
    BY <1>1, <2>3 DEF TurnState
<1>3. turn' = [turn EXCEPT ![t] = y] /\ turn'[t] = y
  BY <1>1 DEF AskAgain
<1> HIDE DEF y
<1>4. LoadSound(t)'
  BY <1>2, <1>3 DEF LoadSound, Requesting
<1>5. y.calls <= Runs(Spent(y))
  <2>1. Spent(y) = Spent(x) + 1
    BY <1>1, <1>2 DEF Spent, TurnState
  <2> QED
    BY <1>1, <1>2, <2>1 DEF CountsSound
<1>6. CountsSound(y)
  BY <1>1, <1>2, <1>5, BoundFacts DEF CountsSound, Requesting, TurnState
<1>7. /\ consumed' \in [Accounts -> Nat]
      /\ \A b \in Accounts : consumed[b] <= consumed'[b]
  BY <1>1 DEF CallsInv, TypeOK
<1> HIDE DEF x
<1> QED
  BY <1>2, <1>3, <1>4, <1>6, <1>7, OthersKept DEF TurnsSound

-----------------------------------------------------------------------------
(* The usage that is written started below capacity and was consumed.      *)
LEMMA RecordKeeps ==
    ASSUME CallsInv, NEW t \in Turns, Record(t)
    PROVE  /\ TurnsSound
           /\ used' \in [Accounts -> Nat]
           /\ NeverOvercounted' /\ WithinOneRequest'
<1> DEFINE a == turn[t].account
           n == turn[t].loaded + turn[t].tokens
<1>1. /\ turn[t] \in TurnState /\ turn[t].pc = "executed" /\ LoadSound(t)
      /\ CountsSound(turn[t]) /\ Kind[t] # "proxy"
      /\ consumed' = consumed /\ Goto(t, "recorded")
      /\ used' = [used EXCEPT ![a] = n]
  BY DEF CallsInv, TypeOK, Record, UsageWritten
<1>2. TurnsSound
  BY <1>1, GotoKeeps DEF TurnsSound
<1>3. /\ a \in Accounts /\ n \in Nat /\ n <= consumed[a]
  BY <1>1 DEF LoadSound, Requesting, TurnState
<1>4. n < Capacity[a] + MaxRuns * MaxTokens
  <2>1. /\ turn[t].loaded < Capacity[a] /\ turn[t].loaded \in Nat
        /\ turn[t].tokens <= Cost(turn[t].run) /\ turn[t].tokens \in Nat
        /\ turn[t].run \in Nat /\ turn[t].run <= MaxRuns
    BY <1>1 DEF LoadSound, CountsSound, Requesting, TurnState
  <2>2. Cost(turn[t].run) <= Cost(MaxRuns) /\ Cost(MaxRuns) \in Nat
        /\ Cost(turn[t].run) \in Nat
    BY <2>1, CostFacts, BoundFacts
  <2>3. Cost(MaxRuns) = MaxRuns * MaxTokens
    BY DEF Cost
  <2>4. Capacity[a] \in Nat
    BY <1>3, CapacityAssumption
  <2> HIDE DEF a
  <2>5. turn[t].loaded + turn[t].tokens < Capacity[a] + Cost(MaxRuns)
    BY <2>1, <2>2, <2>4
  <2> QED
    BY <2>3, <2>5
<1> HIDE DEF a, n
<1>5. used' \in [Accounts -> Nat]
  BY <1>1, <1>3 DEF CallsInv, TypeOK
<1>6. NeverOvercounted' /\ WithinOneRequest'
  BY <1>1, <1>3, <1>4 DEF NeverOvercounted, WithinOneRequest, CallsInv, TypeOK
<1> QED
  BY <1>2, <1>5, <1>6

(* When no usage is written, more consumption changes neither bound.       *)
LEMMA CountersKept ==
    ASSUME CallsInv, used' = used, consumed' \in [Accounts -> Nat],
           \A b \in Accounts : consumed[b] <= consumed'[b]
    PROVE  /\ used' \in [Accounts -> Nat]
           /\ NeverOvercounted' /\ WithinOneRequest'
BY DEF CallsInv, TypeOK, NeverOvercounted, WithinOneRequest

LEMMA AdvanceTurns ==
    ASSUME CallsInv, NEW t \in Turns, Advance(t)
    PROVE  TurnsSound
<1>1. CASE Select(t) BY <1>1, SelectKeeps
<1>2. CASE Execute(t) BY <1>2, ExecuteKeeps
<1>3. CASE RunTool(t) BY <1>3, RunToolKeeps
<1>4. CASE Record(t) BY <1>4, RecordKeeps
<1>5. CASE AskAgain(t) BY <1>5, AskAgainKeeps
<1>6. CASE NoneAvailable(t)
  BY <1>6, RequestKeeps, GotoKeeps DEF NoneAvailable, TurnsSound
<1>7. CASE NotEntitled(t) \/ LimitReached(t)
  BY <1>7, AttemptKeeps DEF NotEntitled, LimitReached, TurnsSound
<1>8. CASE LoginLost(t) \/ ExecFails(t)
  BY <1>8, RequestKeeps DEF LoginLost, ExecFails, TurnsSound
<1>9. CASE Compose(t) \/ Reply(t) \/ ReportError(t) \/ Stream(t)
  BY <1>9, GotoKeeps DEF Compose, Reply, ReportError, Stream, TurnsSound
<1>10. CASE LockRefused(t)
  BY <1>10, AttemptKeeps, GotoKeeps DEF LockRefused, TurnsSound
<1> QED
  BY <1>1, <1>2, <1>3, <1>4, <1>5, <1>6, <1>7, <1>8, <1>9, <1>10 DEF Advance

LEMMA AdvanceCounters ==
    ASSUME CallsInv, NEW t \in Turns, Advance(t)
    PROVE  /\ used' \in [Accounts -> Nat] /\ consumed' \in [Accounts -> Nat]
           /\ NeverOvercounted' /\ WithinOneRequest'
<1>1. CASE Record(t)
  BY <1>1, RecordKeeps DEF Record, CallsInv, TypeOK
<1>2. CASE Execute(t)
  BY <1>2, ExecuteKeeps, CountersKept DEF Execute
<1>3. CASE ~Record(t) /\ ~Execute(t)
  <2>1. used' = used /\ consumed' = consumed
    BY <1>3 DEF Advance, Select, NoneAvailable, NotEntitled, LoginLost,
                LimitReached, ExecFails, RunTool, AskAgain, Compose, Reply,
                ReportError, Stream, LockRefused
  <2>2. /\ consumed' \in [Accounts -> Nat]
        /\ \A b \in Accounts : consumed[b] <= consumed'[b]
    BY <2>1 DEF CallsInv, TypeOK
  <2> QED
    BY <2>1, <2>2, CountersKept
<1> QED
  BY <1>1, <1>2, <1>3

LEMMA AdvanceSets ==
    ASSUME CallsInv, NEW t \in Turns, Advance(t)
    PROVE  /\ limited' \subseteq Accounts /\ loggedOut' \subseteq Accounts
           /\ writer' \in Turns \cup {NoTurn}
<1>1. LoadSound(t) /\ TypeOK
  BY DEF CallsInv
<1>2. writer' \in Turns \cup {NoTurn}
  BY <1>1 DEF Advance, Select, NoneAvailable, NotEntitled, LoginLost, LimitReached,
              ExecFails, Execute, RunTool, Record, AskAgain, Compose, Reply,
              ReportError, Stream, LockRefused, LockAfter, TypeOK
<1>3. limited' \subseteq Accounts /\ loggedOut' \subseteq Accounts
  <2>1. CASE LoginLost(t) \/ LimitReached(t)
    BY <1>1, <2>1 DEF LoginLost, LimitReached, LoadSound, Requesting, TypeOK
  <2>2. CASE ~(LoginLost(t) \/ LimitReached(t))
    BY <1>1, <2>2 DEF Advance, Select, NoneAvailable, NotEntitled, ExecFails,
              Execute, RunTool, Record, AskAgain, Compose, Reply,
              ReportError, Stream, LockRefused, TypeOK
  <2> QED
    BY <2>1, <2>2
<1> QED
  BY <1>2, <1>3

LEMMA CallsStart == Init => CallsInv
<1> SUFFICES ASSUME Init PROVE CallsInv
  OBVIOUS
<1>1. Fresh \in TurnState /\ CountsSound(Fresh) /\ ~Requesting(Fresh)
  BY BoundFacts, RunsFacts
     DEF Fresh, TurnState, CountsSound, Requesting, Spent
<1>2. TypeOK
  BY <1>1 DEF Init, TypeOK
<1>3. NeverOvercounted
  BY DEF Init, NeverOvercounted
<1>4. WithinOneRequest
  <2>1. MaxRuns * MaxTokens \in Nat \ {0}
    BY BoundsAssumption, TokensAssumption
  <2> QED
    BY <2>1, CapacityAssumption DEF Init, WithinOneRequest
<1>5. \A t \in Turns : LoadSound(t) /\ CountsSound(turn[t])
  BY <1>1 DEF Init, LoadSound
<1> QED
  BY <1>2, <1>3, <1>4, <1>5 DEF CallsInv

LEMMA CallsStep ==
    ASSUME CallsInv, [Next]_vars
    PROVE  CallsInv'
<1>1. ASSUME NEW t \in Turns, Advance(t)
      PROVE  CallsInv'
  BY <1>1, AdvanceTurns, AdvanceCounters, AdvanceSets
     DEF TurnsSound, CallsInv, TypeOK
<1>2. ASSUME NEW t \in Turns, Begin(t) \/ Crash(t)
      PROVE  CallsInv'
  <2>1. TurnsSound
    <3>1. CASE Begin(t)
      BY <3>1, GotoKeeps DEF Begin, TurnsSound
    <3>2. CASE Crash(t)
      BY <3>2, GotoKeeps DEF Crash, TurnsSound
    <3> QED
      BY <1>2, <3>1, <3>2
  <2>2. /\ used' = used /\ consumed' = consumed /\ limited' = limited
        /\ loggedOut' = loggedOut /\ writer' \in Turns \cup {NoTurn}
    BY <1>2 DEF Begin, Crash, LockAfter, CallsInv, TypeOK
  <2>3. /\ consumed' \in [Accounts -> Nat]
        /\ \A b \in Accounts : consumed[b] <= consumed'[b]
    BY <2>2 DEF CallsInv, TypeOK
  <2> QED
    BY <2>1, <2>2, <2>3, CountersKept DEF TurnsSound, CallsInv, TypeOK
<1>3. CASE UNCHANGED vars
  BY <1>3 DEF vars, CallsInv, TypeOK, NeverOvercounted, WithinOneRequest,
              LoadSound, CountsSound
<1> QED
  BY <1>1, <1>2, <1>3 DEF Next, Finished

LEMMA CallsAlways == Spec => []CallsInv
BY CallsStart, CallsStep, PTL DEF Spec

-----------------------------------------------------------------------------
(* The counters, the lock and every turn's state keep their types: in      *)
(* particular no write makes a usage counter negative.                     *)
THEOREM TypeCorrect == Spec => []TypeOK
BY CallsAlways, PTL DEF CallsInv

(* record_codex_account_usage, from stale rows and after retries, never    *)
(* counts more than the runs of the program amount to.                     *)
THEOREM Overcount == Spec => []NeverOvercounted
BY CallsAlways, PTL DEF CallsInv

(* select_codex_account_for_subscription lets a counter pass its effective *)
(* limit by less than one request, however many turns share the account.   *)
THEOREM OneRequestOver == Spec => []WithinOneRequest
BY CallsAlways, PTL DEF CallsInv

(* The retries, the repeated requests and the tool loop together bound how *)
(* often one turn runs Codex.                                              *)
THEOREM Bounded == Spec => []CallsBounded
<1>1. CallsInv => CallsBounded
  BY DEF CallsInv, CountsSound, CallsBounded, Runs
<1> QED
  BY <1>1, CallsAlways, PTL
=============================================================================
