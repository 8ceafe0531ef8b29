\* One request of a proxy client, on one account.
CONSTANTS
    text = text photo = photo client = client a1 = a1 a2 = a2
    NoTurn = NoTurn
    NoAccount = NoAccount
    Turns = {client}
    Kind <- MCKind
    Accounts = {a1}
    Capacity <- MCCapacity
    MaxTokens = 1
    HasFallback = FALSE
    MaxRetries = 1
    MaxRounds = 1
    MaxRuns = 1
SPECIFICATION Spec
INVARIANT SuccessfulCallsRecorded
