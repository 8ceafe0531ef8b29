\* A text turn, a photo turn and a proxy request on two accounts.
CONSTANTS
    text = text photo = photo client = client a1 = a1 a2 = a2
    NoTurn = NoTurn
    NoAccount = NoAccount
    Turns = {text, photo, client}
    Kind <- MCKind
    Accounts = {a1, a2}
    Capacity <- MCCapacity
    MaxTokens = 1
    HasFallback = TRUE
    MaxRetries = 1
    MaxRounds = 1
    MaxRuns = 2
SPECIFICATION FairSpec
INVARIANTS
    TypeOK
    NeverOvercounted
    WithinOneRequest
    CallsBounded
PROPERTY TurnsFinish
