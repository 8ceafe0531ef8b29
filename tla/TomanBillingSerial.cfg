\* One session at a time: every kind of event, interrupted and redelivered.
CONSTANTS
    u1 = u1 u2 = u2 s1 = s1 s2 = s2
    buy = buy rebuy = rebuy top = top web = web
    chat = chat voice = voice index = index rechat = rechat
    NoKey = NoKey
    NoSession = NoSession
    Users = {u1}
    Sessions = {s1}
    Keys = {buy, rebuy, top, web, chat, voice, index}
    Requests <- MCRequests
    Costs = {1, 3}
    Pools = {1}
    PoolMax <- TwoPlaces
    Opening <- NoBalance
    MaxEntries = 3
SPECIFICATION Spec
INVARIANTS
    TypeOK
    BalanceIsLedgerSum
PROPERTY ImplementsCreditBook
