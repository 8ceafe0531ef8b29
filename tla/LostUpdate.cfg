\* A top-up read before a chat charge and committed after it.
CONSTANTS
    u1 = u1 u2 = u2 s1 = s1 s2 = s2
    buy = buy rebuy = rebuy top = top web = web
    chat = chat voice = voice index = index rechat = rechat
    NoKey = NoKey
    NoSession = NoSession
    Users = {u1}
    Sessions = {s1, s2}
    Keys = {top, chat}
    Requests <- MCRequests
    Costs = {1, 3}
    Pools = {1}
    PoolMax <- OnePlace
    Opening <- SomeBalance
    MaxEntries = 4
SPECIFICATION Spec
INVARIANT BalanceIsLedgerSum
