\* Two sessions at a time, two users and one place in the pool.
CONSTANTS
    u1 = u1 u2 = u2 s1 = s1 s2 = s2
    buy = buy rebuy = rebuy top = top web = web
    chat = chat voice = voice index = index rechat = rechat
    NoKey = NoKey
    NoSession = NoSession
    Users = {u1, u2}
    Sessions = {s1, s2}
    Keys = {buy, rebuy, top, chat, index}
    Requests <- SharedRequests
    Costs = {1, 3}
    Pools = {1}
    PoolMax <- OnePlace
    Opening <- SomeBalance
    MaxEntries = 3
SPECIFICATION Spec
SYMMETRY SessionSymmetry
INVARIANTS
    NonNegative
    OneEntryPerKey
    PoolNotOversold
    UsageSettled
PROPERTY JournaledMoves
