\* Two chats of a user at once; the week is two instants, the cooldown one.
CONSTANTS
    Turns = {t1, t2}
    NoTurn = NoTurn
    Costs = {1, 2}
    Week = 2
    Cooldown = 1
    WeeklyLimit = 3
    CooldownLimit = 2
    Balance = 1
    MaxNow = 4
    MaxSubs = 2
SPECIFICATION Spec
CHECK_DEADLOCK FALSE
SYMMETRY TurnSymmetry
INVARIANTS
    TypeOK
    QuotaExact
    WithinOneCompletion
PROPERTY NoSurpriseCharge
