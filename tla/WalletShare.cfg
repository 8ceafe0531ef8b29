\* One invoice for a plan whose price the wallet shares.
CONSTANTS
    i1 = i1 i2 = i2 c1 = c1
    Invoices = {i1}
    Clicks = {}
    Credit = 1
    FullDue = 2
    ReducedDue = 1
    PlanPrice = 2
    Start = 1
    MaxSpent = 0
    MaxDay = 0
    MaxCrashes = 0
SPECIFICATION Spec
INVARIANT WalletShareDebited
CHECK_DEADLOCK FALSE
