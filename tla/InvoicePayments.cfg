\* Two invoices and the wallet, all on one day; the process may die once.
CONSTANTS
    i1 = i1 i2 = i2 c1 = c1
    Invoices = {i1, i2}
    Clicks = {c1}
    Credit = 1
    FullDue = 2
    ReducedDue = 1
    PlanPrice = 1
    Start = 1
    MaxSpent = 1
    MaxDay = 0
    MaxCrashes = 1
SPECIFICATION FairSpec
INVARIANTS TypeOK BalanceExact  OneSubscription
\* Nothing happens any more when every invoice is settled.
CHECK_DEADLOCK FALSE
PROPERTIES StartedPlanNotRefused PaymentAnswered
