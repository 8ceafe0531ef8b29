\* Two sessions; a user from before the wallets, or one who signs up.
CONSTANTS
    u1 = u1 dollars = dollars tomans = tomans s1 = s1 s2 = s2
    Users = {u1}
    Codes = {dollars, tomans}
    Sessions = {s1, s2}
    NoUser = NoUser NoCode = NoCode NoWallet = NoWallet
    Code <- MCCode
    Charges = {0, 1}
    ImagePrice = 1
    StarterUsd = 1
    StarterToman = 1
    LegacyUsd = 1
    Rate = 2
SPECIFICATION Spec
INVARIANTS TypeOK RedemptionsBounded UsdConserved
SYMMETRY SessionSymmetry
