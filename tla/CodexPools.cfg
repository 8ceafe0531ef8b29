\* One session at a time: every order of grants, purchases and reviews.
CONSTANTS
    u1 = u1 u2 = u2
    Users = {u1, u2}
    Subs = {x1, x2, x3}
    Pools = {1}
    Sessions = {s1}
    Limits = {1, 2}
    NoUser = NoUser
    NoSub = NoSub
    NoPool = NoPool
    x1 = x1 x2 = x2 x3 = x3
SPECIFICATION Spec
SYMMETRY RowSymmetry
INVARIANTS
    TypeOK
    TrialSpentWithPlace
    BoughtHasPool
    CountCoversLive
PROPERTY AdmissionsFit
