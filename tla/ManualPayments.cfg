\* Three receipts of one user, reviewed by two handlers at a time.
CONSTANTS
    u1 = u1 h1 = h1 h2 = h2
    receipt = receipt plan = plan replan = replan
    NoRequest = NoRequest
    Users = {u1}
    Requests = {receipt, plan, replan}
    Handlers = {h1, h2}
    Asked <- MCAsked
    OpeningGift <- GiftOfOne
SPECIFICATION Spec
SYMMETRY HandlerSymmetry
INVARIANTS
    TypeOK
    ApprovedIsPaid
    GrantedOnce
    CreditsMatchApprovals
    ReviewsBounded
    NeverOvercredited
