SPECIFICATION Spec
CONSTANTS
    r1 = r1
    r2 = r2
    a1 = a1
    a2 = a2
    a3 = a3
    Purchases = {p1, p2}
    Receipts = {r1, r2}
    Gateways = {shop, arm}
    DefaultGateway = shop
    Callbacks = {c1, c2}
    Reviewers = {a1, a2, a3}
    ReviewersOf <- TwoArms
    MaxDeposits = 1
SYMMETRY Symmetry
INVARIANTS
    NoOrphanCallback
    ConfirmedIsDeposited
    OneDepositPerReviewer
    ReceiptCreditMatchesDecision
PROPERTIES
    OnlineIsLedger
    ManualIsLedger
CHECK_DEADLOCK FALSE
