SPECIFICATION Spec
CONSTANTS
    r1 = r1
    r2 = r2
    a1 = a1
    a2 = a2
    a3 = a3
    Purchases = {p1}
    Receipts = {}
    Gateways = {shop}
    DefaultGateway = shop
    Callbacks = {c1}
    Reviewers = {}
    ReviewersOf <- NoReceipts
    MaxDeposits = 1
INVARIANT
    PurchaseCreditedOnce
CHECK_DEADLOCK FALSE
