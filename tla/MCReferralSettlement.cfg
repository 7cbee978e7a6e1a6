SPECIFICATION ReferralSpec
CONSTANTS
    Calls = {c1, c2}
    Unit = 24
    Shares = {8, 12}
    MaxShare = 12
    Err = 1
    MaxRequests = 5
SYMMETRY Symmetry
INVARIANTS
    ReferralTypeOK
    MarkedWasPaid
    OverpaidBelowAShare
    NoCreditLeftWaiting
CHECK_DEADLOCK FALSE
