SPECIFICATION ReferralSpec
CONSTANTS
    Calls = {c1}
    Unit = 4
    Shares = {3}
    MaxShare = 3
    Err = 0
    MaxRequests = 5
INVARIANT
    RemainderIsCarried
CHECK_DEADLOCK FALSE
