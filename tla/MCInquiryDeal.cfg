SPECIFICATION Spec
CONSTANTS
    Inquiry = inq
    o1 = o1
    Offers = {o1}
    p1 = p1
    p2 = p2
    Proformas = {p1, p2}
    NoOffer = none
    OfferOf <- OneWithout
    Calls = {c1, c2}
    MaxSent = 1
    MaxTerms = 1
    MaxDrift = 1
INVARIANTS
    DealRestsOnAcceptance
    AcceptedAsRead
    ArchivedIsSettled
    ConfirmedIsRecorded
    CounterNeverOverstates
PROPERTIES
    DecidedOnce
SYMMETRY CallSymmetry
CHECK_DEADLOCK FALSE
