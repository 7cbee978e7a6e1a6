SPECIFICATION Spec
CONSTANTS
    a1 = a1
    a2 = a2
    k1 = k1
    k2 = k2
    Catalogs = {k1, k2}
    Ads = {a1, a2}
    CatalogOf <- OnePerCatalog
    Requests = {q1, q2, q3}
    Calls = {c1, c2}
    Nothing = Nothing
    MaxDisturbed = 0
    MaxCalls = 4
    MaxBeside = 3
SYMMETRY Symmetry
INVARIANTS
    WithdrawnStaysOff
    PendingIsBounded
PROPERTIES
    BoardFollowsTheSeller
    ApprovalHolds
CHECK_DEADLOCK FALSE
