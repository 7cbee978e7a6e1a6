SPECIFICATION Spec
CONSTANTS
    Nobody = nobody
    Owner = owner
    b1 = b1
    Buyers = {b1}
    Sellers = {owner, s1, s2}
    Inquiries = {i1}
    BuyerOf <- AllOfFirst
    KeptBy <- OneBusiness
    Calls = {c1, c2}
    MaxDisturbed = 0
INVARIANTS
    BuyerAgreed
    SupplierAgreed
    RemovedIsUnassigned
PROPERTIES
    RemovalUnassigns
    AssigneeSells
SYMMETRY CallSymmetry
CHECK_DEADLOCK FALSE
