SPECIFICATION Spec
CONSTANTS
    Lanes = {"seller", "supplier"}
    Sources = {s1, s2}
    NoSource = NoSource
    Calls = {c1, c2}
    MaxDisturbed = 1
CHECK_DEADLOCK FALSE
SYMMETRY Symmetry
INVARIANTS
    CatalogAgreed
    LeaverDoesNotSell
    RefusalIsRecognised
