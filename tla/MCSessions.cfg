SPECIFICATION Spec
CONSTANTS
    Calls = {c1, c2}
    Codes = {k1, k2}
    NoCode = NoCode
    MaxEra = 3
SYMMETRY Symmetry
INVARIANTS
    SessionsEnd
    SessionsLast
    CodeIsSpent
