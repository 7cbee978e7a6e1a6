SPECIFICATION Spec
CONSTANTS
    Keys = {k1}
    Readers = {r1}
    Mutators = {m1}
    RewarmCap = 1
    MaxVersion = 2
    MaxLocal = 1
INVARIANT
    FreshAfterBust
CHECK_DEADLOCK FALSE
