SPECIFICATION FairSpec
CONSTANTS
    Keys = {k1, k2}
    Readers = {r1}
    Mutators = {m1}
    RewarmCap = 1
    MaxVersion = 2
    MaxLocal = 2
INVARIANTS
    TypeOK
    FreshUnlessOvertaken
PROPERTY
    EventuallyCurrent
CHECK_DEADLOCK FALSE
