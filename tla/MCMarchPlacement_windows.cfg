SPECIFICATION FairSpec
CONSTANTS
    Member = {m1, m2, m3}
    Window = {b1}
    MaxId = 4
    MaxCols = 2
    MaxRow = 2
    Cached = 127
    Advised = TRUE
    FreshForms = TRUE
    Faults = FALSE
    NoMarch = NoMarch
    NoPlace = NoPlace
CHECK_DEADLOCK FALSE
INVARIANTS TypeOK DistinctPlaces PlacedIffApproved MarchesOnce
PROPERTIES DecisionStands EventuallyTold
