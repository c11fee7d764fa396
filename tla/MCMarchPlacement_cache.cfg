SPECIFICATION Spec
CONSTANTS
    Member = {m1, m2, m3}
    Window = {b1}
    MaxId = 3
    MaxCols = 1
    MaxRow = 3
    Cached = 1
    Advised = TRUE
    FreshForms = TRUE
    Faults = FALSE
    NoMarch = NoMarch
    NoPlace = NoPlace
CHECK_DEADLOCK FALSE
SYMMETRY Symmetry
INVARIANTS DistinctPlaces
