SPECIFICATION Spec
CONSTANTS
    Point = {pa, pb, pc}
    Tab = {t1, t2}
    MaxId = 4
    Timely = {TRUE}
    FreshForms = TRUE
    Overlap = FALSE
    NoSegment = NoSegment
SYMMETRY Symmetry
INVARIANTS Chained
PROPERTIES StartsAtAnEnd IsStack
