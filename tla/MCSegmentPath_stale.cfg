SPECIFICATION Spec
CONSTANTS
    Point = {pa, pb}
    Tab = {t1, t2}
    MaxId = 3
    Timely = {TRUE}
    FreshForms = FALSE
    Overlap = FALSE
    NoSegment = NoSegment
SYMMETRY Symmetry
PROPERTIES ClosedIsFrozen
