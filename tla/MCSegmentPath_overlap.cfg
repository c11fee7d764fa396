SPECIFICATION Spec
CONSTANTS
    Point = {pa, pb}
    Tab = {t1, t2}
    MaxId = 3
    Timely = {FALSE}
    FreshForms = TRUE
    Overlap = TRUE
    NoSegment = NoSegment
SYMMETRY Symmetry
INVARIANTS TypeOK NoDeadEnd
PROPERTIES Handover ClosedIsFrozen
