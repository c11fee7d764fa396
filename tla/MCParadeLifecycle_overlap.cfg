SPECIFICATION Spec
CONSTANTS
    Content = {c1, c2}
    Tab = {t1, t2, t3}
    Member = {m1}
    FreshForms = TRUE
    Overlap = TRUE
    Faults = TRUE
    NoParade = NoParade
SYMMETRY Symmetry
CHECK_DEADLOCK FALSE
INVARIANTS TypeOK NoticesAreTrue
PROPERTIES Lives DecidedIsFrozen
