SPECIFICATION Spec
CONSTANTS
    Content = {c1, c2}
    Tab = {t1}
    Member = {m1}
    FreshForms = TRUE
    Overlap = FALSE
    Faults = FALSE
    NoParade = NoParade
SYMMETRY Symmetry
CHECK_DEADLOCK FALSE
INVARIANTS FinalIsWanted
