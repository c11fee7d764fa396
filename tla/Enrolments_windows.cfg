SPECIFICATION FairSpec
CONSTANTS
    Member = {m1}
    Screen = {s1}
    Window = {b1, b2}
    Position = {p1}
    MaxId = 2
    MaxExits = 1
    Faults = FALSE
    NoEnrolment = NoEnrolment
    NoPosition = NoPosition
INVARIANTS TypeOK PositionOfTheEnrolled HeldIsListed
PROPERTIES ExitsAreCounted ExitStands EveryExitTold
