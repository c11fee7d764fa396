SPECIFICATION SumSpec
CONSTANTS
    ana = ana
    ben = ben
    a1 = a1
    a2 = a2
    b1 = b1
    Actor = {ana, ben}
    Window = {a1, a2, b1}
    UserOf <- Users
    Extra <- OneExtra
    Typed = {"Letters"}
    MaxId = 1
    NoMessage = NoMessage
    NoBox = NoBox
    Judged = {j1}
    JudgeWindow = {j2, j3}
    Profile = {y1, y2}
    NoMark = NoMark
    Nobody = Nobody
INVARIANTS TypeOK RowsTypeOK OneCopyEach BannedWereJudged
PROPERTIES NothingLost NothingPutBack
CHECK_DEADLOCK FALSE
SYMMETRY SameUser
