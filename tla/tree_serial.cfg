SPECIFICATION HSpec
CONSTANTS
    Page = {p1, p2, p3}
    Space = {s1, s2}
    User = {u1, u2}
    Request = {r1}
    Nil = Nil
    Kind = {"create", "move", "moveToSpace", "trash", "restore", "duplicate", "setAccess", "clearAccess", "forceDelete"}
    Serial = TRUE
    ClientGuard = TRUE
SYMMETRY Symmetry
INVARIANT TypeOK
INVARIANT PurgedWithPage
PROPERTY ImplementsForest
CHECK_DEADLOCK FALSE
