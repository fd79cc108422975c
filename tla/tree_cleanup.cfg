SPECIFICATION FairSpec
CONSTANTS
    Page = {p1, p2}
    Space = {s1}
    User = {u1}
    Request = {r1}
    Nil = Nil
    Kind = {"create", "move", "trash", "restore", "duplicate", "setAccess", "forceDelete", "cleanup", "fail"}
    Serial = FALSE
    ClientGuard = TRUE
INVARIANT NoDanglingRows
PROPERTY RetentionKept
PROPERTY ExpiredGoes
CHECK_DEADLOCK FALSE
