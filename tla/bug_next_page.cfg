SPECIFICATION Spec
CONSTANTS
    Nil = Nil
    End = End
    Part = {"paging"}
    Page = {p1, p2}
    Space = {s1, s2}
    Share = {h1, h2}
    File = {f1, f2}
    Request = {r1, r2}
    Runs = 2
    Archives <- Zips
    Stalls = 1
    Attempt = {q1, q2, q3}
    Past = past
    User = {u1, u2}
    Comment = {c1, c2}
    NoteChanges = 1
    NoteQueue = 1
    Listings <- Recent
    RowIds = {1, 2, 3, 4}
    RowValues = {0, 1}
    PerPage = 2
    RowChanges = 2
INVARIANT NextPageHasRows
CHECK_DEADLOCK FALSE
