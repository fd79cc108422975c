SPECIFICATION Spec
CONSTANTS
    User = {u1, u2}
    Content = {blank, c1}
    Blank = blank
    Attempts = 2
    Nil = Nil
SYMMETRY Symmetry
INVARIANT TypeOK
INVARIANT NoContributorLost
INVARIANT NothingUnsaved
CHECK_DEADLOCK FALSE
