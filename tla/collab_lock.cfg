SPECIFICATION CalmFairSpec
CONSTANTS
    Server = {s1, s2}
    Socket = {c1, c2}
    Half = 1
    Room = 1
    Nil = Nil
INVARIANT OpenOwnsLock
PROPERTY ServedAgain
