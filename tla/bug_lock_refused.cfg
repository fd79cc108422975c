SPECIFICATION RefusingSpec
CONSTANTS
    Server = {s1, s2}
    Socket = {c1, c2}
    Half = 2
    Room = 2
    Nil = Nil
INVARIANT SingleOwner
