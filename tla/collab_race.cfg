SPECIFICATION Spec
CONSTANTS
    Server = {s1, s2}
    Socket = {c1, c2}
    Half = 1
    Room = 1
    Nil = Nil
SYMMETRY Symmetry
INVARIANT TypeOK
INVARIANT StaleOwnersForgotten
