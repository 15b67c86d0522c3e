SPECIFICATION Spec
CONSTANTS
    Ids = {a1, a2}
    Users = {u1, u2}
    States = {s1, s2}
    Requests = {q1, q2}
    Desktops = {local}
    None = none
    MaxMoves = 2
SYMMETRY Symmetry
INVARIANT TypeOK
PROPERTIES TwinsOverlapped TokensUnderOwnName
CHECK_DEADLOCK FALSE
