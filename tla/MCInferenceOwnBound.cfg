SPECIFICATION Spec
CONSTANTS
    a = a
    b = b
    s = s
    u = u
    P = P
    Q = Q
    R = R
    Atom = {a, b, s, u}
    AnyType = AnyType
    Open = Open
    NoStop = NoStop
    Param = {P, Q, R}
    Below <- Literals
    Join <- CommonLiterals
    PlainArmsFirst = TRUE
    Node <- Nodes
    Programs <- OwnBound
INVARIANTS
    BoundariesEnd
CHECK_DEADLOCK FALSE
