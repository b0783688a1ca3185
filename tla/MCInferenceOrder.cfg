SPECIFICATION OrderSpec
CONSTANTS
    a = a
    b = b
    s = s
    u = u
    P = P
    Q = Q
    R = R
    Atom = {a, b, s, u}
    AnyType = AnyType
    Open = Open
    NoStop = NoStop
    Param = {P, Q, R}
    Below <- Literals
    Join <- CommonLiterals
    PlainArmsFirst = TRUE
    Node <- Nodes
    Programs <- OrderInsensitive
    NoResult = NoResult
INVARIANTS
    OrderIndependent
CHECK_DEADLOCK FALSE
