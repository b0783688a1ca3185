SPECIFICATION Spec
CONSTANTS
    Index = {n1, n2, n3}
    NoNode = NoNode
    EdgeIndex = {e1}
    NoEdge = NoEdge
    T = T
    U = U
    Params = {T, U}
    Signatures <- Scoping
INVARIANTS
    Forest
    NothingDangles
    ChildrenMirror
    CycleCheckExact
    SomeNodeRemovable
    BoundsNeverLoop
    ScopesAgree
PROPERTIES
    ImplementsNodeForest
    OthersKeepTheirScope
