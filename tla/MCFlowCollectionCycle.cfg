SPECIFICATION Spec
CONSTANTS
    Node = {1, 2, 3}
    NoNode = NoNode
    EdgeId = {1}
    NoEdge = NoEdge
    Programs <- WithPorts
INVARIANTS
    DefaultsAppliedEverywhere
CHECK_DEADLOCK FALSE
