SPECIFICATION Spec
CONSTANTS
    Node = {1, 2, 3}
    NoNode = NoNode
    EdgeId = {1, 2, 3}
    NoEdge = NoEdge
    Programs <- PortsAndEffects
INVARIANTS
    EdgesFlowOnce
    FlowsInTopologicalOrder
    NoDefaultOverEdge
    DefaultsApplied
    EffectsStartAtNever
    UndecidedFlowsTookPart
    SuppliedOrReported
PROPERTIES
    CollectionAdvances
    CollectionEnds
CHECK_DEADLOCK FALSE
