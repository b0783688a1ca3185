SPECIFICATION CachedSpec
CONSTANTS
    Index = {n1, n2}
    NoNode = NoNode
    EdgeIndex = {e1}
    NoEdge = NoEdge
    T = T
    Params = {T}
    Signatures <- Submitted
    NoCache = NoCache
    NoAnswer = NoAnswer
INVARIANTS
    ValidatesInferredTypes
