SPECIFICATION Spec
CONSTANTS
    O = O
    I = I
    C = C
    Scope = {O, I, C}
    NoScope = NoScope
    None = None
    Above <- ScopeTree
    Body <- RigidScopes
    Param <- Params
    Rigid <- RigidParams
    Bound <- Bounds
    Default <- Defaults
    Below <- Order
    Record = "Record"
    Integer = "Integer"
    Literals <- SmallIntegers
    LiteralOf <- LiteralNames
    KeyOfField <- FieldNames
    Optional = {"Unit"}
    AnyOptional = FALSE
    Questions <- Pairs
    Candidates <- Flowing
INVARIANTS
    AnswersFinal
    NeverAnyFinal
    NormalFormsAgree
    HoldsForEveryCaller
    DecidedInTheEnd
    IntersectionBelowBoth
CHECK_DEADLOCK FALSE
