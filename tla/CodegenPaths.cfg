SPECIFICATION Spec
CONSTANTS
    Keys = {"a", "b"}
    Values <- MCValues
    Undefined <- MCUndefined
    Null <- MCNull
    Text <- MCText
    Literals <- MCLiterals
    Substitute <- MCSubstitute
    Overwrite <- MCOverwrite
    Callback <- MCCallback
    Predicate <- MCPredicate
    Delegate <- MCDelegate
    MinAutoDiscriminate = 2
    AnyRefine = FALSE
    AnyTag = FALSE
    MaxDepth = 2
INVARIANTS
    TypeOK
    ResultsMatchWalk
    GuardIsExact
    ChildrenAreKnown
CHECK_DEADLOCK FALSE
