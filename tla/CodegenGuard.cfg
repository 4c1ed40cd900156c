SPECIFICATION Spec
CONSTANTS
    Keys = {"a", "b"}
    Values <- MCValues
    Undefined <- MCUndefined
    Null <- MCNull
    Text <- MCText
    Literals <- MCLiterals
    Substitute <- MCSubstitute
    Overwrite <- MCOverwrite
    Callback <- MCCallback
    Predicate <- MCPredicate
    Delegate <- MCDelegate
    MinAutoDiscriminate = 2
    AnyRefine = TRUE
    AnyTag = FALSE
    MaxDepth = 1
INVARIANT GuardIsExact
CHECK_DEADLOCK FALSE
