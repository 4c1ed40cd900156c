SPECIFICATION Spec
CONSTANTS
    Keys = {"a", "b"}
    Values <- MCValues
    Undefined <- MCUndefined
    Null <- MCNull
    Text <- MCText
    Literals <- MCTagLiterals
    Substitute <- MCSubstitute
    Overwrite <- MCOverwrite
    Callback <- MCCallback
    Predicate <- MCPredicate
    Delegate <- MCDelegate
    MinAutoDiscriminate = 2
    AnyRefine = FALSE
    AnyTag = TRUE
    MaxDepth = 1
INVARIANT SafeParseMatchesWalk
CHECK_DEADLOCK FALSE
