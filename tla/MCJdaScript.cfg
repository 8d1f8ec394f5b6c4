SPECIFICATION Spec
CONSTANTS
    Registered <- Builtins
    Lines <- Calls
    Scripts <- SomeScripts
    Alike <- SameSum
    Results = {0, 1}
    Inputs = {"i"}
    FOPEN_MAX = 1
    MaxTokens = 1
    MaxObjects = 16
    MaxDepth = 2
INVARIANT ScriptIsAllocated
CHECK_DEADLOCK FALSE
