SPECIFICATION Spec
CONSTANTS
    Registered <- Builtins
    Lines <- Assignments
    Scripts <- SomeScripts
    Alike <- SameSum
    Results = {0, 1}
    Inputs = {"i"}
    FOPEN_MAX = 1
    MaxTokens = 1
    MaxObjects = 19
    MaxDepth = 2
INVARIANT LastAssignmentWins
CHECK_DEADLOCK FALSE
