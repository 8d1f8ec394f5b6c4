SPECIFICATION Spec
CONSTANTS
    Registered <- Builtins
    Lines <- AllLines
    Scripts <- SomeScripts
    Alike <- SameSum
    Results = {0, 1}
    Inputs = {"i"}
    FOPEN_MAX = 1
    MaxTokens = 1
    MaxObjects = 16
    MaxDepth = 2
CHECK_DEADLOCK FALSE
PROPERTIES KeepsTokens CallsGetTheirArguments EvaluatesRightToLeft LineEnds
