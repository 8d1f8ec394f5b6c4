SPECIFICATION Spec
CONSTANTS
    MaxJobs = 2
    MaxTasks = 4
    MaxThreads = 4
    Interrupts <- TimerAndYield
INVARIANT YieldReturns
