SPECIFICATION FairSpec
CONSTANTS
    MaxJobs = 3
    MaxTasks = 5
    MaxThreads = 6
    Interrupts <- TimerOnly
INVARIANTS RunsCurrent ReadyToRun
PROPERTIES SavesOwnContext EveryThreadRuns
