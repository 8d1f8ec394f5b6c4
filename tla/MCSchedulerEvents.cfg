SPECIFICATION FairSpec
CONSTANTS
    MaxJobs = 2
    MaxTasks = 3
    MaxThreads = 4
    Interrupts <- AllCauses
INVARIANTS TypeOK CursorsInRange
PROPERTY ScanEnds
CHECK_DEADLOCK FALSE
