SPECIFICATION LocksSpec
CONSTANTS
    BootProgramRuns = FALSE
INVARIANTS MutualExclusion NobodySpinsMasked
PROPERTY KernelCallsEnd
CHECK_DEADLOCK FALSE
