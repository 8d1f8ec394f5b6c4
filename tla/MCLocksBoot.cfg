SPECIFICATION LocksSpec
CONSTANTS
    BootProgramRuns = TRUE
INVARIANT NobodySpinsMasked
CHECK_DEADLOCK FALSE
