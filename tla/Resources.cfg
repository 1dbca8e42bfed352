CONSTANTS
    Files <- MCFiles
    Entry <- MCEntry
    Under <- MCUnder
    Based <- MCBased
    Links <- MCLinks
    Cmds <- MCCmds
    Retry = 1
    MaxJobs = 2
    MaxFaults = 1
SPECIFICATION Spec
INVARIANTS
    CacheKeepsPlaces
    CacheIsComplete
    TempDirsRemoved
\* the number of jobs is bounded
CHECK_DEADLOCK FALSE
