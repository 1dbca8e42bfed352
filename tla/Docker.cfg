CONSTANTS
    Cmds <- MCCmds
    Retry = 1
    PullRetry = 2
    MaxFaults = 2
SPECIFICATION FairSpec
INVARIANTS
    TypeOK
    SuccessIsEarned
    OneShell
    NoContainerLeft
    KillReachesShell
    KilledIsReported
PROPERTIES
    ImplementsProtocol
    KilledIsFinal
    ContextEndsJob
\* Start returns, and the daemon has nothing left to do
CHECK_DEADLOCK FALSE
