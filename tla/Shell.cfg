CONSTANTS
    Retry = 2
    AllowFailure = FALSE
SPECIFICATION FairSpec
INVARIANTS
    TypeOK
    SuccessIsEarned
PROPERTIES
    ImplementsProtocol
    StartReturns
    KillAtWorkEnds
\* the process may end, and a closed command stays closed
CHECK_DEADLOCK FALSE
