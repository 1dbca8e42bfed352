CONSTANTS
    Plans <- MCPlans
    MaxRetry = 1
    MaxTtys = 2
    Pipes = {"out"}
    Capacity = 1
SPECIFICATION FairSpec
INVARIANTS
    TypeOK
    UploadIsComplete
    OneInputStrays
PROPERTIES
    EverythingEnds
\* a job that is done leaves its terminals as they are
CHECK_DEADLOCK FALSE
