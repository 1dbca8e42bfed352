CONSTANTS
    Retry = 0
    AllowFailure = FALSE
SPECIFICATION FairSpec
PROPERTIES
    WaitOrTimeout
\* the process may end, and a closed command stays closed
CHECK_DEADLOCK FALSE
