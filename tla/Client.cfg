CONSTANTS
    MaxConns = 3
    MaxIn = 2
    MaxOut = 1
    Capacity = 2
    Attempts = 2
    Losses = {"away"}
SPECIFICATION FairSpec
INVARIANTS
    TypeOK
    ConsumersBalance
    CommandsInOrder
PROPERTIES
    Reconnects
    PendingIsWritten
\* the agent may end, and the server may send nothing more
CHECK_DEADLOCK FALSE
