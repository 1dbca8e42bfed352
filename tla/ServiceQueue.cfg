CONSTANTS
    Consumer = Consumer
    Boot = Boot
    None = None
    Cmds = {c1, c2}
    HttpHandlers = {}
    ExitOnIdle = 1
    Controls = {"KILL", "CLOSE"}
SPECIFICATION FairSpec
INVARIANTS
    TypeOK
    JobOwnsExecutor
    ReleaseWhenExecuted
    JobsSurvive
PROPERTIES
    ImplementsProtocol
    AcceptedIsAnswered
    ServiceIsFreed
\* the process may end, and the server may send nothing more
CHECK_DEADLOCK FALSE
