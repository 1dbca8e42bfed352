CONSTANTS
    Consumer = Consumer
    Boot = Boot
    None = None
    Cmds = {c1, c2}
    HttpHandlers = {}
    ExitOnIdle = 1
    Controls = {}
SPECIFICATION Spec
INVARIANTS
    NoTimerAtWork
\* the process may end, and the server may send nothing more
CHECK_DEADLOCK FALSE
