CONSTANTS
    Consumer = Consumer
    Boot = Boot
    None = None
    c1 = c1
    c2 = c2
    c3 = c3
    Cmds = {c1, c2, c3}
    HttpHandlers = {h1}
    ExitOnIdle = 0
    Controls = {"KILL", "CLOSE"}
SPECIFICATION Spec
SYMMETRY CmdSymmetry
INVARIANTS
    NoExecutorLeak
\* the process may end, and the server may send nothing more
CHECK_DEADLOCK FALSE
