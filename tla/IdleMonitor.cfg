CONSTANTS
    Boot = Boot
    None = None
    Firers = {f1, f2}
    Timers = {Boot, t1, t2}
    ExitOnIdle = 1
SPECIFICATION FairSpec
PROPERTIES OnlyCollisionsHarm IdleAgentExits
\* the process ends when a watcher panics, and no event need ever come
CHECK_DEADLOCK FALSE
