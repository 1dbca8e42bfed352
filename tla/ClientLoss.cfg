CONSTANTS
    MaxConns = 2
    MaxIn = 0
    MaxOut = 1
    Capacity = 1
    Attempts = 6
    Losses = {"away"}
SPECIFICATION Spec
INVARIANT LossIsSurvived
\* the agent may end, and the server may send nothing more
CHECK_DEADLOCK FALSE
