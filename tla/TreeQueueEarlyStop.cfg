\* A /stop that comes before the first step of the task it cancels.
SPECIFICATION FairSpec
CONSTANTS
    Nodes = {n0, n1, n2}
    Root = n0
    None = None
    Commands = {"stop"}
    EarlyCommands = TRUE
PROPERTIES QueueDrains
CHECK_DEADLOCK FALSE
