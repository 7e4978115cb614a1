\* One conversation with three replies, and /stop of one of them.
SPECIFICATION FairSpec
CONSTANTS
    Nodes = {n0, n1, n2, n3}
    Root = n0
    None = None
    Commands = {"stop"}
    EarlyCommands = FALSE
INVARIANTS NoLostWakeup OneTurnAtATime
PROPERTIES ServesTurns StopReachesCli
CHECK_DEADLOCK FALSE
