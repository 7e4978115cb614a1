\* One conversation with two replies, and every command that stops it.
SPECIFICATION Spec
CONSTANTS
    Nodes = {n0, n1, n2}
    Root = n0
    None = None
    Commands = {"stop", "stop_all", "clear_branch", "clear_all"}
    EarlyCommands = TRUE
INVARIANTS TreeInv
PROPERTIES RunsOnce StoppedNeverStarts
CHECK_DEADLOCK FALSE
