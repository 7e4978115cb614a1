\* All three kinds of call, one early retry, two blocks in an attempt.
SPECIFICATION FairSpec
CONSTANTS
  Calls = {plain, task, aliased}
  TaskCalls = {task}
  AliasedCalls = {aliased}
  ThinkingEnabled = TRUE
  EarlyRetries = 1
  MaxBlocks = 2
INVARIANTS ContractKept SalvagedIsWhole NothingHeldBack
PROPERTIES RetryIsInvisible ServesMessage
CHECK_DEADLOCK FALSE
