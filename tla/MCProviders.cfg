\* Two acquisitions in any two units of time, two slots, one retry; two blocks
\* at the provider, three emitted in an attempt, one early retry.
SPECIFICATION MCSpec
CONSTANTS
  r1 = r1
  r2 = r2
  r3 = r3
  Requests = {r1, r2, r3}
  Limit = 2
  Window = 2
  MaxConcurrency = 2
  MaxRetries = 1
  Delays <- ShortDelays
  LongBlock = 3
  MaxCalls = 2
  Horizon = 4
  Upstream = {0, 1}
  EarlyRetries = 1
  MaxBlocks = 3
SYMMETRY Alike
INVARIANTS WindowKept SlotsConserved NativeStreamKept
PROPERTIES NativeServes
CHECK_DEADLOCK FALSE
