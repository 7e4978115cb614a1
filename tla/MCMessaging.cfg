\* Three calls for two messages, one acquisition in two units of time; a turn
\* and two replies to it, and one stop of everything; two chats, of three messages
\* and of one, two of them a /clear at most; the log holds two messages a chat.
SPECIFICATION Spec
CONSTANTS
  m1 = m1
  m2 = m2
  a = a
  b = b
  c = c
  tree = tree
  Keys = {m1, m2}
  KeyOf <- ThreeCalls
  NoEntry = NoEntry
  Limit = 1
  Window = 2
  MaxRetries = 1
  Backoff <- Doubling
  FloodPause = 2
  Horizon = 4
  Turns = {a, b, c}
  ParentOf <- ReplyTo
  TreeOf <- OneTree
  None = None
  Manager = Manager
  MaxStopAlls = 1
  here = here
  there = there
  MaxMessages = 4
  Chats = {here, there}
  ChatOf <- TwoChats
  MaxClears = 2
  Cap = 2
  ChunkSize = 2
SYMMETRY Replies
INVARIANTS SessionsKept ChatLogKept
PROPERTIES OutboxKept StopAllStops
CHECK_DEADLOCK FALSE
