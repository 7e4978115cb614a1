\* Two tasks and a tool in three events; four lines of a client's output; a
\* restart, one edit and one failure in the server's life; two messages and two
\* commands at a platform; a queue of three replies.
SPECIFICATION Spec
CONSTANTS
  a = a
  b = b
  tsk = tsk
  list = list
  one = one
  m1 = m1
  m2 = m2
  r1 = r1
  r2 = r2
  r3 = r3
  Replies = {r1, r2, r3}
  NoReply = NoReply
  ParentOf <- MCParents
  Slots = {0, 1}
  TaskIds <- MCTaskIds
  ToolIds <- MCToolIds
  TaskLike <- MCTaskLike
  MaxEvents = 3
  Symbols = {a, b, tsk, list, one}
  LimitChars = 4
  TailMax = 2
  MinTail = 1
  MaxLines = 4
  MaxPipe = 1
  MaxEdits = 1
  MaxRestarts = 1
  MaxFailures = 1
  Messages = {m1, m2}
  MaxCommands = 2
INVARIANTS TranscriptKept ClientIsHeard ServerLivesRight PlatformsHold PlacesAreTold
CHECK_DEADLOCK FALSE
