\* One backend of the router and three requests, two projects, three calls of
\* the Graphify manager and two of the Freebuff manager.
SPECIFICATION Spec
CONSTANTS
  backend = backend
  q1 = q1
  q2 = q2
  q3 = q3
  p = p
  q = q
  c1 = c1
  c2 = c2
  c3 = c3
  f1 = f1
  f2 = f2
  Names = {backend}
  Requests = {q1, q2, q3}
  Client = Client
  Nobody = Nobody
  MaxReloads = 1
  Projects = {p, q}
  NoProject = NoProject
  AutoIndex = TRUE
  TokenBudget = 3
  MinBudget = 1
  MaxLives = 1
  MaxEdits = 3
  Calls = {c1, c2, c3}
  NoCall = NoCall
  FbCalls = {f1, f2}
  Old = Old
  None = None
INVARIANTS RouterKept IndexKept FreebuffKept
PROPERTIES QueueMoves ServerKept
CHECK_DEADLOCK FALSE
