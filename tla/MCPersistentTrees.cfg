\* One conversation with a reply, one crash or exit, one failed write.
SPECIFICATION Spec
CONSTANTS
  r1 = r1
  c1 = c1
  Nodes = {r1, c1}
  Roots = {r1}
  RootOf <- OneRootOf
  Data <- TreeData
  NoTree = NoTree
  MaxTimers = 1
  Commands = {"clear"}
  MaxRestarts = 1
  MaxFailures = 1
INVARIANTS StoreKept
PROPERTIES CompletedStaysSaved
CHECK_DEADLOCK FALSE
