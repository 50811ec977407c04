CONSTANTS
    d1 = d1
    d2 = d2
    n1 = n1
    n2 = n2
    f1 = f1
    f2 = f2
    Dirs = {d1}
    Home = d1
    Names = {n1, n2}
    Files = {f1}
    MaxParallel = 2
    MaxOps = 3
    MaxLists = 1
SPECIFICATION Spec
PROPERTIES
  ImplementsQueue
  ChangesAreListed
  ClosedTabFreesSession
CHECK_DEADLOCK FALSE
