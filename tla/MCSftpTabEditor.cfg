CONSTANTS
    d1 = d1
    d2 = d2
    n1 = n1
    n2 = n2
    f1 = f1
    f2 = f2
    Dirs = {d1}
    Home = d1
    Names = {n1}
    Files = {f1, f2}
    MaxParallel = 1
    MaxOps = 1
    MaxLists = 1
SPECIFICATION Spec
INVARIANT SavesWhatWasRead
CHECK_DEADLOCK FALSE
