SPECIFICATION Spec
CONSTANTS
    N = 3
    Values = {0, 1}
    Width = 2
    MaxIter = 1
    Decisions = 2
    Chosen = {"stale"}
    Programs <- MCPrograms
CHECK_DEADLOCK FALSE
INVARIANT NoSolutionLost
