SPECIFICATION Spec
CONSTANTS
    PoolSize = 2
    MaxBranches = 2
    MaxDepth = 2
    MaxPosts = 1
    Costs = {0, 1, 2}
    Inferring = {0}
    NoPrimal = 9
    FirstNodes = {0, 100}
    Runs = 1
    Objectives = {TRUE, FALSE}
    Limits = {TRUE, FALSE}
CHECK_DEADLOCK FALSE
INVARIANTS
    Faithful
    LevelsMatch
    WayBackOpen
    CountsCover
    Complete
PROPERTIES
    Improves
    Ends
