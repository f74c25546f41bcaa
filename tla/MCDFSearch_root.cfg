SPECIFICATION Spec
CONSTANTS
    MaxBranches = 2
    MaxDepth = 2
    Raises = FALSE
    Limited = FALSE
CHECK_DEADLOCK FALSE
INVARIANT TightenIsCaught
