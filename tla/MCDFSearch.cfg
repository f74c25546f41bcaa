SPECIFICATION Spec
CONSTANTS
    MaxBranches = 2
    MaxDepth = 3
    Raises = TRUE
    Limited = TRUE
CHECK_DEADLOCK FALSE
INVARIANTS Balanced HandlerReady Complete LeavesAddUp HandlerRestored
PROPERTY Ends
