SPECIFICATION Spec
CONSTANTS
    W = 2
    IMin <- MCIMin
    N = 6
    Arguments <- MCArguments
    MaxLevels = 1
CHECK_DEADLOCK FALSE
INVARIANTS BoundsAndSize
PROPERTIES OperationsExact IsIntDomain
