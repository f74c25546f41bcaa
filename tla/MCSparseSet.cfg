SPECIFICATION Spec
CONSTANTS
    N = 4
    Ofs <- MCOfs
    Arguments <- MCArguments
    MaxLevels = 2
CHECK_DEADLOCK FALSE
INVARIANTS WellFormed LevelsIntact
PROPERTIES OperationsExact IsIntDomain
