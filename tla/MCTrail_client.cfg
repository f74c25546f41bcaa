SPECIFICATION ClientSpec
CONSTANTS
    a = a
    b = b
    Cells <- MCCells
    Vecs <- MCVecs
    Values = {0, 1}
    EntrySize <- MCEntrySize
    BlockSize = 3
    Nodes = {1}
    MaxMagic = 2
    MaxDepth = 3
    MaxTrail = 3
    NoPromise = NoPromise
CHECK_DEADLOCK FALSE
INVARIANTS Layout Covered PopIsTheLoop
PROPERTY IsBacktrackStore
