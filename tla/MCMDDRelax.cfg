SPECIFICATION Spec
CONSTANTS
    N = 3
    Values = {0, 1, 2}
    Width = 2
    MaxIter = 1
    Decisions = 2
    Chosen = {"among", "among2", "upToOne", "allDiff", "allDiff2", "atMost", "atMost2",
              "gcc", "gcc2", "sum", "two", "sumZ", "signed", "matrix", "seq", "seq2",
              "precedence", "required", "goc", "goc2", "absDiff", "maxCut"}
    Programs <- MCPrograms
\* the search stops after its last decision
CHECK_DEADLOCK FALSE
INVARIANTS NoSolutionLost StatesCover LeavesExact Shape QueuesMatch
PROPERTY Terminates
