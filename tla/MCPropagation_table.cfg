SPECIFICATION TidySpec
CONSTANTS
    Chosen = {"gap"}
    Body <- MCBody
    newMem <- NewMem
    newAux <- NewAux
    post <- Post
    propagate <- Propagate
    aborts <- Aborts
    holds <- Satisfies
    Programs <- MCPrograms
    NoPrimal = 99
CHECK_DEADLOCK FALSE
INVARIANT SolutionsAreReal
