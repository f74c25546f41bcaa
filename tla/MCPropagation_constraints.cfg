SPECIFICATION TidySpec
CONSTANTS
    Chosen = {"order", "most", "logic", "affine", "plusses", "plusB", "distance", "sums", "sums3",
              "two", "member", "clauses", "isClause", "different", "matching", "tour", "cells",
              "entry", "basics", "exact", "pick", "implied", "holes",
              "lex3", "lex3Later", "lex4", "lex2", "tasks", "tuples", "split", "odd",
              "fzBool1", "fzBool2", "fzBool3", "fzBool4", "fzBool5", "fzBool6", "fzInt1", "fzInt2",
              "fzInt3", "fzInt4", "fzAbs", "fzTern", "fzLin1", "fzLin2", "fzLin3", "fzLin4",
              "fzLin5", "fzLin6", "fzArr1", "fzArr2", "fzClause", "fzB2I", "fzElt1", "fzElt2",
              "fzElt3", "fzElt4"}
    Body <- MCBody
    newMem <- NewMem
    newAux <- NewAux
    post <- Post
    propagate <- Propagate
    aborts <- Aborts
    holds <- Satisfies
    Programs <- MCPrograms
    NoPrimal = 99
CHECK_DEADLOCK FALSE
INVARIANTS
    OnlyNarrows
    OnlyInfers
    FlagHasEntry
    NoSolutionLost
    NoWakeUpLost
    InactiveIsEntailed
    SolutionsAreReal
    DomainConsistent
PROPERTIES
    Improves
    Terminates
