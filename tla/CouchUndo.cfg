SPECIFICATION Spec
CONSTANTS
    r1 = r1
    r2 = r2
    s1 = s1
    s2 = s2
    t1 = t1
    t2 = t2
    Reviewers <- MCOneReviewer
    Segments <- MCTwoSegments
    Threads <- MCTwoThreads
    Acts <- MCOneVerdict
    Pool = FALSE
    Bound <- MCBoundUndo
    UndoDepth = 2
    Desktop = Desktop
    NoOne = NoOne
INVARIANT
    OneUndoPerDecision
CHECK_DEADLOCK FALSE
