SPECIFICATION FairSpec
CONSTANTS
    r1 = r1
    r2 = r2
    s1 = s1
    s2 = s2
    t1 = t1
    t2 = t2
    Reviewers <- MCTwoReviewers
    Segments <- MCOneSegment
    Threads <- MCOneThread
    Acts <- MCOneVerdict
    Pool = TRUE
    Bound <- MCBoundWedge
    UndoDepth = 1
    Desktop = Desktop
    NoOne = NoOne
PROPERTY
    HeldWorkSettles
CHECK_DEADLOCK FALSE
