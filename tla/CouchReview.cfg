SPECIFICATION EitherSpec
CONSTANTS
    r1 = r1
    r2 = r2
    s1 = s1
    s2 = s2
    t1 = t1
    t2 = t2
    Reviewers <- MCTwoReviewers
    Segments <- MCOneSegment
    Threads <- MCTwoThreads
    Acts <- MCAllActs
    Pool = FALSE
    Bound <- MCBoundPlain
    UndoDepth = 1
    Desktop = Desktop
    NoOne = NoOne
SYMMETRY MCSymmetry
INVARIANTS
    PayFollowsStandingWork
    NoVerdictReplaced
    VerdictOnServedText
    SavedOnce
    PoolHistoryLoads
PROPERTY
    CanonicalRefusalIsTrue
CHECK_DEADLOCK FALSE
