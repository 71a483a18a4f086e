--------------------------- MODULE MCCouchReview ---------------------------
(* CouchReview for TLC.                                                    *)
EXTENDS CouchReview, TLC

CONSTANTS r1, r2, s1, s2, t1, t2

MCTwoReviewers == {r1, r2}
MCOneReviewer == {r1}
MCOneSegment == {s1}
MCTwoSegments == {s1, s2}
MCOneThread == {t1}
MCTwoThreads == {t1, t2}
MCOneVerdict == {"edit"}
MCEditOrSkip == {"edit", "skip"}
MCAllActs == {"accept", "edit", "skip"}
MCBoundPlain ==
    [decide |-> 2, desktop |-> 0, undo |-> 1, load |-> 2, touch |-> 1,
     fault |-> 1, restart |-> 1]
MCBoundPool ==
    [decide |-> 2, desktop |-> 1, undo |-> 1, load |-> 2, touch |-> 0,
     fault |-> 1, restart |-> 0]
MCBoundWedge ==
    [decide |-> 2, desktop |-> 1, undo |-> 0, load |-> 2, touch |-> 0,
     fault |-> 0, restart |-> 0]
MCBoundUndo ==
    [decide |-> 2, desktop |-> 0, undo |-> 2, load |-> 1, touch |-> 0,
     fault |-> 0, restart |-> 0]

\* Reviewers, clips and threads are interchangeable in the safety runs.
MCSymmetry ==
    Permutations(Reviewers) \cup Permutations(Segments) \cup Permutations(Threads)
=============================================================================
