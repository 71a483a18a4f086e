SPECIFICATION FairSpec
CONSTANTS
    Segments <- MCSegments
    Jobs <- MCOneJob
    Transcribes <- MCTranscribes
    Polled <- MCOneJob
    MaxRevision = 3
    MaxEdits = 1
    MaxFaults = 2
    MaxCrashes = 1
INVARIANTS
    EvidenceAgrees
    SettledIsProved
PROPERTIES
    SettledAnswerIsFinal
    JobsEnd
\* The app is idle once the operation ids and the bounds are used up.
CHECK_DEADLOCK FALSE
