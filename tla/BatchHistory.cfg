SPECIFICATION Spec
CONSTANTS
    Segments <- MCOneSegment
    Jobs <- MCJobs
    Transcribes <- MCTranscribes
    Polled <- MCNone
    MaxRevision = 6
    MaxEdits = 3
    MaxFaults = 0
    MaxCrashes = 1
INVARIANTS
    TokensOwnTheirText
PROPERTIES
    HumanWorkKept
    ReplacesWhatItSaw
\* The app is idle once the operation ids and the bounds are used up.
CHECK_DEADLOCK FALSE
