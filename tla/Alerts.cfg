\* Two targets and more sources than are tracked, pruning of both tables, two windows.
SPECIFICATION Spec
CONSTANTS
    k1 = k1
    k2 = k2
    s1 = s1
    s2 = s2
    s3 = s3
    Keys <- MCKeys
    Sources <- MCSources
    Window = 3
    PulseInterval = 2
    TrackedSources = 2
    RecentMax = 1
    DedupLimit = 1
    MaxTime = 6
    MaxDetections = 3
\* The clock and the number of detections are bounded, so behaviours end.
CHECK_DEADLOCK FALSE
SYMMETRY SourceSymmetry
INVARIANTS
    SuppressedHasOpenAlert
    UnlistedOnlyByFlood
    SummaryFaithful
    PulseRate
PROPERTY ImplementsPromise
