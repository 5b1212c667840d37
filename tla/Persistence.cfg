\* Failures, shutdown and restarts; the queue overflows and the list forgets.
SPECIFICATION FairSpec
CONSTANTS
    a1 = a1
    a2 = a2
    a3 = a3
    Alerts <- MCAlerts
    NoAlert = NoAlert
    QueueMax = 2
    RecentMax = 2
    MayFail = TRUE
    MayCrash = TRUE
\* Behaviours end once every alert is through.
CHECK_DEADLOCK FALSE
INVARIANTS
    WrittenOnce
    NothingForgotten
PROPERTIES
    PathKept
    QueuedIsWritten
