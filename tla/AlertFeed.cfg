\* A list that overflows, polls that overlap, frames that are lost or late.
SPECIFICATION FairSpec
CONSTANTS
    a1 = a1
    a2 = a2
    p1 = p1
    p2 = p2
    Alerts <- MCAlerts
    Polls <- MCPolls
    MaxAlerts = 1
    PollLimit = 1
    MaxFrames = 1
    MaxTime = 2
INVARIANTS
    ToastedExactlyOnce
PROPERTY ListConverges
