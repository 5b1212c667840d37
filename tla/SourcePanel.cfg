\* Two alerts of one source; it ends, is removed, comes back.
SPECIFICATION PanelSpec
CONSTANTS
    a1 = a1
    a2 = a2
    s1 = s1
    NoAlert = NoAlert
    Alerts <- MCAlerts
    Sources <- MCSources
    SrcOf <- MCSrcOf
    ActiveWindow = 0
    PruneAfter = 2
    MaxTime = 4
    Late = TRUE
INVARIANTS
    AlertCountHonest
PROPERTY LiveWindowGrows
