\* Caps, expiry, indexes and the features read from them; timeouts and
\* windows in the order the settings have them.
SPECIFICATION FeaturesFairSpec
CONSTANTS
    a = a
    b = b
    c = c
    d = d
    f1 = f1
    f2 = f2
    f3 = f3
    f4 = f4
    f5 = f5
    Flows <- MCFlows
    Hosts <- MCHosts
    Src <- MCSrc
    Dst <- MCDst
    MaxFlows = 3
    IdleGrace = 1
    EvictBatch = 1
    FlowTimeout = 2
    ConnExpiry = 3
    AgeCap = 4
    DstPort <- MCDstPort
    Proto <- MCProto
    Small <- MCSmall
    Sizeless <- MCSizeless
    Internal <- MCInternal
    PairWindow = 1
    FreqWindow = 2
INVARIANTS
    IndexExact
    TablesAgree
    ForgottenOnlyUnderFlood
    FeaturesFollowTraffic
PROPERTIES
    OnlyIdleFlowsForgotten
    IdleEntriesExpire
