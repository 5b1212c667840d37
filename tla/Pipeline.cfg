\* Two consumers, failures, expiry, a full queue and shutdown.
SPECIFICATION FairSpec
CONSTANTS
    NoRecord = NoRecord
    c1 = c1
    c2 = c2
    req1 = req1
    req2 = req2
    reply = reply
    probe = probe
    reset = reset
    udpOut = udpOut
    udpBack = udpBack
    tcpOut = tcpOut
    tcpBack = tcpBack
    Consumers <- TwoConsumers
    Records <- AllRecords
    Flows <- MCFlows
    FlowOf <- AllFlowOf
    Reverse <- MCReverse
    Initiators <- MCInitiators
    Syn <- MCSyn
    TcpRst <- MCTcpRst
    QueueMax = 2
    MayFail = TRUE
    MayForget = TRUE
\* Every record is reported once, so behaviours end.
CHECK_DEADLOCK FALSE
INVARIANTS
    RecordInOnePlace
    RstReplyNeverAlerts
PROPERTIES
    AcceptedIsFinished
    ImplementsQueue
