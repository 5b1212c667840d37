\* Loss, reordering, full queues, shared template ids and failing datagrams.
SPECIFICATION FairSpec
CONSTANTS
    Idle = Idle
    a = a
    b = b
    c = c
    t1 = t1
    Exporters = {a, b, c}
    Programme <- MCProgramme
    Tids = {t1}
    ListenerMax = 2
    BatchCap = 2
    PipelineMax = 2
\* The exporters have only so much to send, so behaviours end.
CHECK_DEADLOCK FALSE
INVARIANTS
    MisreadHasCause
    DecodableIsDecoded
    OnlyWholeDatagrams
PROPERTIES
    QueueIsServed
