\* Three record calls, rotations that may fail, stops, crashes and restarts.
SPECIFICATION Spec
CONSTANTS
    p1 = p1
    p2 = p2
    p3 = p3
    Packets <- MCPackets
    MaxPackets = 2
    MayFail = TRUE
    MaxStarts = 3
SYMMETRY MCSymmetry
INVARIANTS
    PacketKept
    ActiveBounded
PROPERTIES
    EvidenceGapHasCause
\* The process may be down for good with every packet recorded.
CHECK_DEADLOCK FALSE
