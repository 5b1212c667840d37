SPECIFICATION VerdictSpec
CONSTANTS
    Judged <- MCJudged
    Probabilities <- MCProbabilities
    AnomalyScores <- MCAnomalyScores
    DetectionThreshold = 6000
INVARIANTS
    BorderTechniquesSurface
    SegmentTrafficSpared
    ThreatIsExplained
    FastPathAgrees
CHECK_DEADLOCK FALSE
