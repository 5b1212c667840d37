\* Lost, late and unanswered posts, a full pipeline, and packets that cannot be parsed.
SPECIFICATION FairSpec
CONSTANTS
    NoRequest = NoRequest
    tap = tap
    live = live
    file = file
    k1 = k1
    k2 = k2
    Standalone = {tap}
    Live = {live}
    Replay = {file}
    Packets = {1, 2, 3, 4, 5, 6, 7, 8, 9, 10}
    Of <- MCOf
    Key <- MCKey
    Wanted = {1, 3, 4, 5, 6, 7, 8, 9, 10}
    Bad = {4, 5}
    BatchMax = 2
    PipelineMax = 2
\* There are only so many packets, so behaviours end.
CHECK_DEADLOCK FALSE
PROPERTIES
    FullBatchIsPosted
