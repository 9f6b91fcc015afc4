SPECIFICATION FairSpec
CONSTANTS
    b1 = b1
    b2 = b2
    NoBoard = NoBoard
    Envs = 2
    Boards = {b1, b2}
    FirstBoard = b1
    Advance = TRUE
    MaxBuilt = 4
    MaxAt = 2
CHECK_DEADLOCK FALSE
INVARIANTS PipesDrained ViewIsCurrent BoardIsRequested
PROPERTIES CallsEnd EpisodeUnbroken ResumesOnceReloaded
