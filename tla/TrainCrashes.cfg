SPECIFICATION FairSpec
CONSTANTS
    NBoards = 3
    Shuffles <- ThreeShuffles
    Draws <- SomeDraws
    Picks = 2
    Runs <- MixedRuns
    MaxIterations = 3
    WarmIters = 1
    Streak = 2
    LrWarmup = 2
    Scores = {1, 2}
    ResumeFrom = {"last", "iter"}
    MaxStarts = 2
CHECK_DEADLOCK FALSE
INVARIANTS ResumedAsUninterrupted ResultOfItsCheckpoint ConsumedCounts BestIsItsCheckpoint DoneMeansCompleted
PROPERTIES BestNeverDrops EvaluatedUnlessTorn
