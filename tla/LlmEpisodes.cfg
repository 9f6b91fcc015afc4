SPECIFICATION Spec
CONSTANTS
    NEnvs = 2
    NBoards = 2
    MaxSteps <- ThreeAndTwo
    NoProgress = 2
    NoGeometry = 1
    EpisodesOf <- OneThenTwo
    MaxFaults = 2
CHECK_DEADLOCK FALSE
INVARIANTS ScoredAtItsEnd ShowsWhatWasScored OnItsBoard UsageCoversDumps
PROPERTY SteppedUntilDone
