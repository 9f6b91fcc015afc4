SPECIFICATION Spec
CONSTANTS
    NEnvs = 2
    NBoards = 2
    MaxSteps <- ThreeAndTwo
    NoProgress = 1
    NoGeometry = 1
    EpisodesOf <- OneThenTwo
    MaxFaults = 2
CHECK_DEADLOCK FALSE
INVARIANT ReportsItsEnd
