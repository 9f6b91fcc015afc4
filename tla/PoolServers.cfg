CONSTANTS
    s1 = s1
    s2 = s2
    s3 = s3
    s4 = s4
    e1 = e1
    e2 = e2
    Server <- Servers
    Engine <- Engines
    NoServer = NoServer
    NoEngine = NoEngine
    Limits <- LimitChoices
    Budget = TRUE
    Interrupts = TRUE
SPECIFICATION Spec
SYMMETRY ServerSymmetry
INVARIANTS IdleWithinLimit NoOrphan ReusedIsClean OwnRouter
PROPERTY OneLiveRouter
