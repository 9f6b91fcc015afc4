CONSTANTS
    Jobs = 3
    Workers = 2
    IdleDeaths = TRUE
SPECIFICATION Spec
CHECK_DEADLOCK FALSE
INVARIANT AllAnswered
