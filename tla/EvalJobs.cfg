CONSTANTS
    Jobs = 4
    Workers = 3
    IdleDeaths = TRUE
SPECIFICATION FairSpec
CHECK_DEADLOCK FALSE
INVARIANTS ResultIsItsOwn AnsweredUnlessSendFailed
PROPERTY Returns
