SPECIFICATION FairSpec
CONSTANTS
    Samples = {1, 2, 3, 4}
    SeqLen <- Lengths
    HeadOf <- Heads
    BatchSize = 3
    NEpochs = 1
    NIterations = 2
    Capacity = 4
    Setups <- AllSetups
    Perms <- Draws
    MaxOoms = 2
    MaxDeaths = 1
INVARIANT Lockstep
PROPERTIES StepIsTheMinibatch AllLeave
CHECK_DEADLOCK FALSE
