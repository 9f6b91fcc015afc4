CONSTANTS
    Content = {b1, b2}
    Query <- Queries
    Fixed <- FixedQueries
    FixedValue = FixedValue
    Mutator <- Mutators
    Tuner <- Tuners
    None = None
    Missing = Missing
    Reentry = TRUE
SPECIFICATION FairSpec
PROPERTIES ImplementsLocalRouter CallReturns
