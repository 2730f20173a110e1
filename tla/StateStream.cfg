SPECIFICATION FairSpec
CONSTANTS
    Pollers = {p1, p2}
    MaxHeight = 3
    Branches = {b1, b2}
    b1 = b1
    b2 = b2
    Chains <- ThreeBranches
    FailedTraces = TRUE
    NoBlock = NoBlock
INVARIANTS
    TypeOK
    NothingLost
    HeadMatchesState
    DiffOfItsBlock
PROPERTIES
    HeadOnlyAdvances
    IsPipeline
    HeadCatchesUp
CHECK_DEADLOCK FALSE
