SPECIFICATION Spec
CONSTANTS
    Requests = {r1}
    Labels = {l1, l2}
    Window = 3
    MaxBlocks = 5
    MaxNumber = 5
    Failures = TRUE
    None = None
INVARIANTS
    TypeOK
    HashExact
    HashOfLineage
    WalkEnds
    StateOfHeader
SYMMETRY
    Symmetry
