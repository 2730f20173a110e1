SPECIFICATION Spec
CONSTANTS
    a1 = a1
    k1 = k1
    Missing = Missing
    Live = Live
    Requests = {r1, r2}
    Addrs <- MCAddrs
    Slots <- MCSlots
    InitialAccounts <- MCAccounts
    MaxHeight = 2
    Changes = {"transfer", "create", "spawn", "set", "clear"}
    Failures = FALSE
    BigBlocks = {}
INVARIANTS
    NothingInvented
SYMMETRY
    Symmetry
