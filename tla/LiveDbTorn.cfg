SPECIFICATION Spec
CONSTANTS
    a1 = a1
    k1 = k1
    Missing = Missing
    Live = Live
    Requests = {r1}
    Addrs <- MCAddrs
    Slots <- MCSlots
    InitialAccounts <- MCContracts
    MaxHeight = 3
    Changes = {"transfer", "set"}
    Failures = FALSE
    BigBlocks = {}
INVARIANTS
    ReadsOneBlock
