SPECIFICATION Spec
CONSTANTS
    a1 = a1
    k1 = k1
    Missing = Missing
    Live = Live
    Requests = {r1}
    Addrs <- MCAddrs
    Slots <- MCSlots
    InitialAccounts <- MCAccounts
    MaxHeight = 3
    Changes = {"transfer", "send", "create", "set", "clear", "destroy"}
    Failures = TRUE
    BigBlocks <- MCBigBlocks
INVARIANTS
    TypeOK
    PinnedExact
    BlockNotOlder
    StoreHonest
PROPERTIES
    BlockWritesFresh
