SPECIFICATION Spec
CONSTANTS
    a1 = a1
    a2 = a2
    k1 = k1
    Missing = Missing
    Idle = Idle
    Clients = {c1, c2}
    Addrs <- MCAddrs
    Slots <- MCSlots
    Ops <- MCOps
    BigBlocks <- MCBigBlocks
INVARIANTS
    TypeOK
PROPERTIES
    Atomicity
    LostOnlyToFill
