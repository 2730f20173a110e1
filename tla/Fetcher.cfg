SPECIFICATION FairSpec
CONSTANTS
    Callers = {c1, c2}
    Accounts = {a1}
    StorageSlots = {s1}
    Numbers = {1}
    MaxTime = 2
INVARIANTS
    TypeOK
    NeverBack
    HashAgreed
PROPERTIES
    EveryCallReturns
