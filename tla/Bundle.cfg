SPECIFICATION Spec
CONSTANTS
    alice = alice
    miner = miner
    contract = contract
    slot = slot
    Calls = {c1}
    Accounts = {alice, miner}
    Slots = {slot}
    Contract = contract
    Funds <- MCFunds
    Bundles <- MCBundles
    Numbers <- MCNumbers
    BaseFees <- MCBaseFees
    Byzantium = 1
    London = 3
    MaxStored = 2
    NextBaseFee = 1
INVARIANTS
    TypeOK
    TotalsAddUp
    EthSentExact
    DeadlineHonoured
