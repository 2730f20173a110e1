SPECIFICATION Spec
CONSTANTS
    alice = alice
    miner = miner
    contract = contract
    slot = slot
    Calls = {c1, c2}
    Accounts = {alice, miner}
    Slots = {slot}
    Contract = contract
    Funds <- MCFunds
    Bundles <- ContractBundles
    Numbers <- MCNumbers
    BaseFees <- NoBaseFee
    Byzantium = 1
    London = 3
    MaxStored = 2
    NextBaseFee = 1
SYMMETRY Symmetry
INVARIANTS
    ReadsBlockState
