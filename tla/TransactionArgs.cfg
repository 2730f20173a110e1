SPECIFICATION Spec
CONSTANTS
    Gases = {1, 3}
    Amounts = {0, 1, 3}
    BaseFees = {0, 2}
    GasCaps = {0, 2}
    MaxGas = 9
INVARIANTS
    TypeOK
    SameMessage
    PricePaid
