SPECIFICATION VaultSpec
CONSTANTS
    Commands = {c1, c2}
    Records = {r1, r2}
    MaxFails = 0
    Alone = FALSE
    NoRecord = NoRecord
INVARIANTS
    NeverEmptyWithKey
