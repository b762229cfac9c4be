SPECIFICATION MCSpec
CONSTANTS
    Account = {a1, a2}
    Offset = 2
    BPS = 2
    FeeRates = {1}
    MaxBalance = 3
    MaxSupply = 2
    MaxLedger = 1
SYMMETRY Symmetry
INVARIANTS   BestFirst
 
CHECK_DEADLOCK FALSE
