SPECIFICATION Spec

CONSTANTS
    Op = {a, b}
    Delay = 2
    MaxLedger = 8
    a = a
    b = b

PROPERTY UnpauseWaits
CHECK_DEADLOCK FALSE
