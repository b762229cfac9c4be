SPECIFICATION Spec
CONSTANTS
    Aggregates = {1}
    Keys = {k1, k2}
    Txs = {t1, t2}
    Relays = {r1}
    None = None
    max_attempts = 2
    batch_size = 2
    MaxClock = 1
    MaxAppends = 1
    MaxCrashes = 0
    MaxRequeues = 0
INVARIANT InSequence
