SPECIFICATION Spec
CONSTANTS
    Aggregates = {1}
    Keys = {k1, k2, k3}
    Txs = {t1, t2}
    Relays = {r1}
    None = None
    max_attempts = 2
    batch_size = 2
    MaxClock = 1
    MaxAppends = 2
    MaxCrashes = 1
    MaxRequeues = 1
SYMMETRY Symmetry
INVARIANTS TypeOK DenseSequences UniqueKeys PublishedInSequence PublishedWasSent
PROPERTY PublishedIsFinal
