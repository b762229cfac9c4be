SPECIFICATION MCSpec
CONSTANTS
    Address = {a1, a2}
    Operation = {o}
    MaxAdmins = 2
    Voter = {v1, v2}
    Identity = {i1, i2}
    Zero = Zero
    MinUnits = 1
    Units = {1, 4}
    Credits = {1, 3}
    Module = {m}
    MaxProposals = 1
    MaxLedger = 1
    OpId = {"o", "p"}
    Account = {"a"}
    Delays = {1, 2}
    MaxTime = 3
    MaxRequeue = 2
    Party = {"g", "h", "i"}
    Guardians = 2
    Required = 2
    MaxAmount = 2
    Lock = 1
    EscrowLedgers = 2
    MaxEpoch = 2
    Op = {"d", "w"}
    Delay = 2
    StopLedgers = 8
    Source = {"s"}
    Protocol = {"p", "q"}
    Execution = {"e"}
    Key = {"k"}
    Height = {1}
    BridgeDelays = {0, 1}
    MaxSequence = 2
    BridgeTime = 1
SYMMETRY Symmetry
INVARIANTS OnceWhenDue VotesAccount IndexesExact NoStaleOverwrite
PROPERTIES QuorumOfCurrent StopsHold
CHECK_DEADLOCK FALSE
