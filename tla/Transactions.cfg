SPECIFICATION MCSpec
CONSTANTS
    Domains = {d1, d2}
    NONCE_MAX = 3
    None = None
    Operations = {1, 2}
    Supports <- MCSupports
    Requests = {"r", "s", "t"}
    Fingerprints = {"f", "g"}
    ttl_secs = 2
    Timely = TRUE
    MaxReleases = 2
    Consumers = {"c"}
    Keys = {"k", "l"}
    Workers = {"v", "w"}
    MaxDeliveries = 3
    Caller = {"c", "d"}
    Lifetime = 1
    MaxTokens = 4
    MaxTime = 2
    Client = {"c", "d"}
    Key = {"k"}
    MaxVaults = 1
    MaxVersion = 3
INVARIANTS  AnsweredByOne OncePerWorker OneActivePerFamily
PROPERTIES   NothingForgotten NoRerunWhileFresh NoLostEdit
CHECK_DEADLOCK FALSE
