SPECIFICATION MCSpec
CONSTANTS
    Requests = {a, b}
    Fingerprints = {f, g}
    ttl_secs = 2
    Timely = TRUE
    MaxReleases = 1
    None = None
PROPERTIES EventuallyAnswered EveryJobEnds EveryDeliverySettles
CHECK_DEADLOCK FALSE
