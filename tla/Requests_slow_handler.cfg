SPECIFICATION Spec
CONSTANTS
    Requests = {r1, r2, r3}
    Fingerprints = {f1, f2}
    ttl_secs = 2
    Timely = FALSE
    MaxReleases = 2
    None = None
INVARIANT LiveClaimsExclusive
CHECK_DEADLOCK FALSE
