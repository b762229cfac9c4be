SPECIFICATION MCSpec
CONSTANTS
    Subscribers = {s}
    Publishers = {p1, p2}
    Capacity = 2
    MaxPublish = 3
    None = None
    Agents <- MCAgents
    Vaults <- MCVaults
    Preferences <- MCPreferences
    Calls = {k1, k2}
    Attestations = {1}
    FailureThreshold = 2
    MaxFailures = 2
    MaxRemovals = 1
    Instances = {i, j}
    Callers = {c, d}
    Threshold = 2
    ResetTimeout = 1
    Ttl = 1
    CursorWrap = 2
    Never = Never
    MaxTime = 3
    Call = {k, l}
    failure_threshold = 2
    recovery_timeout = 1
    success_threshold = 1
    half_open_max_calls = 1
    max_attempts = 2
    MaxPermits = 3
    Endpoints = {e, f}
    Events = {x}
    Passes = {p, q}
    Retries = 2
    MaxReplays = 1
    User = {u}
    Worker = {v, w}
    NoticeAttempts = 2
    MaxMessages = 2
    NoticeTime = 1
SYMMETRY Symmetry
INVARIANT TerminalEventQueued
CHECK_DEADLOCK FALSE
