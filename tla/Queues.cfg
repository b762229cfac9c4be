SPECIFICATION MCSpec
CONSTANTS
    Queues = {q1}
    Workers = {w1, w2}
    Priorities = {1, 2}
    Configs <- MCConfigs
    DefaultConfig <- OnePerTwo
    MaxAttempts = 2
    Delay <- MCDelay
    CronTimes = {1, 2}
    CronQueue = q1
    CronPriority = 2
    Modes = {"direct"}
    MaxJobs = 2
    MaxTime = 2
    MaxRetries = 1
    MaxPanics = 1
    JobIds = {j1, j2}
    Pollers = {w1, w2}
    Tasks = {t1, t2}
    MaxFaults = 1
    MaxStops = 1
    None = None
    Absent = None
SYMMETRY Symmetry
INVARIANTS RunsAccounted TasksAccounted SubmissionWhole
 
CHECK_DEADLOCK FALSE
