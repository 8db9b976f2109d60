\* No symmetry: liveness.  MaxRequeues is out of reach of MaxFaults.
SPECIFICATION FairSpec
CONSTANTS
    Jobs = {j1}
    Workers = {w1, w2}
    MaxRetries = 1
    StaleAfter = 3
    StartStaleAfter = 4
    MaxRequeues = 4
    MaxConcurrentJobs = 1
    MaxFaults = 2
    Faults = {"crash", "shutdown", "timeout", "publish", "statement", "heartbeat"}
PROPERTIES EventuallySettled
CHECK_DEADLOCK FALSE
