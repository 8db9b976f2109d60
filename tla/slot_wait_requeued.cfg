\* One worker with one slot and two jobs, no fault at all.
SPECIFICATION Spec
CONSTANTS
    Jobs = {j1, j2}
    Workers = {w1}
    MaxRetries = 1
    StaleAfter = 3
    StartStaleAfter = 4
    MaxRequeues = 1
    MaxConcurrentJobs = 1
    MaxFaults = 0
    Faults = {}
PROPERTIES HealthyNotRequeued
CHECK_DEADLOCK FALSE
